------------------------------ MODULE Devices ------------------------------
(***************************************************************************)
(* The device store: the requests that register and restore devices        *)
(* (controller/Register.go), the statements they run on the table of       *)
(* devices (database/sql.go), and the export and import of the table when  *)
(* the server stops and starts (database/main.go, main.go).                *)
(*                                                                         *)
(* Each statement is a step: there are no transactions, so statements of   *)
(* other requests come in between.  Any statement may fail: SQLite, which  *)
(* is what the server uses unless it is given a data source, is busy with  *)
(* another writer, or the database was closed.  What a request says of its *)
(* device besides its group (the tokens of pushes, talk and location, and  *)
(* the platform) is written as a whole and is one token here.              *)
(***************************************************************************)
EXTENDS Access, Naturals

CONSTANTS
  Keys,       \* keys of devices
  FullKeys,   \* those of 22 characters, the length of a generated key
  Tokens,     \* tokens of devices, 64 characters or more
  Groups,     \* names of groups
  Nothing,    \* no key, no group, no token (or one of under 64 characters)
  Threads,    \* goroutines that serve registrations
  Callers,    \* the callers there are
  MaxRows,    \* bound: how many rows are ever created
  MaxStarts   \* bound: how often the process is started

ASSUME DevicesAssumption ==
  /\ FullKeys \subseteq Keys
  /\ Nothing \notin Keys \cup Tokens \cup Groups
  /\ Callers \subseteq Caller
  /\ MaxRows \in Nat \ {0} /\ MaxStarts \in Nat \ {0}

VARIABLES
  db,         \* the table of devices, by key
  nextId,     \* the next primary key
  pc,         \* where a request is
  call,       \* what it asks for
  seen,       \* the row it has read
  life,       \* of the process: serving, closing, exported, closed, down
  importing,  \* the goroutine of ImportData has not run yet
  export,     \* the file database.json
  starts,     \* how often the process was started
  agreed,     \* what the answers given so far say of a key
  doubtful    \* keys of which they say nothing now

main == <<life, importing, export, starts>>

vars == <<db, nextId, pc, call, seen, main, agreed, doubtful>>

TokenField == Tokens \cup {Nothing}
GroupField == Groups \cup {Nothing}

NoRow == [id |-> 0, token |-> Nothing, group |-> Nothing]

Rows == [id : 1..MaxRows, token : TokenField, group : GroupField]

Exists(row) == row.id # 0

\* A restore asks for a row without token and group.
Request ==
  [op : {"register"}, key : Keys, token : TokenField, group : GroupField]
    \cup [op : {"restore"}, key : Keys, token : {Nothing}, group : {Nothing}]

NoRequest == [op |-> "none", key |-> Nothing, token |-> Nothing, group |-> Nothing]

\* What a row says of its device.
Content(row) == [there |-> Exists(row), token |-> row.token, group |-> row.group]

Contents == [there : BOOLEAN, token : TokenField, group : GroupField]

DevicesTypeOK ==
  /\ db \in [Keys -> Rows \cup {NoRow}]
  /\ nextId \in 1..(MaxRows + 1)
  /\ \A k \in Keys : db[k].id < nextId
  /\ pc \in [Threads -> {"idle", "exists", "find", "create", "delete", "save", "insert"}]
  /\ call \in [Threads -> Request \cup {NoRequest}]
  /\ \A t \in Threads : pc[t] = "idle" <=> call[t] = NoRequest
  /\ seen \in [Threads -> Rows \cup {NoRow}]
  /\ life \in {"serving", "closing", "exported", "closed", "down"}
  /\ importing \in BOOLEAN
  /\ export \in [form : {"none", "torn", "whole"}, rows : [Keys -> Rows \cup {NoRow}]]
  /\ starts \in 1..MaxStarts
  /\ agreed \in [Keys -> Contents]
  /\ doubtful \subseteq Keys

DevicesInit ==
  /\ db = [k \in Keys |-> NoRow]
  /\ nextId = 1
  /\ pc = [t \in Threads |-> "idle"]
  /\ call = [t \in Threads |-> NoRequest]
  /\ seen = [t \in Threads |-> NoRow]
  /\ life = "serving"
  /\ importing = TRUE
  /\ export = [form |-> "none", rows |-> db]
  /\ starts = 1
  /\ agreed = [k \in Keys |-> Content(NoRow)]
  /\ doubtful = {}

-----------------------------------------------------------------------------
(* Requests *)

Busy(k, t) == \E u \in Threads \ {t} : call[u].key = k

At(t, where) == pc[t] = where /\ life # "down"

Goto(t, where) == pc' = [pc EXCEPT ![t] = where] /\ UNCHANGED <<call, main>>

\* fits: the body is JSON, for callers other than admins within 512 bytes, and
\* its token within 200 characters.  Any key of 22 characters can be restored.
Accepted(c, fits, r) ==
  /\ Admitted(c)
  /\ r.op = "register" => fits
  /\ r.op = "restore" => Admin(c) \/ r.key \in FullKeys

\* A registration without a key is given a new one: it is then like one that
\* names a key stored nowhere.  A request that meets another one about its key
\* makes the outcome doubtful.
Register(t, c, fits, r) ==
  /\ At(t, "idle")
  /\ life = "serving"
  /\ Accepted(c, fits, r)
  /\ pc' = [pc EXCEPT ![t] = IF r.op = "restore" THEN "exists" ELSE "find"]
  /\ call' = [call EXCEPT ![t] = r]
  /\ doubtful' = IF Busy(r.key, t) THEN doubtful \cup {r.key} ELSE doubtful
  /\ UNCHANGED <<db, nextId, seen, main, agreed>>

\* A request without a token leaves the group it names.
Leaves(r, row) == r.token = Nothing /\ r.group # Nothing /\ r.group = row.group

\* What a request means for a key, if it is served alone.
Effect(r, c) ==
  IF ~c.there THEN [there |-> TRUE, token |-> r.token, group |-> r.group]
  ELSE IF r.op = "restore" THEN c
  ELSE IF Leaves(r, c) THEN Content(NoRow)
  ELSE [there |-> TRUE, token |-> r.token, group |-> c.group]

\* The request is answered.  An answer of success says that the request had its
\* effect; when the last of several overlapping requests is answered, what they
\* left is where the next one starts.
Answer(t, success, doubted) ==
  LET k == call[t].key
  IN  /\ pc' = [pc EXCEPT ![t] = "idle"]
      /\ call' = [call EXCEPT ![t] = NoRequest]
      /\ seen' = [seen EXCEPT ![t] = NoRow]
      /\ agreed' = [agreed EXCEPT ![k] =
           IF doubted \/ k \in doubtful THEN Content(db'[k])
           ELSE IF success THEN Effect(call[t], @) ELSE @]
      /\ doubtful' = IF Busy(k, t) THEN doubtful ELSE doubtful \ {k}
      /\ UNCHANGED main

Open == life \in {"serving", "closing", "exported"}

KeyExists(t) ==
  /\ At(t, "exists") /\ Open
  /\ UNCHANGED <<db, nextId>>
  /\ IF Exists(db[call[t].key])
     THEN Answer(t, TRUE, FALSE)
     ELSE Goto(t, "find") /\ UNCHANGED <<seen, agreed, doubtful>>

\* Mutated form of Find: a request without a token leaves whatever group it names.
FindLeavingAnyGroup(t) ==
  LET r == call[t]
      row == db[r.key]
  IN  /\ At(t, "find") /\ Open
      /\ seen' = [seen EXCEPT ![t] = row]
      /\ Goto(t, IF ~Exists(row) THEN "create"
                 ELSE IF r.token = Nothing /\ r.group # Nothing THEN "delete" ELSE "save")
      /\ UNCHANGED <<db, nextId, agreed, doubtful>>

\* SaveDeviceTokenByKey: the row is read, and what to do with it decided.
Find(t) ==
  LET r == call[t]
      row == db[r.key]
  IN  /\ At(t, "find") /\ Open
      /\ seen' = [seen EXCEPT ![t] = row]
      /\ Goto(t, IF ~Exists(row) THEN "create" ELSE IF Leaves(r, row) THEN "delete" ELSE "save")
      /\ UNCHANGED <<db, nextId, agreed, doubtful>>

\* Mutated form of Create: the number of the next row is not moved on.
CreateWithOldId(t) ==
  LET r == call[t]
  IN  /\ At(t, "create") /\ Open
      /\ ~Exists(db[r.key])
      /\ db' = [db EXCEPT ![r.key] = [id |-> nextId, token |-> r.token, group |-> r.group]]
      /\ UNCHANGED nextId
      /\ Answer(t, TRUE, FALSE)

\* INSERT; the unique index on the key refuses a second row.
Create(t) ==
  LET r == call[t]
  IN  /\ At(t, "create") /\ Open
      /\ IF Exists(db[r.key])
         THEN UNCHANGED <<db, nextId>> /\ Answer(t, FALSE, FALSE)
         ELSE /\ nextId <= MaxRows
              /\ db' = [db EXCEPT ![r.key] =
                          [id |-> nextId, token |-> r.token, group |-> r.group]]
              /\ nextId' = nextId + 1
              /\ Answer(t, TRUE, FALSE)

\* DELETE of the row that was read.
Delete(t) ==
  LET k == call[t].key
  IN  /\ At(t, "delete") /\ Open
      /\ db' = IF db[k].id = seen[t].id THEN [db EXCEPT ![k] = NoRow] ELSE db
      /\ UNCHANGED nextId
      /\ Answer(t, TRUE, FALSE)

\* Mutated form of Updated: the group is written, too.
UpdatedWithGroup(t) == [seen[t] EXCEPT !.token = call[t].token, !.group = call[t].group]

\* The row that was read, with what the request says of the device.
Updated(t) == [seen[t] EXCEPT !.token = call[t].token]

\* UPDATE of the row that was read ...
Save(t) ==
  LET k == call[t].key
  IN  /\ At(t, "save") /\ Open
      /\ UNCHANGED nextId
      /\ IF db[k].id = seen[t].id
         THEN db' = [db EXCEPT ![k] = Updated(t)] /\ Answer(t, TRUE, FALSE)
         ELSE Goto(t, "insert") /\ UNCHANGED <<db, seen, agreed, doubtful>>

\* ... which, if it is gone, gorm inserts again, in a statement of its own: over
\* a row of the same number, and refused by the unique index if the key has one
\* of another.
Insert(t) ==
  LET k == call[t].key
  IN  /\ At(t, "insert") /\ Open
      /\ UNCHANGED nextId
      /\ IF db[k].id \in {seen[t].id, 0}
         THEN db' = [db EXCEPT ![k] = Updated(t)] /\ Answer(t, TRUE, FALSE)
         ELSE UNCHANGED db /\ Answer(t, FALSE, FALSE)

\* A statement fails.  KeyExists takes any error for an absent key, so a restore
\* goes on to overwrite the device; the error of a delete is dropped, so it is
\* answered as done.
StatementFails(t) ==
  LET k == call[t].key
  IN  /\ UNCHANGED <<db, nextId>>
      /\ \/ /\ At(t, "exists")
            /\ Goto(t, "find")
            /\ doubtful' = IF Exists(db[k]) THEN doubtful \cup {k} ELSE doubtful
            /\ UNCHANGED <<seen, agreed>>
         \/ \E where \in {"find", "create", "save", "insert"} :
              At(t, where) /\ Answer(t, FALSE, FALSE)
         \/ At(t, "delete") /\ Answer(t, TRUE, TRUE)

-----------------------------------------------------------------------------
(* The process *)

requests == <<pc, call, seen, agreed, doubtful>>

\* server.Shutdown gives up after five seconds: requests may still be served.
StopServing ==
  /\ life = "serving"
  /\ life' = "closing"
  /\ UNCHANGED <<db, nextId, requests, importing, export, starts>>

\* The table is read and written to database.json, unless one of both fails.
ExportData ==
  /\ life = "closing"
  /\ life' = "exported"
  /\ \/ export' = [form |-> "whole", rows |-> db]
     \/ export' = [form |-> "torn", rows |-> [k \in Keys |-> NoRow]]
     \/ UNCHANGED export
  /\ UNCHANGED <<db, nextId, requests, importing, starts>>

CloseDatabase ==
  /\ life = "exported"
  /\ life' = "closed"
  /\ UNCHANGED <<db, nextId, requests, importing, export, starts>>

\* main returns, or the process is killed: nobody was told how the requests in
\* progress ended.
Stop ==
  /\ life # "down"
  /\ life' = "down"
  /\ pc' = [t \in Threads |-> "idle"]
  /\ call' = [t \in Threads |-> NoRequest]
  /\ seen' = [t \in Threads |-> NoRow]
  /\ agreed' = [k \in Keys |->
       IF \E t \in Threads : call[t].key = k THEN Content(db[k]) ELSE agreed[k]]
  /\ doubtful' = {}
  /\ UNCHANGED <<db, nextId, importing, export, starts>>

\* The table is a file of its own: it is there again.
Boot ==
  /\ life = "down"
  /\ starts < MaxStarts
  /\ life' = "serving"
  /\ importing' = TRUE
  /\ starts' = starts + 1
  /\ UNCHANGED <<db, nextId, requests, export>>

\* ImportData goes on only if os.Stat finds no file, and then os.ReadFile finds
\* none either; if there is a file, ImportData ends at once.
ImportData ==
  /\ importing /\ Open
  /\ importing' = FALSE
  /\ UNCHANGED <<db, nextId, requests, life, export, starts>>

-----------------------------------------------------------------------------
Serve(t) ==
  \/ KeyExists(t)
  \/ Find(t)
  \/ Create(t)
  \/ Delete(t)
  \/ Save(t)
  \/ Insert(t)
  \/ StatementFails(t)

DevicesNext ==
  \/ \E t \in Threads, c \in Callers, fits \in BOOLEAN, r \in Request :
       Register(t, c, fits, r)
  \/ \E t \in Threads : Serve(t)
  \/ StopServing
  \/ ExportData
  \/ CloseDatabase
  \/ Stop
  \/ Boot
  \/ ImportData

DevicesSpec == DevicesInit /\ [][DevicesNext]_vars

-----------------------------------------------------------------------------
(* Properties *)

\* The table holds what the answers say, for every key that no two requests are
\* about at once: a registration answered with success stays until a later one
\* about its key is, over refusals, failures, restores, crashes, exports and
\* imports.  Two failures are not covered: a restore whose look-up fails empties
\* the device, and a failed delete is answered as done (StatementFails).
AnswersHold == \A k \in Keys \ doubtful : Content(db[k]) = agreed[k]

\* A device keeps the group it was created with, whatever later registrations
\* say and however they interleave: it changes only by leaving and coming back.
GroupsStay ==
  [][\A k \in Keys : Exists(db[k]) /\ Exists(db'[k]) => db'[k].group = db[k].group]_db
=============================================================================
