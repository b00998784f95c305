--------------------------- MODULE DevicesProofs ---------------------------
(***************************************************************************)
(* Theorems about the device store, for any keys, tokens, groups, callers, *)
(* number of requests at a time, rows and starts of the server.            *)
(***************************************************************************)
EXTENDS Devices, TLAPS

-----------------------------------------------------------------------------
(* Types *)

\* What is needed beside the types for them to be kept: a row that was read is
\* older than the next one, and an update has read one.
TypeInv ==
  /\ DevicesTypeOK
  /\ \A t \in Threads : seen[t].id < nextId
  /\ \A t \in Threads : pc[t] \in {"save", "insert"} => Exists(seen[t])

\* What a request means for the content of a row is content again.
LEMMA EffectType ==
  ASSUME NEW r \in Request, NEW c \in Contents
  PROVE  Effect(r, c) \in Contents
BY DevicesAssumption DEF Effect, Leaves, Contents, Content, NoRow, Exists, Request, TokenField, GroupField

\* Rows have content.
LEMMA ContentType ==
  ASSUME NEW row \in Rows \cup {NoRow}
  PROVE  Content(row) \in Contents
BY DevicesAssumption DEF Content, Contents, Rows, NoRow, Exists, TokenField, GroupField

\* The identifiers of rows are numbers.
LEMMA IdsAreNumbers ==
  ASSUME NEW row \in Rows \cup {NoRow}
  PROVE  row.id \in Nat
<1>1. CASE row \in Rows
  <2>1. row.id \in 1..MaxRows
    BY <1>1 DEF Rows
  <2> QED BY <2>1, DevicesAssumption
<1>2. CASE row = NoRow
  BY <1>2 DEF NoRow
<1> QED BY <1>1, <1>2

\* A row is written whose identifier is used.
LEMMA TableTypes ==
  ASSUME TypeInv, NEW k \in Keys, NEW row \in Rows \cup {NoRow},
         row.id < nextId', nextId' \in Nat, nextId <= nextId',
         db' = [db EXCEPT ![k] = row]
  PROVE  /\ db' \in [Keys -> Rows \cup {NoRow}]
         /\ \A j \in Keys : db'[j].id < nextId'
<1>1. nextId \in Nat
  BY DevicesAssumption DEF TypeInv, DevicesTypeOK
<1>2. db \in [Keys -> Rows \cup {NoRow}] /\ \A j \in Keys : db[j].id < nextId
  BY DEF TypeInv, DevicesTypeOK
<1>3. db' \in [Keys -> Rows \cup {NoRow}]
  BY <1>2
<1>4. ASSUME NEW j \in Keys PROVE db'[j].id < nextId'
  <2>1. CASE j = k
    BY <1>2, <2>1
  <2>2. CASE j # k
    <3>1. db'[j] = db[j] /\ db[j].id < nextId
      BY <1>2, <2>2
    <3>2. db[j].id \in Nat
      BY <1>2, IdsAreNumbers
    <3> QED BY <1>1, <3>1, <3>2
  <2> QED BY <2>1, <2>2
<1> QED BY <1>3, <1>4

\* An answer keeps the types, if what the step does to the table does.
LEMMA AnswerTypes ==
  ASSUME TypeInv, NEW t \in Threads, pc[t] # "idle",
         NEW success \in BOOLEAN, NEW doubted \in BOOLEAN, Answer(t, success, doubted),
         db' \in [Keys -> Rows \cup {NoRow}], nextId' \in 1..(MaxRows + 1), nextId <= nextId',
         \A k \in Keys : db'[k].id < nextId'
  PROVE  TypeInv'
<1>1. call[t] \in Request
  BY DEF TypeInv, DevicesTypeOK
<1>2. call[t].key \in Keys
  BY <1>1 DEF Request
<1>3. agreed' \in [Keys -> Contents]
  <2>1. Content(db'[call[t].key]) \in Contents
    BY <1>2, ContentType
  <2>2. agreed[call[t].key] \in Contents
    BY <1>2 DEF TypeInv, DevicesTypeOK
  <2>3. Effect(call[t], agreed[call[t].key]) \in Contents
    BY <1>1, <2>2, EffectType
  <2> QED BY <2>1, <2>2, <2>3 DEF Answer, TypeInv, DevicesTypeOK
<1>4. \A u \in Threads : pc'[u] = "idle" <=> call'[u] = NoRequest
  BY DEF Answer, TypeInv, DevicesTypeOK
<1>5. seen' \in [Threads -> Rows \cup {NoRow}]
  BY DEF Answer, TypeInv, DevicesTypeOK
<1>6. \A u \in Threads : seen'[u].id < nextId'
  <2> TAKE u \in Threads
  <2>1. seen[u].id \in Nat /\ nextId \in Nat /\ nextId' \in Nat
    BY DevicesAssumption DEF TypeInv, DevicesTypeOK, Rows, NoRow
  <2> QED BY <2>1 DEF Answer, TypeInv, DevicesTypeOK, NoRow
<1>7. \A u \in Threads : pc'[u] \in {"save", "insert"} => Exists(seen'[u])
  BY DEF Answer, TypeInv, DevicesTypeOK
<1>8. /\ pc' \in [Threads -> {"idle", "exists", "find", "create", "delete", "save", "insert"}]
      /\ call' \in [Threads -> Request \cup {NoRequest}]
      /\ doubtful' \subseteq Keys
      /\ UNCHANGED main
  BY DEF Answer, TypeInv, DevicesTypeOK
<1> QED BY <1>3, <1>4, <1>5, <1>6, <1>7, <1>8 DEF TypeInv, DevicesTypeOK, main

\* So does an answer after which the table is as it was.
LEMMA RefusalTypes ==
  ASSUME TypeInv, NEW t \in Threads, pc[t] # "idle",
         NEW success \in BOOLEAN, NEW doubted \in BOOLEAN, Answer(t, success, doubted),
         UNCHANGED <<db, nextId>>
  PROVE  TypeInv'
<1>1. nextId \in Nat
  BY DevicesAssumption DEF TypeInv, DevicesTypeOK
<1>2. /\ db' \in [Keys -> Rows \cup {NoRow}] /\ nextId' \in 1..(MaxRows + 1)
      /\ nextId <= nextId'
      /\ \A k \in Keys : db'[k].id < nextId'
  BY <1>1 DEF TypeInv, DevicesTypeOK
<1> QED BY <1>2, AnswerTypes

\* A step between two statements keeps the types.
LEMMA GotoTypes ==
  ASSUME TypeInv, NEW t \in Threads, pc[t] # "idle",
         NEW where \in {"find", "create", "delete", "save", "insert"}, Goto(t, where),
         UNCHANGED <<db, nextId, agreed>>, doubtful' \subseteq Keys,
         \/ seen' = [seen EXCEPT ![t] = db[call[t].key]]
              /\ (where \in {"save", "insert"} => Exists(db[call[t].key]))
         \/ seen' = seen /\ (where = "find" \/ (where = "insert" /\ pc[t] = "save"))
  PROVE  TypeInv'
<1>1. call[t].key \in Keys
  BY DEF TypeInv, DevicesTypeOK, Request
<1>2. seen' \in [Threads -> Rows \cup {NoRow}]
  BY <1>1 DEF TypeInv, DevicesTypeOK
<1>3. \A u \in Threads : seen'[u].id < nextId'
  BY <1>1 DEF TypeInv, DevicesTypeOK
<1>4. \A u \in Threads : pc'[u] \in {"save", "insert"} => Exists(seen'[u])
  BY DEF TypeInv, DevicesTypeOK, Goto
<1>5. \A u \in Threads : pc'[u] = "idle" <=> call'[u] = NoRequest
  BY DEF TypeInv, DevicesTypeOK, Goto
<1>6. pc' \in [Threads -> {"idle", "exists", "find", "create", "delete", "save", "insert"}]
  BY DEF TypeInv, DevicesTypeOK, Goto
<1> QED BY <1>2, <1>3, <1>4, <1>5, <1>6 DEF TypeInv, DevicesTypeOK, Goto, main

\* The initial state has the types.
LEMMA InitTypes == ASSUME DevicesInit PROVE TypeInv
<1>1. Content(NoRow) \in Contents
  BY ContentType
<1> QED BY <1>1, DevicesAssumption
        DEF DevicesInit, TypeInv, DevicesTypeOK, NoRow, NoRequest, Rows

\* Every step keeps the types.
LEMMA NextTypes == ASSUME TypeInv, [DevicesNext]_vars PROVE TypeInv'
<1> USE DevicesAssumption
<1>1. ASSUME NEW t \in Threads, NEW c \in Callers, NEW fits \in BOOLEAN, NEW r \in Request,
             Register(t, c, fits, r)
      PROVE  TypeInv'
  <2>1. r # NoRequest /\ r.key \in Keys
    BY DEF Request, NoRequest
  <2>2. pc' \in [Threads -> {"idle", "exists", "find", "create", "delete", "save", "insert"}]
    BY <1>1 DEF Register, TypeInv, DevicesTypeOK
  <2>3. call' \in [Threads -> Request \cup {NoRequest}]
    BY <1>1 DEF Register, TypeInv, DevicesTypeOK
  <2>4. \A u \in Threads : pc'[u] = "idle" <=> call'[u] = NoRequest
    BY <1>1, <2>1 DEF Register, TypeInv, DevicesTypeOK
  <2>5. \A u \in Threads : pc'[u] \in {"save", "insert"} => Exists(seen'[u])
    BY <1>1 DEF Register, TypeInv, DevicesTypeOK
  <2>6. doubtful' \subseteq Keys
    BY <1>1, <2>1 DEF Register, TypeInv, DevicesTypeOK
  <2> QED BY <1>1, <2>2, <2>3, <2>4, <2>5, <2>6 DEF Register, TypeInv, DevicesTypeOK, main
<1>2. ASSUME NEW t \in Threads, KeyExists(t) PROVE TypeInv'
  <2>1. pc[t] = "exists" /\ UNCHANGED <<db, nextId>>
    BY <1>2 DEF KeyExists, At
  <2>2. CASE Answer(t, TRUE, FALSE)
    BY <2>1, <2>2, RefusalTypes
  <2>3. CASE Goto(t, "find") /\ UNCHANGED <<seen, agreed, doubtful>>
    BY <2>1, <2>3, GotoTypes DEF TypeInv, DevicesTypeOK
  <2> QED BY <1>2, <2>2, <2>3 DEF KeyExists
<1>3. ASSUME NEW t \in Threads, Find(t) PROVE TypeInv'
  <2>1. PICK where \in {"create", "delete", "save"} :
          Goto(t, where) /\ (where = "save" => Exists(db[call[t].key]))
    BY <1>3 DEF Find
  <2>2. /\ pc[t] # "idle" /\ UNCHANGED <<db, nextId, agreed, doubtful>>
        /\ seen' = [seen EXCEPT ![t] = db[call[t].key]]
    BY <1>3 DEF Find, At
  <2>3. doubtful' \subseteq Keys
    BY <2>2 DEF TypeInv, DevicesTypeOK
  <2> QED BY <2>1, <2>2, <2>3, GotoTypes
<1>4. ASSUME NEW t \in Threads, Create(t) PROVE TypeInv'
  <2>1. pc[t] = "create" /\ call[t] \in Request
    BY <1>4 DEF Create, At, TypeInv, DevicesTypeOK
  <2>2. CASE Exists(db[call[t].key])
    <3>1. Answer(t, FALSE, FALSE) /\ UNCHANGED <<db, nextId>>
      BY <1>4, <2>2 DEF Create
    <3> QED BY <2>1, <3>1, RefusalTypes
  <2>3. CASE ~Exists(db[call[t].key])
    <3> DEFINE row == [id |-> nextId, token |-> call[t].token, group |-> call[t].group]
    <3>1. /\ nextId <= MaxRows /\ nextId' = nextId + 1 /\ Answer(t, TRUE, FALSE)
          /\ db' = [db EXCEPT ![call[t].key] = row]
      BY <1>4, <2>3 DEF Create
    <3>2. row \in Rows /\ row.id = nextId
      BY <2>1, <3>1 DEF Request, Rows, TypeInv, DevicesTypeOK, TokenField, GroupField
    <3> HIDE DEF row
    <3>3. nextId' \in 1..(MaxRows + 1) /\ nextId' \in Nat /\ nextId <= nextId' /\ nextId < nextId'
      BY <3>1 DEF TypeInv, DevicesTypeOK
    <3>5. call[t].key \in Keys
      BY <2>1 DEF Request
    <3>4. db' \in [Keys -> Rows \cup {NoRow}] /\ \A k \in Keys : db'[k].id < nextId'
      BY <3>1, <3>2, <3>3, <3>5, TableTypes
    <3> QED BY <2>1, <3>1, <3>3, <3>4, AnswerTypes
  <2> QED BY <2>2, <2>3
<1>5. ASSUME NEW t \in Threads, Delete(t) PROVE TypeInv'
  <2>1. pc[t] = "delete" /\ Answer(t, TRUE, FALSE) /\ UNCHANGED nextId
    BY <1>5 DEF Delete, At
  <2>3. nextId' \in 1..(MaxRows + 1) /\ nextId' \in Nat /\ nextId <= nextId' /\ 0 < nextId'
    BY <2>1 DEF TypeInv, DevicesTypeOK
  <2>4. call[t].key \in Keys
    BY <2>1 DEF TypeInv, DevicesTypeOK, Request
  <2>2. db' \in [Keys -> Rows \cup {NoRow}] /\ \A k \in Keys : db'[k].id < nextId'
    <3>1. CASE UNCHANGED db
      BY <2>1, <3>1 DEF TypeInv, DevicesTypeOK
    <3>2. CASE db' = [db EXCEPT ![call[t].key] = NoRow]
      <4>1. NoRow.id = 0
        BY DEF NoRow
      <4> QED BY <2>3, <2>4, <3>2, <4>1, TableTypes
    <3> QED BY <1>5, <3>1, <3>2 DEF Delete
  <2> QED BY <2>1, <2>2, <2>3, AnswerTypes
<1>6. ASSUME NEW t \in Threads, Save(t) \/ Insert(t) PROVE TypeInv'
  <2>1. pc[t] \in {"save", "insert"} /\ UNCHANGED nextId /\ call[t] \in Request
    BY <1>6 DEF Save, Insert, At, TypeInv, DevicesTypeOK
  <2>2. Updated(t) \in Rows /\ Updated(t).id = seen[t].id
    BY <2>1 DEF Updated, TypeInv, DevicesTypeOK, Rows, NoRow, Exists, Request, TokenField
  <2>5. nextId' \in 1..(MaxRows + 1) /\ nextId' \in Nat /\ nextId <= nextId' /\ seen[t].id < nextId'
    BY <2>1 DEF TypeInv, DevicesTypeOK
  <2>6. call[t].key \in Keys
    BY <2>1 DEF Request
  <2>3. db' \in [Keys -> Rows \cup {NoRow}] /\ \A k \in Keys : db'[k].id < nextId'
    <3>1. CASE UNCHANGED db
      BY <2>1, <3>1 DEF TypeInv, DevicesTypeOK
    <3>2. CASE db' = [db EXCEPT ![call[t].key] = Updated(t)]
      BY <2>2, <2>5, <2>6, <3>2, TableTypes
    <3> QED BY <1>6, <3>1, <3>2 DEF Save, Insert
  <2>4. CASE Answer(t, TRUE, FALSE) \/ Answer(t, FALSE, FALSE)
    BY <2>1, <2>3, <2>4, <2>5, AnswerTypes
  <2>7. CASE /\ pc[t] = "save" /\ Goto(t, "insert")
             /\ UNCHANGED <<db, nextId, seen, agreed, doubtful>>
    BY <2>7, GotoTypes DEF TypeInv, DevicesTypeOK
  <2> QED BY <1>6, <2>1, <2>4, <2>7 DEF Save, Insert, At
<1>7. ASSUME NEW t \in Threads, StatementFails(t) PROVE TypeInv'
  <2>1. UNCHANGED <<db, nextId>>
    BY <1>7 DEF StatementFails
  <2>2. CASE /\ pc[t] = "exists" /\ Goto(t, "find") /\ UNCHANGED <<seen, agreed>>
             /\ doubtful' = IF Exists(db[call[t].key]) THEN doubtful \cup {call[t].key} ELSE doubtful
    <3>1. call[t].key \in Keys
      BY <2>2 DEF TypeInv, DevicesTypeOK, Request
    <3> QED BY <2>1, <2>2, <3>1, GotoTypes DEF TypeInv, DevicesTypeOK
  <2>3. CASE pc[t] # "idle" /\ (Answer(t, FALSE, FALSE) \/ Answer(t, TRUE, TRUE))
    BY <2>1, <2>3, RefusalTypes
  <2> QED BY <1>7, <2>2, <2>3 DEF StatementFails, At
<1>8. CASE StopServing \/ CloseDatabase \/ Boot \/ ImportData
  <2>1. /\ UNCHANGED <<db, nextId, pc, call, seen, agreed, doubtful, export>>
        /\ life' \in {"serving", "closing", "exported", "closed", "down"}
        /\ importing' \in BOOLEAN
        /\ starts' \in 1..MaxStarts
    <3>1. CASE StopServing
      BY <3>1 DEF StopServing, requests, TypeInv, DevicesTypeOK
    <3>2. CASE CloseDatabase
      BY <3>2 DEF CloseDatabase, requests, TypeInv, DevicesTypeOK
    <3>3. CASE Boot
      BY <3>3 DEF Boot, requests, TypeInv, DevicesTypeOK
    <3>4. CASE ImportData
      BY <3>4 DEF ImportData, requests, TypeInv, DevicesTypeOK
    <3> QED BY <1>8, <3>1, <3>2, <3>3, <3>4
  <2> QED BY <2>1 DEF TypeInv, DevicesTypeOK
<1>9. CASE ExportData
  BY <1>9 DEF ExportData, requests, TypeInv, DevicesTypeOK
<1>10. CASE Stop
  <2>1. \A k \in Keys : Content(db[k]) \in Contents
    BY ContentType DEF TypeInv, DevicesTypeOK
  <2>2. agreed' \in [Keys -> Contents]
    BY <1>10, <2>1 DEF Stop, TypeInv, DevicesTypeOK
  <2>3. \A u \in Threads : seen'[u].id < nextId' /\ pc'[u] \notin {"save", "insert"} /\ call'[u] = NoRequest
    BY <1>10 DEF Stop, TypeInv, DevicesTypeOK, NoRow
  <2> QED BY <1>10, <2>2, <2>3 DEF Stop, TypeInv, DevicesTypeOK
<1>11. CASE UNCHANGED vars
  BY <1>11 DEF vars, main, TypeInv, DevicesTypeOK
<1> QED BY <1>1, <1>2, <1>3, <1>4, <1>5, <1>6, <1>7, <1>8, <1>9, <1>10, <1>11
        DEF DevicesNext, Serve

\* The invariant of the types holds in every state.
LEMMA TypeInvariance == DevicesSpec => []TypeInv
<1>1. DevicesInit => TypeInv
  BY InitTypes
<1>2. TypeInv /\ [DevicesNext]_vars => TypeInv'
  BY NextTypes
<1> QED BY <1>1, <1>2, PTL DEF DevicesSpec

\* Every variable of the device store keeps its type, and a request is in
\* progress exactly where a goroutine is not idle.
THEOREM DevicesTypeCorrect == DevicesSpec => []DevicesTypeOK
<1>1. TypeInv => DevicesTypeOK
  BY DEF TypeInv
<1> QED BY <1>1, TypeInvariance, PTL

-----------------------------------------------------------------------------
(* Groups *)

\* Rows that a request has read of its key, and the table's, have the same group
\* if they have the same identifier, also if the row was deleted in between.
GroupInv ==
  /\ \A t \in Threads : pc[t] = "idle" => ~Exists(seen[t])
  /\ \A t \in Threads : Exists(seen[t]) /\ db[call[t].key].id = seen[t].id =>
       db[call[t].key].group = seen[t].group
  /\ \A t, u \in Threads :
       Exists(seen[t]) /\ call[t].key = call[u].key /\ seen[t].id = seen[u].id =>
         seen[t].group = seen[u].group

\* An answer keeps this, if what it leaves agrees with what others have read.
LEMMA AnswerKeepsGroups ==
  ASSUME TypeInv, GroupInv, NEW t \in Threads, NEW success, NEW doubted,
         Answer(t, success, doubted),
         \A u \in Threads \ {t} :
           Exists(seen[u]) /\ db'[call[u].key].id = seen[u].id =>
             db'[call[u].key].group = seen[u].group
  PROVE  GroupInv'
<1>1. /\ seen'[t] = NoRow /\ ~Exists(seen'[t])
      /\ \A u \in Threads \ {t} : seen'[u] = seen[u] /\ call'[u] = call[u] /\ pc'[u] = pc[u]
  BY DEF Answer, TypeInv, DevicesTypeOK, Exists, NoRow
<1> QED BY <1>1 DEF GroupInv, Exists, NoRow

\* Every step keeps this, and the group of every device that stays.
LEMMA NextGroups ==
  ASSUME TypeInv, GroupInv, [DevicesNext]_vars
  PROVE  /\ GroupInv'
         /\ \A k \in Keys : Exists(db[k]) /\ Exists(db'[k]) => db'[k].group = db[k].group
<1> DEFINE Stay == \A k \in Keys : Exists(db[k]) /\ Exists(db'[k]) => db'[k].group = db[k].group
<1>0. ASSUME NEW t \in Threads, pc[t] # "idle" PROVE call[t].key \in Keys
  BY <1>0 DEF TypeInv, DevicesTypeOK, Request
<1>a. ASSUME NEW t \in Threads, Exists(seen[t]) PROVE call[t].key \in Keys
  BY <1>0, <1>a DEF GroupInv
<1>b. UNCHANGED db => Stay
  OBVIOUS
<1>1. ASSUME NEW t \in Threads, NEW c \in Callers, NEW fits \in BOOLEAN, NEW r \in Request,
             Register(t, c, fits, r)
      PROVE  GroupInv' /\ Stay
  <2>1. /\ ~Exists(seen[t]) /\ UNCHANGED <<db, seen>>
        /\ \A u \in Threads : Exists(seen[u]) => call'[u] = call[u]
        /\ \A u \in Threads \ {t} : call'[u] = call[u]
        /\ \A u \in Threads : pc'[u] = "idle" => pc[u] = "idle"
    BY <1>1 DEF Register, At, GroupInv, TypeInv, DevicesTypeOK
  <2>2. \A u, v \in Threads :
          Exists(seen[u]) /\ call'[u].key = call'[v].key /\ seen[u].id = seen[v].id =>
            Exists(seen[v])
    BY DEF Exists
  <2> QED BY <2>1, <2>2 DEF GroupInv
<1>2. ASSUME NEW t \in Threads, KeyExists(t) PROVE GroupInv' /\ Stay
  <2>1. UNCHANGED db
    BY <1>2 DEF KeyExists
  <2>2. CASE Answer(t, TRUE, FALSE)
    BY <2>1, <2>2, AnswerKeepsGroups DEF GroupInv
  <2>3. CASE Goto(t, "find") /\ UNCHANGED <<seen, agreed, doubtful>>
    BY <2>1, <2>3 DEF Goto, GroupInv, TypeInv, DevicesTypeOK
  <2> QED BY <1>2, <2>2, <2>3 DEF KeyExists
<1>3. ASSUME NEW t \in Threads, Find(t) PROVE GroupInv' /\ Stay
  <2>1. /\ UNCHANGED <<db, call>> /\ seen' = [seen EXCEPT ![t] = db[call[t].key]]
        /\ pc[t] # "idle" /\ pc'[t] # "idle"
        /\ \A u \in Threads \ {t} : pc'[u] = pc[u]
    BY <1>3 DEF Find, Goto, At, TypeInv, DevicesTypeOK
  <2>2. /\ seen'[t] = db[call[t].key]
        /\ \A u \in Threads \ {t} : seen'[u] = seen[u]
    BY <2>1 DEF TypeInv, DevicesTypeOK
  <2> QED BY <2>1, <2>2 DEF GroupInv, Exists
<1>4. ASSUME NEW t \in Threads, Create(t) PROVE GroupInv' /\ Stay
  <2>1. pc[t] # "idle" /\ call[t].key \in Keys
    BY <1>0, <1>4 DEF Create, At
  <2>2. CASE Exists(db[call[t].key])
    <3>1. UNCHANGED db /\ Answer(t, FALSE, FALSE)
      BY <1>4, <2>2 DEF Create
    <3> QED BY <3>1, AnswerKeepsGroups DEF GroupInv
  <2>3. CASE ~Exists(db[call[t].key])
    <3>1. /\ Answer(t, TRUE, FALSE) /\ db'[call[t].key].id = nextId
          /\ \A k \in Keys \ {call[t].key} : db'[k] = db[k]
      <4> DEFINE row == [id |-> nextId, token |-> call[t].token, group |-> call[t].group]
      <4>1. Answer(t, TRUE, FALSE) /\ db' = [db EXCEPT ![call[t].key] = row]
        BY <1>4, <2>3 DEF Create
      <4>2. row.id = nextId
        OBVIOUS
      <4> HIDE DEF row
      <4> QED BY <2>1, <4>1, <4>2 DEF TypeInv, DevicesTypeOK
    <3>2. \A u \in Threads : seen[u].id # nextId
      <4>1. nextId \in Nat
        BY DevicesAssumption DEF TypeInv, DevicesTypeOK
      <4> QED BY <4>1 DEF TypeInv
    <3>3. ASSUME NEW u \in Threads \ {t}, Exists(seen[u]), db'[call[u].key].id = seen[u].id
          PROVE  db'[call[u].key].group = seen[u].group
      <4>1. call[u].key # call[t].key
        BY <3>1, <3>2, <3>3
      <4>2. db'[call[u].key] = db[call[u].key]
        BY <1>a, <3>1, <3>3, <4>1
      <4> QED BY <3>3, <4>2 DEF GroupInv
    <3>4. GroupInv'
      BY <3>1, <3>3, AnswerKeepsGroups
    <3> QED BY <2>3, <3>1, <3>4
  <2> QED BY <2>2, <2>3
<1>5. ASSUME NEW t \in Threads, Delete(t) PROVE GroupInv' /\ Stay
  <2>1. call[t].key \in Keys /\ Answer(t, TRUE, FALSE)
    BY <1>0, <1>5 DEF Delete, At
  <2>2. \A k \in Keys : db'[k] = db[k] \/ db'[k] = NoRow
    BY <1>5, <2>1 DEF Delete, TypeInv, DevicesTypeOK
  <2>3. ASSUME NEW u \in Threads \ {t}, Exists(seen[u]), db'[call[u].key].id = seen[u].id
        PROVE  db'[call[u].key].group = seen[u].group
    <3>1. db'[call[u].key] # NoRow
      BY <2>3 DEF Exists, NoRow
    <3>2. db'[call[u].key] = db[call[u].key]
      BY <1>a, <2>2, <2>3, <3>1
    <3> QED BY <2>3, <3>2 DEF GroupInv
  <2>4. GroupInv'
    BY <2>1, <2>3, AnswerKeepsGroups
  <2> QED BY <2>2, <2>4 DEF Exists, NoRow
<1>6. ASSUME NEW t \in Threads, Save(t) \/ Insert(t) PROVE GroupInv' /\ Stay
  <2>1. pc[t] \in {"save", "insert"} /\ call[t].key \in Keys /\ Exists(seen[t])
    BY <1>0, <1>6 DEF Save, Insert, At, TypeInv
  <2>2. CASE UNCHANGED db /\ Answer(t, FALSE, FALSE)
    BY <2>2, AnswerKeepsGroups DEF GroupInv
  <2>3. CASE /\ db[call[t].key].id \in {seen[t].id, 0} /\ Answer(t, TRUE, FALSE)
             /\ db' = [db EXCEPT ![call[t].key] = Updated(t)]
    <3>1. Updated(t).id = seen[t].id /\ Updated(t).group = seen[t].group
      BY <2>1 DEF Updated, TypeInv, DevicesTypeOK, Rows, NoRow
    <3>2. /\ db'[call[t].key] = Updated(t)
          /\ \A k \in Keys \ {call[t].key} : db'[k] = db[k]
      BY <2>1, <2>3 DEF TypeInv, DevicesTypeOK
    <3>3. ASSUME NEW u \in Threads \ {t}, Exists(seen[u]), db'[call[u].key].id = seen[u].id
          PROVE  db'[call[u].key].group = seen[u].group
      <4>1. CASE call[u].key = call[t].key
        BY <2>1, <3>1, <3>2, <3>3, <4>1 DEF GroupInv
      <4>2. CASE call[u].key # call[t].key
        <5>1. db'[call[u].key] = db[call[u].key]
          BY <1>a, <3>2, <3>3, <4>2
        <5> QED BY <3>3, <5>1 DEF GroupInv
      <4> QED BY <4>1, <4>2
    <3>4. GroupInv'
      BY <2>3, <3>3, AnswerKeepsGroups
    <3> QED BY <2>1, <2>3, <3>1, <3>2, <3>4 DEF GroupInv, Exists
  <2>4. CASE pc[t] = "save" /\ Goto(t, "insert") /\ UNCHANGED <<db, seen>>
    BY <2>4 DEF Goto, GroupInv, TypeInv, DevicesTypeOK
  <2> QED BY <1>6, <2>2, <2>3, <2>4 DEF Save, Insert, At
<1>7. ASSUME NEW t \in Threads, StatementFails(t) PROVE GroupInv' /\ Stay
  <2>1. UNCHANGED db
    BY <1>7 DEF StatementFails
  <2>2. CASE Goto(t, "find") /\ UNCHANGED seen
    BY <2>1, <2>2 DEF Goto, GroupInv, TypeInv, DevicesTypeOK
  <2>3. CASE Answer(t, FALSE, FALSE) \/ Answer(t, TRUE, TRUE)
    BY <2>1, <2>3, AnswerKeepsGroups DEF GroupInv
  <2> QED BY <1>7, <2>2, <2>3 DEF StatementFails
<1>8. CASE StopServing \/ ExportData \/ CloseDatabase \/ Boot \/ ImportData \/ UNCHANGED vars
  <2>1. UNCHANGED <<db, pc, call, seen>>
    BY <1>8 DEF StopServing, ExportData, CloseDatabase, Boot, ImportData, vars, requests
  <2> QED BY <2>1 DEF GroupInv
<1>9. CASE Stop
  <2>1. UNCHANGED db /\ \A u \in Threads : ~Exists(seen'[u])
    BY <1>9 DEF Stop, Exists, NoRow
  <2> QED BY <2>1 DEF GroupInv
<1> QED BY <1>1, <1>2, <1>3, <1>4, <1>5, <1>6, <1>7, <1>8, <1>9
        DEF DevicesNext, Serve

\* A device keeps the group it was created with, however registrations about
\* its key interleave, fail, or write back a row that was deleted.
THEOREM GroupsAreKept == DevicesSpec => GroupsStay
<1>1. DevicesInit => GroupInv
  BY DEF DevicesInit, GroupInv, Exists, NoRow
<1>2. TypeInv /\ GroupInv /\ [DevicesNext]_vars => GroupInv'
  BY NextGroups
<1>3. TypeInv /\ GroupInv /\ [DevicesNext]_vars =>
        [\A k \in Keys : Exists(db[k]) /\ Exists(db'[k]) => db'[k].group = db[k].group]_db
  BY NextGroups
<1>4. DevicesSpec => []GroupInv
  BY <1>1, <1>2, TypeInvariance, PTL DEF DevicesSpec
<1> QED BY <1>3, <1>4, TypeInvariance, PTL DEF DevicesSpec, GroupsStay

-----------------------------------------------------------------------------
(* Answers *)

\* What a request that nothing came in between of has found out is still true.
UpToDate(t) ==
  LET r == call[t]
      row == db[r.key]
  IN  /\ pc[t] = "exists" => r.op = "restore"
      /\ r.key \notin doubtful =>
           /\ pc[t] = "find" /\ r.op = "restore" => ~Exists(row)
           /\ pc[t] = "create" => ~Exists(row)
           /\ pc[t] # "insert"
           /\ pc[t] \in {"delete", "save"} =>
                /\ seen[t] = row /\ Exists(row) /\ r.op # "restore"
                /\ Leaves(r, row) <=> pc[t] = "delete"

\* Requests about one key at a time make it doubtful, and nothing else does for
\* longer than a request is in progress.
AnswerInv ==
  /\ AnswersHold
  /\ \A t, u \in Threads :
       t # u /\ pc[t] # "idle" /\ call[u].key = call[t].key => call[t].key \in doubtful
  /\ \A k \in doubtful : \E t \in Threads : call[t].key = k
  /\ \A t \in Threads : UpToDate(t)

\* Content tells of existence.
LEMMA ContentThere ==
  ASSUME NEW row
  PROVE  Content(row).there <=> Exists(row)
BY Zenon DEF Content

\* An answer keeps this, if the content of the row is what the answer says.
LEMMA AnswerKeepsAnswers ==
  ASSUME TypeInv, AnswerInv, NEW t \in Threads, pc[t] # "idle",
         NEW success \in BOOLEAN, NEW doubted \in BOOLEAN, Answer(t, success, doubted),
         \A j \in Keys \ {call[t].key} : db'[j] = db[j],
         call[t].key \notin doubtful /\ ~doubted =>
           Content(db'[call[t].key]) =
             IF success THEN Effect(call[t], agreed[call[t].key]) ELSE agreed[call[t].key]
  PROVE  AnswerInv'
<1> DEFINE k == call[t].key
<1>1. k \in Keys /\ k # Nothing
  BY DevicesAssumption DEF TypeInv, DevicesTypeOK, Request
<1>2. /\ pc'[t] = "idle" /\ call'[t] = NoRequest
      /\ \A u \in Threads \ {t} : pc'[u] = pc[u] /\ call'[u] = call[u] /\ seen'[u] = seen[u]
  BY DEF Answer, TypeInv, DevicesTypeOK
<1>3. doubtful' = IF Busy(k, t) THEN doubtful ELSE doubtful \ {k}
  BY DEF Answer
<1>4. Busy(k, t) => k \in doubtful
  BY DEF Busy, AnswerInv
<1>5. AnswersHold'
  <2> SUFFICES ASSUME NEW j \in Keys, j \notin doubtful'
               PROVE  Content(db'[j]) = agreed'[j]
    BY DEF AnswersHold, Content, Exists
  <2>1. CASE j = k
    <3>1. agreed'[j] = IF doubted \/ k \in doubtful THEN Content(db'[k])
                       ELSE IF success THEN Effect(call[t], agreed[k]) ELSE agreed[k]
      BY <1>1, <2>1 DEF Answer, TypeInv, DevicesTypeOK
    <3> QED BY <2>1, <3>1
  <2>2. CASE j # k
    <3>1. agreed'[j] = agreed[j]
      BY <1>1, <2>2 DEF Answer, TypeInv, DevicesTypeOK
    <3>2. j \notin doubtful /\ db'[j] = db[j]
      BY <1>3, <2>2
    <3> QED BY <3>1, <3>2 DEF AnswerInv, AnswersHold
  <2> QED BY <2>1, <2>2
<1>6. \A u, v \in Threads :
        u # v /\ pc'[u] # "idle" /\ call'[v].key = call'[u].key => call'[u].key \in doubtful'
  <2> SUFFICES ASSUME NEW u \in Threads, NEW v \in Threads,
                      u # v, pc'[u] # "idle", call'[v].key = call'[u].key
               PROVE  call'[u].key \in doubtful'
    OBVIOUS
  <2>1. u # t /\ call[u].key # Nothing
    BY <1>2, DevicesAssumption DEF TypeInv, DevicesTypeOK, Request
  <2>2. v # t
    BY <1>2, <2>1 DEF NoRequest
  <2>3. call[u].key \in doubtful
    BY <1>2, <2>1, <2>2 DEF AnswerInv
  <2>4. call[u].key = k => Busy(k, t)
    BY <2>1 DEF Busy
  <2> QED BY <1>2, <1>3, <2>1, <2>3, <2>4
<1>7. ASSUME NEW j \in doubtful' PROVE \E u \in Threads : call'[u].key = j
  <2>1. j \in doubtful /\ (j = k => Busy(k, t))
    BY <1>3, <1>7
  <2>2. \E u \in Threads \ {t} : call[u].key = j
    BY <2>1 DEF AnswerInv, Busy
  <2> QED BY <1>2, <2>2
<1>8. ASSUME NEW u \in Threads PROVE UpToDate(u)'
  <2>1. CASE u = t
    BY <1>2, <2>1 DEF UpToDate
  <2>2. CASE u # t /\ call[u].key = k
    <3>1. k \in doubtful'
      BY <1>3, <1>4, <2>2 DEF Busy
    <3> QED BY <1>2, <2>2, <3>1 DEF UpToDate, AnswerInv
  <2>3. CASE u # t /\ call[u].key # k /\ pc[u] # "idle"
    <3>1. call[u].key \in Keys
      BY <2>3 DEF TypeInv, DevicesTypeOK, Request
    <3>2. db'[call[u].key] = db[call[u].key]
      BY <2>3, <3>1
    <3>3. call[u].key \in doubtful' <=> call[u].key \in doubtful
      BY <1>3, <2>3
    <3> QED BY <1>2, <2>3, <3>2, <3>3 DEF UpToDate, AnswerInv, Exists, Leaves
  <2>4. CASE pc[u] = "idle"
    BY <1>2, <2>4 DEF UpToDate
  <2> QED BY <2>1, <2>2, <2>3, <2>4
<1> QED BY <1>5, <1>6, <1>7, <1>8 DEF AnswerInv

\* A refusal keeps this.
LEMMA RefusalKeepsAnswers ==
  ASSUME TypeInv, AnswerInv, NEW t \in Threads, pc[t] # "idle",
         Answer(t, FALSE, FALSE), UNCHANGED db
  PROVE  AnswerInv'
<1>1. call[t].key \in Keys
  BY DEF TypeInv, DevicesTypeOK, Request
<1>2. call[t].key \notin doubtful => Content(db'[call[t].key]) = agreed[call[t].key]
  BY <1>1 DEF AnswerInv, AnswersHold
<1> QED BY <1>2, AnswerKeepsAnswers

\* So does going on to a statement for which what was found out is enough.
LEMMA GotoKeepsAnswers ==
  ASSUME TypeInv, AnswerInv, NEW t \in Threads, pc[t] # "idle",
         NEW where \in {"find", "create", "delete", "save", "insert"}, Goto(t, where),
         UNCHANGED <<db, agreed>>, doubtful' \in {doubtful, doubtful \cup {call[t].key}},
         \A u \in Threads \ {t} : seen'[u] = seen[u],
         UpToDate(t)'
  PROVE  AnswerInv'
<1>1. /\ UNCHANGED call /\ pc'[t] # "idle"
      /\ \A u \in Threads \ {t} : pc'[u] = pc[u]
  BY DEF Goto, TypeInv, DevicesTypeOK
<1>2. \A u \in Threads \ {t} : UpToDate(u)'
  BY <1>1 DEF UpToDate, AnswerInv
<1>3. AnswersHold'
  BY DEF AnswerInv, AnswersHold
<1> QED BY <1>1, <1>2, <1>3 DEF AnswerInv

\* Every step keeps this.
LEMMA NextAnswers == ASSUME TypeInv, AnswerInv, [DevicesNext]_vars PROVE AnswerInv'
<1>0. ASSUME NEW t \in Threads, pc[t] # "idle"
      PROVE  call[t] \in Request /\ call[t].key \in Keys
  BY <1>0 DEF TypeInv, DevicesTypeOK, Request
<1>1. ASSUME NEW t \in Threads, NEW c \in Callers, NEW fits \in BOOLEAN, NEW r \in Request,
             Register(t, c, fits, r)
      PROVE  AnswerInv'
  <2>1. /\ call'[t] = r /\ pc'[t] = IF r.op = "restore" THEN "exists" ELSE "find"
        /\ \A u \in Threads \ {t} : call'[u] = call[u] /\ pc'[u] = pc[u]
        /\ UNCHANGED <<db, seen, agreed>> /\ call[t] = NoRequest /\ pc[t] = "idle"
        /\ doubtful' = IF Busy(r.key, t) THEN doubtful \cup {r.key} ELSE doubtful
        /\ r.key # Nothing
    BY <1>1, DevicesAssumption DEF Register, At, TypeInv, DevicesTypeOK, Request
  <2>2. AnswersHold'
    BY <2>1 DEF AnswerInv, AnswersHold
  <2>3. ASSUME NEW u \in Threads, NEW v \in Threads,
               u # v, pc'[u] # "idle", call'[v].key = call'[u].key
        PROVE  call'[u].key \in doubtful'
    <3>1. CASE u = t \/ v = t
      BY <2>1, <2>3, <3>1 DEF Busy
    <3>2. CASE u # t /\ v # t
      BY <2>1, <2>3, <3>2 DEF AnswerInv
    <3> QED BY <3>1, <3>2
  <2>4. ASSUME NEW j \in doubtful' PROVE \E u \in Threads : call'[u].key = j
    <3>1. CASE j = r.key
      BY <2>1, <3>1
    <3>2. CASE j # r.key /\ j \in doubtful
      <4>1. PICK u \in Threads : call[u].key = j
        BY <3>2 DEF AnswerInv
      <4>2. CASE u # t
        BY <2>1, <4>1, <4>2
      <4>3. CASE u = t
        <5>1. j = Nothing
          BY <2>1, <4>1, <4>3 DEF NoRequest
        <5> QED BY <3>2, <5>1, DevicesAssumption DEF TypeInv, DevicesTypeOK
      <4> QED BY <4>2, <4>3
    <3> QED BY <2>1, <2>4, <3>1, <3>2
  <2>5. ASSUME NEW u \in Threads PROVE UpToDate(u)'
    <3>1. CASE u = t
      BY <2>1, <3>1 DEF UpToDate
    <3>2. CASE u # t
      <4>1. call'[u].key \notin doubtful' => call[u].key \notin doubtful
        BY <2>1, <3>2
      <4> QED BY <2>1, <3>2, <4>1 DEF UpToDate, AnswerInv
    <3> QED BY <3>1, <3>2
  <2> QED BY <2>2, <2>3, <2>4, <2>5 DEF AnswerInv
<1>2. ASSUME NEW t \in Threads, KeyExists(t) PROVE AnswerInv'
  <2>1. pc[t] = "exists" /\ UNCHANGED db /\ call[t].op = "restore"
    BY <1>2 DEF KeyExists, At, AnswerInv, UpToDate
  <2>2. CASE Exists(db[call[t].key]) /\ Answer(t, TRUE, FALSE)
    <3>1. call[t].key \notin doubtful =>
            Content(db'[call[t].key]) = Effect(call[t], agreed[call[t].key])
      BY <1>0, <2>1, <2>2, ContentThere DEF AnswerInv, AnswersHold, Effect
    <3> QED BY <2>1, <2>2, <3>1, AnswerKeepsAnswers
  <2>3. CASE /\ ~Exists(db[call[t].key]) /\ Goto(t, "find")
             /\ UNCHANGED <<seen, agreed, doubtful>>
    <3>1. UpToDate(t)'
      BY <2>1, <2>3 DEF UpToDate, Goto, TypeInv, DevicesTypeOK
    <3> QED BY <2>1, <2>3, <3>1, GotoKeepsAnswers
  <2> QED BY <1>2, <2>2, <2>3 DEF KeyExists
<1>3. ASSUME NEW t \in Threads, Find(t) PROVE AnswerInv'
  <2>1. /\ pc[t] = "find" /\ UNCHANGED <<db, agreed, doubtful>>
        /\ seen'[t] = db[call[t].key]
        /\ \A u \in Threads \ {t} : seen'[u] = seen[u]
    BY <1>3 DEF Find, At, TypeInv, DevicesTypeOK
  <2>2. PICK where \in {"create", "delete", "save"} :
          /\ Goto(t, where)
          /\ where = "create" <=> ~Exists(db[call[t].key])
          /\ where = "delete" <=> Exists(db[call[t].key]) /\ Leaves(call[t], db[call[t].key])
    BY <1>3 DEF Find
  <2>3. pc'[t] = where /\ UNCHANGED call
    BY <2>2 DEF Goto, TypeInv, DevicesTypeOK
  <2>4. UpToDate(t)'
    BY <2>1, <2>2, <2>3 DEF UpToDate, AnswerInv
  <2> QED BY <2>1, <2>2, <2>4, GotoKeepsAnswers
<1>4. ASSUME NEW t \in Threads, Create(t) PROVE AnswerInv'
  <2>1. pc[t] = "create" /\ call[t].key \in Keys
    BY <1>0, <1>4 DEF Create, At
  <2>2. CASE Exists(db[call[t].key])
    BY <1>4, <2>1, <2>2, RefusalKeepsAnswers DEF Create
  <2>3. CASE ~Exists(db[call[t].key])
    <3> DEFINE row == [id |-> nextId, token |-> call[t].token, group |-> call[t].group]
    <3>1. Answer(t, TRUE, FALSE) /\ db' = [db EXCEPT ![call[t].key] = row]
      BY <1>4, <2>3 DEF Create
    <3>2. nextId # 0
      BY DEF TypeInv, DevicesTypeOK
    <3>3. Content(row) = [there |-> TRUE, token |-> call[t].token, group |-> call[t].group]
      BY <3>2 DEF Content, Exists
    <3> HIDE DEF row
    <3>4. /\ db'[call[t].key] = row
          /\ \A j \in Keys \ {call[t].key} : db'[j] = db[j]
      BY <2>1, <3>1 DEF TypeInv, DevicesTypeOK
    <3>5. call[t].key \notin doubtful => ~agreed[call[t].key].there
      BY <2>1, <2>3, ContentThere DEF AnswerInv, AnswersHold
    <3>6. call[t].key \notin doubtful =>
            Content(db'[call[t].key]) = Effect(call[t], agreed[call[t].key])
      BY <3>3, <3>4, <3>5 DEF Effect
    <3> QED BY <2>1, <3>1, <3>4, <3>6, AnswerKeepsAnswers
  <2> QED BY <2>2, <2>3
<1>5. ASSUME NEW t \in Threads, Delete(t) PROVE AnswerInv'
  <2>1. pc[t] = "delete" /\ call[t].key \in Keys /\ Answer(t, TRUE, FALSE)
    BY <1>0, <1>5 DEF Delete, At
  <2>2. \A j \in Keys \ {call[t].key} : db'[j] = db[j]
    BY <1>5, <2>1 DEF Delete, TypeInv, DevicesTypeOK
  <2>3. ASSUME call[t].key \notin doubtful
        PROVE  Content(db'[call[t].key]) = Effect(call[t], agreed[call[t].key])
    <3>1. /\ seen[t] = db[call[t].key] /\ Exists(db[call[t].key]) /\ call[t].op # "restore"
          /\ Leaves(call[t], db[call[t].key])
      BY <2>1, <2>3 DEF AnswerInv, UpToDate
    <3>2. db'[call[t].key] = NoRow
      BY <1>5, <2>1, <3>1 DEF Delete, TypeInv, DevicesTypeOK
    <3>3. agreed[call[t].key] = Content(db[call[t].key])
      BY <2>1, <2>3 DEF AnswerInv, AnswersHold
    <3> QED BY <3>1, <3>2, <3>3 DEF Effect, Leaves, Content
  <2> QED BY <2>1, <2>2, <2>3, AnswerKeepsAnswers
<1>6. ASSUME NEW t \in Threads, Save(t) \/ Insert(t) PROVE AnswerInv'
  <2>1. pc[t] \in {"save", "insert"} /\ call[t].key \in Keys
    BY <1>0, <1>6 DEF Save, Insert, At
  <2>2. CASE Answer(t, FALSE, FALSE) /\ UNCHANGED db
    BY <2>1, <2>2, RefusalKeepsAnswers
  <2>3. CASE Answer(t, TRUE, FALSE) /\ db' = [db EXCEPT ![call[t].key] = Updated(t)]
    <3>1. /\ db'[call[t].key] = Updated(t)
          /\ \A j \in Keys \ {call[t].key} : db'[j] = db[j]
      BY <2>1, <2>3 DEF TypeInv, DevicesTypeOK
    <3>2. /\ Updated(t).id = seen[t].id /\ Updated(t).group = seen[t].group
          /\ Updated(t).token = call[t].token
      BY <2>1 DEF Updated, TypeInv, DevicesTypeOK, Rows, NoRow
    <3>3. ASSUME call[t].key \notin doubtful
          PROVE  Content(db'[call[t].key]) = Effect(call[t], agreed[call[t].key])
      <4>1. /\ seen[t] = db[call[t].key] /\ Exists(db[call[t].key]) /\ call[t].op # "restore"
            /\ ~Leaves(call[t], db[call[t].key])
        BY <2>1, <3>3 DEF AnswerInv, UpToDate
      <4>2. agreed[call[t].key] = Content(db[call[t].key])
        BY <2>1, <3>3 DEF AnswerInv, AnswersHold
      <4>3. Content(Updated(t)) =
              [there |-> TRUE, token |-> call[t].token, group |-> seen[t].group]
        BY <3>2, <4>1 DEF Content, Exists
      <4> QED BY <3>1, <4>1, <4>2, <4>3 DEF Effect, Leaves, Content
    <3> QED BY <2>1, <2>3, <3>1, <3>3, AnswerKeepsAnswers
  <2>4. CASE /\ pc[t] = "save" /\ db[call[t].key].id # seen[t].id /\ Goto(t, "insert")
             /\ UNCHANGED <<db, seen, agreed, doubtful>>
    <3>1. call[t].key \in doubtful
      BY <2>1, <2>4 DEF AnswerInv, UpToDate
    <3>2. pc'[t] = "insert" /\ UNCHANGED call
      BY <2>4 DEF Goto, TypeInv, DevicesTypeOK
    <3>3. UpToDate(t)'
      BY <2>4, <3>1, <3>2 DEF UpToDate
    <3> QED BY <2>4, <3>3, GotoKeepsAnswers
  <2> QED BY <1>6, <2>2, <2>3, <2>4 DEF Save, Insert, At
<1>7. ASSUME NEW t \in Threads, StatementFails(t) PROVE AnswerInv'
  <2>1. UNCHANGED db
    BY <1>7 DEF StatementFails
  <2>2. CASE /\ pc[t] = "exists" /\ Goto(t, "find") /\ UNCHANGED <<seen, agreed>>
             /\ doubtful' = IF Exists(db[call[t].key]) THEN doubtful \cup {call[t].key} ELSE doubtful
    <3>1. pc'[t] = "find" /\ UNCHANGED call
      BY <2>2 DEF Goto, TypeInv, DevicesTypeOK
    <3>2. UpToDate(t)'
      BY <2>1, <2>2, <3>1 DEF UpToDate
    <3> QED BY <2>1, <2>2, <3>2, GotoKeepsAnswers
  <2>3. CASE pc[t] # "idle" /\ Answer(t, FALSE, FALSE)
    BY <2>1, <2>3, RefusalKeepsAnswers
  <2>4. CASE pc[t] # "idle" /\ Answer(t, TRUE, TRUE)
    BY <2>1, <2>4, AnswerKeepsAnswers
  <2> QED BY <1>7, <2>2, <2>3, <2>4 DEF StatementFails, At
<1>8. CASE StopServing \/ ExportData \/ CloseDatabase \/ Boot \/ ImportData \/ UNCHANGED vars
  <2>1. UNCHANGED <<db, pc, call, seen, agreed, doubtful>>
    BY <1>8 DEF StopServing, ExportData, CloseDatabase, Boot, ImportData, vars, requests
  <2> QED BY <2>1 DEF AnswerInv, AnswersHold, UpToDate
<1>9. CASE Stop
  <2>1. /\ UNCHANGED db /\ doubtful' = {} /\ \A u \in Threads : pc'[u] = "idle"
        /\ \A k \in Keys : agreed'[k] =
             IF \E t \in Threads : call[t].key = k THEN Content(db[k]) ELSE agreed[k]
    BY <1>9 DEF Stop
  <2>2. AnswersHold'
    BY <2>1 DEF AnswersHold, AnswerInv
  <2>3. \A u \in Threads : UpToDate(u)'
    BY <2>1 DEF UpToDate
  <2> QED BY <2>1, <2>2, <2>3 DEF AnswerInv
<1> QED BY <1>1, <1>2, <1>3, <1>4, <1>5, <1>6, <1>7, <1>8, <1>9
        DEF DevicesNext, Serve

\* What was answered of a device holds, for every key that no two requests are
\* about at once, over refusals, failures, crashes, exports and imports.
THEOREM AnswersAreKept == DevicesSpec => []AnswersHold
<1>1. DevicesInit => AnswerInv
  BY DEF DevicesInit, AnswerInv, AnswersHold, UpToDate
<1>2. TypeInv /\ AnswerInv /\ [DevicesNext]_vars => AnswerInv'
  BY NextAnswers
<1>3. AnswerInv => AnswersHold
  BY DEF AnswerInv
<1> QED BY <1>1, <1>2, <1>3, TypeInvariance, PTL DEF DevicesSpec
=============================================================================
