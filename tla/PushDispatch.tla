---------------------------- MODULE PushDispatch ----------------------------
(***************************************************************************)
(* Pushes to devices: a request (BasePush of the HTTP interface, or the    *)
(* tool "notify" of the MCP interface) looks its users up, pushes to those *)
(* of Huawei with one call, to the others with a goroutine each, and       *)
(* answers (controller/BasePush.go, controller/MCPServer.go, push/push.go, *)
(* Harmony/push.go).  The goroutines share a pool of clients, which main   *)
(* drains when the server stops (push/CloseAPNSClients.go, main.go).       *)
(* What Apple and Huawei answer is arbitrary; they, or the timeouts of the *)
(* clients, always answer.                                                 *)
(***************************************************************************)
EXTENDS PushParams, HarmonyToken

CONSTANTS
  Scenarios,  \* a setup, and the request of each thread
  Table,      \* the devices: a sequence of key, token, talk, location, group, os
  MaxKeys,    \* MaxDeviceKeyArrLength
  Clients     \* how many clients the pool has

NoRequest == [by |-> "none"]

IsSequence(s) == s \in Seq(ToSet(s))

IsRequest(r) ==
  /\ r.by \in {"http", "mcp"}
  /\ GivenKeys(r) \subseteq Keys
  /\ IsSequence(r.tokens)
  /\ r.path = <<>> \/ Len(r.path) \in DOMAIN PathNames
  /\ \A p \in {r.query, r.posted} : Given(p, "sound") => IsSequence(p.sound)

ASSUME DispatchAssumption ==
  /\ \A s \in Scenarios : /\ DOMAIN s.requests = Threads
                          /\ \A t \in Threads : s.requests[t] = NoRequest \/ IsRequest(s.requests[t])
  /\ IsSequence(Table) /\ IsFiniteSet(Keys)
  /\ \A i \in DOMAIN Table : Table[i].key \in Keys
  /\ \A i, j \in DOMAIN Table : Table[i].key = Table[j].key => i = j
  /\ MaxKeys \in Nat \ {0} /\ Clients \in Nat \ {0}

VARIABLES
  work,       \* the request of each thread
  pc,         \* where its handler is
  params,     \* its parameters, completed
  type,       \* the kind of push
  users,      \* to whom it pushes, a sequence
  huawei,     \* what became of the call to Huawei
  apns,       \* what became of the push to each user by Apple
  answer,     \* the answer, see Outcome
  pool,       \* clients in the channel CLIENTS
  life,       \* of the process: serving, draining, down
  left        \* how many clients CloseAPNSClients still wants to close

requestVars == <<work, pc, params, type, users, huawei, apns, answer>>

processVars == <<pool, life, left>>

vars == <<tokenVars, requestVars, processVars>>

ApnsStates == {"started", "held", "sent", "accepted", "failed"}

Ended == {"accepted", "failed"}

Answers == {"success", "harmonyErr", "appleErr", "failed"}

\* Goroutines of the thread that are at a point of LocationPush or Push.
Goroutines(t, where) == {i \in DOMAIN apns[t] : apns[t][i] = where}

Held == UNION {{t} \X Goroutines(t, "held") : t \in Threads}

DispatchTypeOK ==
  /\ TokenTypeOK
  /\ DOMAIN work = Threads
  /\ pc \in [Threads -> {"none", "idle", "lookup", "huawei", "apple", "done"}]
  /\ \A t \in Threads : type[t] \in {"none", "0", "alert", "background", "location"}
  /\ \A t \in Threads : ToSet(users[t]) \subseteq ToSet(Table) \cup
       {[key |-> "", token |-> k, talk |-> "", location |-> "", group |-> "", os |-> ""] :
          k \in UNION {ToSet(work[u].tokens) : u \in {u \in Threads : work[u] # NoRequest}}}
  /\ huawei \in [Threads -> {"none"} \cup Ended]
  /\ \A t \in Threads : DOMAIN apns[t] \in {{}, DOMAIN users[t]} /\ ToSet(apns[t]) \subseteq ApnsStates
  /\ answer \in [Threads -> {"none"} \cup Answers]
  /\ pool \in 0..Clients /\ left \in 0..Clients
  /\ life \in {"serving", "draining", "down"}

DispatchInit ==
  /\ TokenInit
  /\ \E s \in Scenarios : setup = s.setup /\ work = s.requests
  /\ pc = [t \in Threads |-> IF work[t] = NoRequest THEN "none" ELSE "idle"]
  /\ params = [t \in Threads |-> <<>>]
  /\ type = [t \in Threads |-> "none"]
  /\ users = [t \in Threads |-> <<>>]
  /\ huawei = [t \in Threads |-> "none"]
  /\ apns = [t \in Threads |-> <<>>]
  /\ answer = [t \in Threads |-> "none"]
  /\ pool = Clients
  /\ life = "serving"
  /\ left = 0

-----------------------------------------------------------------------------
(* Users *)

\* Two users are taken for one if any of what is set in both is the same.
Same(u, v) ==
  \E field \in {"token", "location", "talk"} : u[field] # "" /\ u[field] = v[field]

\* Mutated form of UserUnique: only neighbours are compared.
UserUniqueOfNeighbours(list) ==
  LET kept[n \in 0..Len(list)] ==
        IF n = 0 THEN <<>>
        ELSE LET before == kept[n - 1]
             IN  IF before # <<>> /\ Same(list[n], Last(before)) THEN before
                 ELSE Append(before, list[n])
  IN  kept[Len(list)]

\* The users kept before, and the next one if none of them is the same.
WithNext(before, user) ==
  IF \E v \in ToSet(before) : Same(user, v) THEN before ELSE Append(before, user)

\* The first of several users that are taken for one.
UserUnique(list) ==
  LET kept[n \in 0..Len(list)] ==
        IF n = 0 THEN <<>> ELSE WithNext(kept[n - 1], list[n])
  IN  kept[Len(list)]

\* A user for every token given in the request that is long enough.
Direct(r) ==
  [i \in DOMAIN r.tokens |->
     [key |-> "", token |-> r.tokens[i], talk |-> "", location |-> "", group |-> "", os |-> ""]]

\* The keys come out of a map, in any order; the tool takes the first ones.
SearchedKeys(r) ==
  IF r.by = "http" THEN {FilterShortStrings(GivenKeys(r), 6, 64)}
  ELSE LET keys == FilterShortStrings(GivenKeys(r), 5, 64)
       IN  IF Cardinality(keys) <= MaxKeys THEN {keys} ELSE kSubset(MaxKeys, keys)

\* Groups are for everybody with BasePush, for admins with the tool.
Groups(r) == IF r.by = "mcp" /\ ~r.admin THEN {} ELSE r.groups

InGroup(groups) == {d \in ToSet(Table) : d.group \in groups}

\* Mutated form of Limited: one user too many.
LimitedToOneMore(r, list) ==
  IF r.by = "http" /\ ~r.admin /\ Len(list) > MaxKeys THEN SubSeq(list, 1, MaxKeys + 1) ELSE list

\* BasePush stops at the limit, but not for admins; the tool limits keys only.
Limited(r, list) ==
  IF r.by = "http" /\ ~r.admin /\ Len(list) > MaxKeys THEN SubSeq(list, 1, MaxKeys) ELSE list

\* Rows that cannot be read are passed over, by key each, by group all at once.
FoundUsers(r) ==
  {Limited(r, UserUnique(Direct(r) \o keyed \o grouped)) :
     keyed \in UNION {SetToAllKPermutations({d \in ToSet(Table) : d.key \in keys}) :
                        keys \in SearchedKeys(r)},
     grouped \in UNION {SetToSeqs(InGroup(groups)) : groups \in SUBSET Groups(r)}}

-----------------------------------------------------------------------------
(* Handlers *)

Serving(t, where) == pc[t] = where /\ life # "down"

Of(t, os) == {i \in DOMAIN users[t] : users[t][i].os = os}

\* The answer, by whether users of Huawei or of Apple were not reached: "success"
\* is common.Success(c, true); "harmonyErr" and "appleErr" are common.Success with
\* that error as its data, so that their code and message say success, too;
\* "failed" is common.Failed.  The tool knows only the first and the last.
Outcome(r, harmonyErr, appleErr) ==
  IF ~harmonyErr /\ ~appleErr THEN "success"
  ELSE IF r.by = "mcp" \/ (harmonyErr /\ appleErr) THEN "failed"
  ELSE IF harmonyErr THEN "harmonyErr" ELSE "appleErr"

\* A request arrives; without anything to push BasePush refuses it at once.
Arrive(t) ==
  LET p == Collected(work[t])
  IN  /\ Serving(t, "idle") /\ life = "serving"
      /\ params' = [params EXCEPT ![t] = ParamsNanAndDefault(p)]
      /\ type' = [type EXCEPT ![t] = PushType(p)]
      /\ IF PushType(p) = "0" /\ work[t].by = "http"
         THEN /\ pc' = [pc EXCEPT ![t] = "done"]
              /\ answer' = [answer EXCEPT ![t] = "failed"]
         ELSE /\ pc' = [pc EXCEPT ![t] = "lookup"]
              /\ UNCHANGED answer
      /\ UNCHANGED <<tokenVars, work, users, huawei, apns, processVars>>

\* Where a request goes next: to Huawei if it is by HTTP and has a user there,
\* to Apple for all its users if one of them is Apple's or the request is the
\* tool's, or to its end.
AfterLookup(r, list, kind) ==
  CASE r.by = "http" /\ (\E u \in ToSet(list) : u.os = "harmony") -> "huawei"
    [] r.by = "mcp" /\ list # <<>> /\ kind # "0" -> "apple"
    [] r.by = "http" /\ (\A u \in ToSet(list) : u.os # "harmony")
         /\ (\E u \in ToSet(list) : u.os = "apple") -> "apple"
    [] OTHER -> "done"

ToApple(t, list) == apns' = [apns EXCEPT ![t] = [i \in DOMAIN list |-> "started"]]

Lookup(t) ==
  /\ Serving(t, "lookup")
  /\ \E list \in FoundUsers(work[t]) :
       LET next == AfterLookup(work[t], list, type[t])
       IN  /\ users' = [users EXCEPT ![t] = list]
           /\ pc' = [pc EXCEPT ![t] = next]
           /\ IF next = "apple" THEN ToApple(t, list) ELSE UNCHANGED apns
           /\ IF next = "huawei"
              THEN Ask(t, IF HuaweiRequest(params[t], type[t]).kind = "refused"
                          THEN "failed" ELSE "check")
              ELSE UNCHANGED tokenVars
           /\ answer' = IF next # "done" THEN answer
                        ELSE [answer EXCEPT ![t] =
                                IF work[t].by = "mcp" THEN "failed" ELSE "success"]
  /\ UNCHANGED <<work, params, type, huawei, processVars>>

SignIn(t) ==
  /\ Serving(t, "huawei")
  /\ GetToken(t)
  /\ UNCHANGED <<requestVars, processVars>>

\* The call to Huawei ends, or was not made for want of a token; the users of
\* Apple, if there are any, are next.
HuaweiEnds(t, result) ==
  /\ Serving(t, "huawei")
  /\ Leave(t)
  /\ result = "accepted" => step[t] = "returned"
  /\ huawei' = [huawei EXCEPT ![t] = result]
  /\ IF Of(t, "apple") = {}
     THEN /\ pc' = [pc EXCEPT ![t] = "done"]
          /\ answer' = [answer EXCEPT ![t] = Outcome(work[t], result = "failed", FALSE)]
          /\ UNCHANGED apns
     ELSE /\ pc' = [pc EXCEPT ![t] = "apple"]
          /\ ToApple(t, users[t])
          /\ UNCHANGED answer
  /\ UNCHANGED <<work, params, type, users, processVars>>

Push(t, i, from, to) ==
  /\ Serving(t, "apple")
  /\ i \in Goroutines(t, from)
  /\ apns' = [apns EXCEPT ![t][i] = to]
  /\ UNCHANGED <<tokenVars, work, pc, params, type, users, huawei, answer, life, left>>

HasAddress(t, i) == type[t] = "location" => users[t][i].location # ""

NoAddress(t, i) ==
  /\ ~HasAddress(t, i)
  /\ Push(t, i, "started", "failed")
  /\ UNCHANGED pool

\* Mutated form of TakeClient: nobody waits for a client.
TakeAnyway(t, i) ==
  /\ HasAddress(t, i)
  /\ pool' = pool - 1
  /\ Push(t, i, "started", "held")

TakeClient(t, i) ==
  /\ HasAddress(t, i)
  /\ pool > 0
  /\ pool' = pool - 1
  /\ Push(t, i, "started", "held")

\* Mutated form of PutBack: the client is not put back.
KeepClient(t, i) == Push(t, i, "held", "sent") /\ UNCHANGED pool

\* The channel has room for all clients: nobody waits to put one back.
PutBack(t, i) ==
  /\ pool < Clients
  /\ pool' = pool + 1
  /\ Push(t, i, "held", "sent")

PushEnds(t, i) == (\E result \in Ended : Push(t, i, "sent", result)) /\ UNCHANGED pool

\* Mutated form of AllPushed: the handler does not wait for the goroutines.
AllStarted(t) == Goroutines(t, "started") = {}

AllPushed(t) == \A i \in DOMAIN apns[t] : apns[t][i] \in Ended

\* The handler has waited for its goroutines, and answers.
Answer(t) ==
  /\ Serving(t, "apple")
  /\ AllPushed(t)
  /\ pc' = [pc EXCEPT ![t] = "done"]
  /\ answer' = [answer EXCEPT ![t] =
       Outcome(work[t], huawei[t] = "failed", Goroutines(t, "failed") # {})]
  /\ UNCHANGED <<tokenVars, work, params, type, users, huawei, apns, processVars>>

-----------------------------------------------------------------------------
(* Shutdown *)

\* server.Shutdown returns, at the latest after five seconds, with requests
\* still in progress; CloseAPNSClients counts the clients that are in the pool.
StopServing ==
  /\ life = "serving"
  /\ life' = "draining"
  /\ left' = pool
  /\ UNCHANGED <<tokenVars, requestVars, pool>>

CloseClient ==
  /\ life = "draining" /\ left > 0
  /\ left' = left - 1
  /\ pool' = IF pool > 0 THEN pool - 1 ELSE pool
  /\ UNCHANGED <<tokenVars, requestVars, life>>

Exit ==
  /\ life = "draining" /\ left = 0
  /\ life' = "down"
  /\ UNCHANGED <<tokenVars, requestVars, pool, left>>

\* Time matters while a request may still ask for a token.
Time ==
  /\ \E t \in Threads : pc[t] \in {"idle", "lookup", "huawei"}
  /\ Tick
  /\ UNCHANGED <<requestVars, processVars>>

-----------------------------------------------------------------------------
Goroutine(t, i) == NoAddress(t, i) \/ TakeClient(t, i) \/ PutBack(t, i) \/ PushEnds(t, i)

\* The handler of a request and its goroutines.
GoOnWith(t) ==
  \/ Lookup(t)
  \/ SignIn(t)
  \/ \E result \in Ended : HuaweiEnds(t, result)
  \/ \E i \in DOMAIN apns[t] : Goroutine(t, i)
  \/ Answer(t)

DispatchNext ==
  \/ \E t \in Threads : Arrive(t) \/ GoOnWith(t)
  \/ StopServing
  \/ CloseClient
  \/ Exit
  \/ Time

\* Of the goroutines of a request that can go on, one does.
DispatchSpec ==
  /\ DispatchInit
  /\ [][DispatchNext]_vars
  /\ \A t \in Threads : WF_vars(GoOnWith(t))
  /\ WF_vars(CloseClient \/ Exit)

-----------------------------------------------------------------------------
(* Properties *)

\* No device gets the notification of a request twice from Apple, although it may
\* be named by token, by key and by group, and by several keys: no two users that
\* are pushed to share a token, an address for location or one for talk.
NobodyIsPushedTwice ==
  \A t \in Threads : \A i, j \in DOMAIN apns[t] : i # j => ~Same(users[t][i], users[t][j])

\* Who is not an admin reaches no more devices by keys than the limit.
LimitHolds ==
  \A t \in Threads : work[t] # NoRequest /\ ~work[t].admin =>
    Cardinality({i \in DOMAIN users[t] : users[t][i].key # ""}) <= MaxKeys

\* Nobody was left out: every push that a request owes its users has ended.
NobodyIsLeftOut(t) ==
  /\ \A i \in DOMAIN apns[t] : apns[t][i] \in Ended
  /\ Of(t, "apple") # {} => DOMAIN apns[t] = DOMAIN users[t]
  /\ work[t].by = "http" /\ Of(t, "harmony") # {} => huawei[t] \in Ended

\* An answer comes after every push of the request ended, unless the request is
\* refused, and its data name the services that failed and no other.  Code and
\* message of an answer tell less: for "harmonyErr" and "appleErr" they are 200
\* and "success".
AnswersAreTrue ==
  \A t \in Threads :
    LET harmonyFailed == huawei[t] = "failed"
        appleFailed == Goroutines(t, "failed") # {}
        refused == type[t] = "0" \/ (work[t].by = "mcp" /\ users[t] = <<>>)
    IN  answer[t] # "none" =>
          \/ answer[t] = "failed" /\ refused
          \/ /\ NobodyIsLeftOut(t)
             /\ answer[t] = "success" => ~harmonyFailed /\ ~appleFailed
             /\ answer[t] = "harmonyErr" => harmonyFailed /\ ~appleFailed
             /\ answer[t] = "appleErr" => appleFailed /\ ~harmonyFailed
             /\ answer[t] = "failed" =>
                  IF work[t].by = "http" THEN harmonyFailed /\ appleFailed
                  ELSE harmonyFailed \/ appleFailed

\* While the server serves, every client is in the pool or in the hands of one
\* goroutine; and never are there more of them, so that nobody waits to put one
\* back.
PoolIsWhole ==
  /\ life = "serving" => pool + Cardinality(Held) = Clients
  /\ pool + Cardinality(Held) <= Clients

\* Whatever a request gave, its notification can be shown and found again: every
\* push has an id, an alert shows something and has a valid category, and a ring at
\* Huawei has a sound.
PushesAreWellFormed ==
  \A t \in Threads :
    LET note == ApnsNotification(params[t], type[t])
        request == HuaweiRequest(params[t], type[t])
    IN  /\ pc[t] \in {"huawei", "apple"} => note.collapse # ""
        /\ pc[t] \in {"huawei", "apple"} /\ type[t] = "alert" =>
             note.shown # {""} /\ Valid(note.category)
        /\ pc[t] = "huawei" =>
             /\ request.kind \in {"send", "revoke"}
             /\ request.kind = "send" /\ request.duration > 0 => request.sound # <<>>

\* Devices of Huawei are left to Huawei: no push to them goes to Apple.
HuaweiDevicesStayOffApns ==
  \A t \in Threads : \A i \in Of(t, "harmony") \cap DOMAIN apns[t] : apns[t][i] # "sent"

\* Every request that has arrived is answered, although a pool of clients is
\* shared and drained, unless the process exits first.  (No thread serves more
\* than one request here, so it is enough that none is in progress in the end.)
RequestsEnd ==
  []<>(\A t \in Threads : pc[t] \in {"none", "idle", "done"} \/ life = "down")
=============================================================================
