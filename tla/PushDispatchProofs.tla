------------------------- MODULE PushDispatchProofs -------------------------
(***************************************************************************)
(* Theorems about requests to push, PushDispatch, for any requests,        *)
(* devices and limits, and any number of clients: answers are true, the    *)
(* pool of clients is whole, nobody is pushed to twice, limits hold, what  *)
(* is pushed is well-formed, and types are kept.                           *)
(***************************************************************************)
EXTENDS HarmonyTokenProofs, FiniteSetTheorems, SequenceTheorems, WellFoundedInduction

-----------------------------------------------------------------------------
(* What a request has come to *)

\* Every thread has its own of what requests keep.
OfThreads ==
  /\ DOMAIN pc = Threads /\ DOMAIN type = Threads /\ DOMAIN users = Threads
  /\ DOMAIN apns = Threads /\ DOMAIN answer = Threads
  /\ huawei \in [Threads -> {"none"} \cup Ended]

\* Who serves a request came by HTTP or from the tool.
Known == \A t \in Threads : pc[t] = "none" \/ work[t].by \in {"http", "mcp"}

\* There are pushes to Apple for all users of a request, from when its handler has
\* got there; by then Huawei has answered for those who are there.
Stages ==
  \A t \in Threads :
    /\ pc[t] \in {"none", "idle", "lookup", "huawei"} => apns[t] = <<>> /\ huawei[t] = "none"
    /\ pc[t] # "done" => answer[t] = "none"
    /\ pc[t] = "apple" =>
         /\ DOMAIN apns[t] = DOMAIN users[t]
         /\ work[t].by = "http" /\ Of(t, "harmony") # {} => huawei[t] \in Ended

\* Its part of AnswersAreTrue.
Truthful(t) ==
  LET harmonyFailed == huawei[t] = "failed"
      appleFailed == Goroutines(t, "failed") # {}
      refused == type[t] = "0" \/ (work[t].by = "mcp" /\ users[t] = <<>>)
  IN  answer[t] # "none" =>
        \/ answer[t] = "failed" /\ refused
        \/ /\ NobodyIsLeftOut(t)
           /\ answer[t] = "success" => ~harmonyFailed /\ ~appleFailed
           /\ answer[t] = "harmonyErr" => harmonyFailed /\ ~appleFailed
           /\ answer[t] = "appleErr" => appleFailed /\ ~harmonyFailed
           /\ answer[t] = "failed" =>
                IF work[t].by = "http" THEN harmonyFailed /\ appleFailed
                ELSE harmonyFailed \/ appleFailed

\* An outcome names what failed.
LEMMA OutcomeIsTrue ==
  ASSUME NEW r, r.by \in {"http", "mcp"}, NEW h \in BOOLEAN, NEW a \in BOOLEAN
  PROVE  LET o == Outcome(r, h, a)
         IN  /\ o \in Answers
             /\ o = "success" => ~h /\ ~a
             /\ o = "harmonyErr" => h /\ ~a
             /\ o = "appleErr" => a /\ ~h
             /\ o = "failed" => IF r.by = "http" THEN h /\ a ELSE h \/ a
BY DEF Outcome, Answers

HandlerInv == OfThreads /\ Known /\ Stages /\ AnswersAreTrue

LEMMA HandlerInit == DispatchInit => HandlerInv
<1> SUFFICES ASSUME DispatchInit PROVE HandlerInv
  OBVIOUS
<1>1. PICK s \in Scenarios : work = s.requests
  BY DEF DispatchInit
<1>2. \A t \in Threads : work[t] = NoRequest \/ work[t].by \in {"http", "mcp"}
  BY <1>1, DispatchAssumption DEF IsRequest
<1>3. /\ OfThreads
      /\ \A t \in Threads : pc[t] = IF work[t] = NoRequest THEN "none" ELSE "idle"
      /\ \A t \in Threads : apns[t] = <<>> /\ huawei[t] = "none" /\ answer[t] = "none"
  BY DEF DispatchInit, OfThreads
<1>4. Known
  BY <1>2, <1>3 DEF Known
<1>5. Stages
  BY <1>3 DEF Stages
<1>6. AnswersAreTrue
  BY <1>3 DEF AnswersAreTrue
<1> QED BY <1>3, <1>4, <1>5, <1>6 DEF HandlerInv

\* What a thread has is as it was.
ThreadStays(t) ==
  /\ pc'[t] = pc[t] /\ type'[t] = type[t] /\ users'[t] = users[t] /\ huawei'[t] = huawei[t]
  /\ apns'[t] = apns[t] /\ answer'[t] = answer[t]

\* It is enough to look at the thread that makes a step.
LEMMA OneThread ==
  ASSUME HandlerInv, NEW t \in Threads, OfThreads', UNCHANGED work,
         \A u \in Threads : u = t \/ ThreadStays(u),
         pc'[t] = "none" \/ work[t].by \in {"http", "mcp"},
         pc'[t] \in {"none", "idle", "lookup", "huawei"} => apns'[t] = <<>> /\ huawei'[t] = "none",
         pc'[t] # "done" => answer'[t] = "none",
         pc'[t] = "apple" =>
           /\ DOMAIN apns'[t] = DOMAIN users'[t]
           /\ work[t].by = "http" /\ Of(t, "harmony")' # {} => huawei'[t] \in Ended,
         Truthful(t)'
  PROVE  HandlerInv'
<1>1. Known'
  BY DEF HandlerInv, Known, ThreadStays
<1>2. \A u \in Threads : u = t \/ Of(u, "harmony")' = Of(u, "harmony")
  BY DEF ThreadStays, Of
<1>3. Stages'
  BY <1>2 DEF HandlerInv, Stages, ThreadStays
<1>4. ASSUME NEW u \in Threads PROVE Truthful(u)'
  <2>1. CASE u = t
    BY <2>1
  <2>2. CASE u # t
    <3>1. ThreadStays(u)
      BY <2>2
    <3>2. Truthful(u)
      BY DEF HandlerInv, AnswersAreTrue, Truthful
    <3> QED BY <3>1, <3>2 DEF ThreadStays, Truthful, NobodyIsLeftOut, Of, Goroutines
  <2> QED BY <2>1, <2>2
<1>5. AnswersAreTrue'
  BY <1>4 DEF AnswersAreTrue, Truthful
<1> QED BY <1>1, <1>3, <1>5 DEF HandlerInv

LEMMA ArriveIsTrue ==
  ASSUME HandlerInv, NEW t \in Threads, Arrive(t)
  PROVE  HandlerInv'
<1>1. pc[t] = "idle" /\ UNCHANGED <<work, users, huawei, apns>>
  BY DEF Arrive, Serving
<1>2. apns[t] = <<>> /\ huawei[t] = "none" /\ answer[t] = "none"
      /\ work[t].by \in {"http", "mcp"}
  BY <1>1 DEF HandlerInv, Stages, Known
<1>3. \/ pc'[t] = "done" /\ answer'[t] = "failed" /\ type'[t] = "0"
      \/ pc'[t] = "lookup" /\ answer'[t] = "none"
  BY <1>2 DEF Arrive, HandlerInv, OfThreads
<1>4. OfThreads'
  BY <1>1 DEF Arrive, HandlerInv, OfThreads
<1>5. \A u \in Threads : u = t \/ ThreadStays(u)
  BY <1>1 DEF Arrive, HandlerInv, OfThreads, ThreadStays
<1>6. Truthful(t)'
  BY <1>3 DEF Truthful
<1> QED BY <1>1, <1>2, <1>3, <1>4, <1>5, <1>6, OneThread

\* Where a request goes after its users were found.
LEMMA WhereNext ==
  ASSUME NEW r, r.by \in {"http", "mcp"}, NEW list, NEW kind
  PROVE  LET next == AfterLookup(r, list, kind)
             harmony == {i \in DOMAIN list : list[i].os = "harmony"}
             apple == {i \in DOMAIN list : list[i].os = "apple"}
         IN  /\ next \in {"huawei", "apple", "done"}
             /\ next = "apple" => r.by = "mcp" \/ harmony = {}
             /\ next = "done" /\ r.by = "http" => harmony = {} /\ apple = {}
             /\ next = "done" /\ r.by = "mcp" => list = <<>> \/ kind = "0"
<1> DEFINE next == AfterLookup(r, list, kind)
           harmony == {i \in DOMAIN list : list[i].os = "harmony"}
           apple == {i \in DOMAIN list : list[i].os = "apple"}
           A == r.by = "http" /\ (\E u \in ToSet(list) : u.os = "harmony")
           B == r.by = "mcp" /\ list # <<>> /\ kind # "0"
           C == r.by = "http" /\ (\A u \in ToSet(list) : u.os # "harmony")
                  /\ (\E u \in ToSet(list) : u.os = "apple")
<1>1. /\ (\E u \in ToSet(list) : u.os = "harmony") <=> harmony # {}
      /\ (\E u \in ToSet(list) : u.os = "apple") <=> apple # {}
  BY DEF ToSet
<1>2. next = CASE A -> "huawei" [] B -> "apple" [] C -> "apple" [] OTHER -> "done"
  BY DEF AfterLookup
<1>3. ~(A /\ B) /\ ~(A /\ C) /\ ~(B /\ C)
  OBVIOUS
<1>4. CASE A
  <2>1. next = "huawei"
    BY <1>2, <1>3, <1>4
  <2> QED BY <2>1
<1>5. CASE B
  <2>1. next = "apple"
    BY <1>2, <1>3, <1>5
  <2> QED BY <1>5, <2>1
<1>6. CASE C
  <2>1. next = "apple"
    BY <1>2, <1>3, <1>6
  <2> QED BY <1>1, <1>6, <2>1
<1>7. CASE ~A /\ ~B /\ ~C
  <2>1. next = "done"
    BY <1>2, <1>7
  <2>2. r.by = "http" => harmony = {} /\ apple = {}
    BY <1>1, <1>7
  <2> QED BY <1>7, <2>1, <2>2
<1> QED BY <1>4, <1>5, <1>6, <1>7

LEMMA LookupIsTrue ==
  ASSUME HandlerInv, NEW t \in Threads, Lookup(t)
  PROVE  HandlerInv'
<1> DEFINE next(list) == AfterLookup(work[t], list, type[t])
<1>1. pc[t] = "lookup" /\ UNCHANGED <<work, type, huawei>>
  BY DEF Lookup, Serving
<1>2. PICK list :
        /\ users' = [users EXCEPT ![t] = list]
        /\ pc' = [pc EXCEPT ![t] = next(list)]
        /\ IF next(list) = "apple" THEN ToApple(t, list) ELSE UNCHANGED apns
        /\ answer' = IF next(list) # "done" THEN answer
                     ELSE [answer EXCEPT ![t] = IF work[t].by = "mcp" THEN "failed" ELSE "success"]
  BY DEF Lookup
<1>3. apns[t] = <<>> /\ huawei[t] = "none" /\ answer[t] = "none"
      /\ work[t].by \in {"http", "mcp"}
  BY <1>1 DEF HandlerInv, Stages, Known
<1>4. /\ next(list) \in {"huawei", "apple", "done"}
      /\ next(list) = "apple" =>
           work[t].by = "mcp" \/ {i \in DOMAIN list : list[i].os = "harmony"} = {}
      /\ next(list) = "done" /\ work[t].by = "http" =>
           /\ {i \in DOMAIN list : list[i].os = "harmony"} = {}
           /\ {i \in DOMAIN list : list[i].os = "apple"} = {}
      /\ next(list) = "done" /\ work[t].by = "mcp" => list = <<>> \/ type[t] = "0"
  BY <1>3, WhereNext
<1> HIDE DEF next
<1>5. /\ users'[t] = list /\ pc'[t] = next(list)
      /\ apns'[t] = IF next(list) = "apple" THEN [i \in DOMAIN list |-> "started"] ELSE <<>>
      /\ answer'[t] = IF next(list) # "done" THEN "none"
                      ELSE IF work[t].by = "mcp" THEN "failed" ELSE "success"
  BY <1>2, <1>3 DEF HandlerInv, OfThreads, ToApple
<1>6. OfThreads'
  BY <1>1, <1>2 DEF HandlerInv, OfThreads, ToApple
<1>7. \A u \in Threads : u = t \/ ThreadStays(u)
  BY <1>1, <1>2 DEF HandlerInv, OfThreads, ToApple, ThreadStays
<1>8. /\ Of(t, "harmony")' = {i \in DOMAIN list : list[i].os = "harmony"}
      /\ Of(t, "apple")' = {i \in DOMAIN list : list[i].os = "apple"}
  BY <1>5 DEF Of
<1>9. Truthful(t)'
  <2>1. CASE next(list) # "done"
    BY <1>5, <2>1 DEF Truthful
  <2>2. CASE next(list) = "done" /\ work[t].by = "mcp"
    BY <1>1, <1>4, <1>5, <2>2 DEF Truthful
  <2>3. CASE next(list) = "done" /\ work[t].by = "http"
    <3>1. answer'[t] = "success" /\ huawei'[t] = "none" /\ apns'[t] = <<>> /\ DOMAIN apns'[t] = {}
      BY <1>1, <1>3, <1>5, <2>3
    <3>2. NobodyIsLeftOut(t)' /\ Goroutines(t, "failed")' = {}
      BY <1>4, <1>8, <2>3, <3>1 DEF NobodyIsLeftOut, Goroutines
    <3> QED BY <3>1, <3>2 DEF Truthful
  <2> QED BY <1>3, <2>1, <2>2, <2>3
<1>10. pc'[t] = "apple" =>
         /\ DOMAIN apns'[t] = DOMAIN users'[t]
         /\ work[t].by = "http" /\ Of(t, "harmony")' # {} => huawei'[t] \in Ended
  BY <1>3, <1>4, <1>5, <1>8
<1>11. /\ pc'[t] \in {"none", "idle", "lookup", "huawei"} => apns'[t] = <<>> /\ huawei'[t] = "none"
       /\ pc'[t] # "done" => answer'[t] = "none"
  BY <1>1, <1>3, <1>5
<1> QED BY <1>1, <1>3, <1>6, <1>7, <1>9, <1>10, <1>11, OneThread

LEMMA HuaweiEndsIsTrue ==
  ASSUME HandlerInv, NEW t \in Threads, NEW result \in Ended, HuaweiEnds(t, result)
  PROVE  HandlerInv'
<1>1. pc[t] = "huawei" /\ UNCHANGED <<work, type, users>>
  BY DEF HuaweiEnds, Serving
<1>2. apns[t] = <<>> /\ huawei[t] = "none" /\ answer[t] = "none"
      /\ work[t].by \in {"http", "mcp"}
  BY <1>1 DEF HandlerInv, Stages, Known
<1>3. huawei' = [huawei EXCEPT ![t] = result] /\ huawei'[t] = result
  BY DEF HuaweiEnds, HandlerInv, OfThreads
<1>4. \/ /\ Of(t, "apple") = {}
         /\ pc' = [pc EXCEPT ![t] = "done"] /\ UNCHANGED apns
         /\ answer' = [answer EXCEPT ![t] = Outcome(work[t], result = "failed", FALSE)]
      \/ /\ pc' = [pc EXCEPT ![t] = "apple"] /\ UNCHANGED answer
         /\ apns' = [apns EXCEPT ![t] = [i \in DOMAIN users[t] |-> "started"]]
  BY DEF HuaweiEnds, ToApple
<1>5. \/ /\ Of(t, "apple") = {} /\ pc'[t] = "done" /\ apns'[t] = <<>>
         /\ answer'[t] = Outcome(work[t], result = "failed", FALSE)
      \/ /\ pc'[t] = "apple" /\ answer'[t] = "none"
         /\ apns'[t] = [i \in DOMAIN users[t] |-> "started"]
  BY <1>2, <1>4 DEF HandlerInv, OfThreads
<1>6. OfThreads'
  BY <1>1, <1>3, <1>4 DEF HandlerInv, OfThreads
<1>7. \A u \in Threads : u = t \/ ThreadStays(u)
  BY <1>1, <1>3, <1>4 DEF HandlerInv, OfThreads, ThreadStays
<1>8. Of(t, "apple")' = Of(t, "apple")
  BY <1>1 DEF Of
<1>9. Truthful(t)'
  <2>1. CASE pc'[t] = "done"
    <3>1. /\ Of(t, "apple") = {} /\ apns'[t] = <<>>
          /\ answer'[t] = Outcome(work[t], result = "failed", FALSE)
      BY <1>5, <2>1
    <3>2. NobodyIsLeftOut(t)' /\ Goroutines(t, "failed")' = {}
      BY <1>3, <1>8, <3>1 DEF NobodyIsLeftOut, Goroutines
    <3>3. PICK h \in BOOLEAN : h <=> result = "failed"
      OBVIOUS
    <3>4. answer'[t] = Outcome(work[t], h, FALSE)
      BY <3>1, <3>3 DEF Outcome
    <3>5. /\ answer'[t] = "success" => ~h
          /\ answer'[t] = "harmonyErr" => h
          /\ answer'[t] # "appleErr"
          /\ answer'[t] = "failed" => work[t].by = "mcp" /\ h
      BY <1>2, <3>4 DEF Outcome
    <3> QED BY <1>1, <1>3, <3>2, <3>3, <3>5 DEF Truthful
  <2>2. CASE answer'[t] = "none"
    BY <2>2 DEF Truthful
  <2> QED BY <1>5, <2>1, <2>2
<1>10. pc'[t] = "apple" => DOMAIN apns'[t] = DOMAIN users'[t] /\ huawei'[t] \in Ended
  BY <1>1, <1>3, <1>5
<1>11. pc'[t] \in {"apple", "done"} /\ (pc'[t] # "done" => answer'[t] = "none")
  BY <1>5
<1> QED BY <1>1, <1>2, <1>6, <1>7, <1>9, <1>10, <1>11, OneThread

\* A goroutine goes on; there are as many as before.
LEMMA PushIsTrue ==
  ASSUME HandlerInv, NEW t \in Threads, NEW i, NEW from, NEW to, Push(t, i, from, to)
  PROVE  HandlerInv'
<1>1. /\ pc[t] = "apple" /\ i \in DOMAIN apns[t]
      /\ apns' = [apns EXCEPT ![t] = [apns[t] EXCEPT ![i] = to]]
      /\ UNCHANGED <<work, pc, type, users, huawei, answer>>
  BY DEF Push, Serving, Goroutines
<1>2. DOMAIN apns'[t] = DOMAIN apns[t]
  BY <1>1 DEF HandlerInv, OfThreads
<1>3. answer'[t] = "none" /\ work[t].by \in {"http", "mcp"} /\ DOMAIN apns[t] = DOMAIN users[t]
      /\ (work[t].by = "http" /\ Of(t, "harmony") # {} => huawei[t] \in Ended)
  BY <1>1 DEF HandlerInv, Stages, Known
<1>4. OfThreads'
  BY <1>1 DEF HandlerInv, OfThreads
<1>5. \A u \in Threads : u = t \/ ThreadStays(u)
  BY <1>1 DEF HandlerInv, OfThreads, ThreadStays
<1>6. Truthful(t)'
  BY <1>3 DEF Truthful
<1>7. Of(t, "harmony")' = Of(t, "harmony")
  BY <1>1 DEF Of
<1> QED BY <1>1, <1>2, <1>3, <1>4, <1>5, <1>6, <1>7, OneThread

LEMMA AnswerIsTrue ==
  ASSUME HandlerInv, NEW t \in Threads, Answer(t)
  PROVE  HandlerInv'
<1>1. /\ pc[t] = "apple" /\ AllPushed(t)
      /\ pc' = [pc EXCEPT ![t] = "done"]
      /\ answer' = [answer EXCEPT ![t] =
           Outcome(work[t], huawei[t] = "failed", Goroutines(t, "failed") # {})]
      /\ UNCHANGED <<work, type, users, huawei, apns>>
  BY DEF Answer, Serving
<1>2. /\ pc'[t] = "done"
      /\ answer'[t] = Outcome(work[t], huawei[t] = "failed", Goroutines(t, "failed") # {})
  BY <1>1 DEF HandlerInv, OfThreads
<1>3. work[t].by \in {"http", "mcp"} /\ DOMAIN apns[t] = DOMAIN users[t]
      /\ (work[t].by = "http" /\ Of(t, "harmony") # {} => huawei[t] \in Ended)
  BY <1>1 DEF HandlerInv, Stages, Known
<1>4. OfThreads'
  BY <1>1 DEF HandlerInv, OfThreads
<1>5. \A u \in Threads : u = t \/ ThreadStays(u)
  BY <1>1 DEF HandlerInv, OfThreads, ThreadStays
<1>6. /\ Of(t, "harmony")' = Of(t, "harmony") /\ Of(t, "apple")' = Of(t, "apple")
      /\ Goroutines(t, "failed")' = Goroutines(t, "failed")
  BY <1>1 DEF Of, Goroutines
<1>7. Truthful(t)'
  <2>1. NobodyIsLeftOut(t)'
    BY <1>1, <1>3, <1>6 DEF NobodyIsLeftOut, AllPushed
  <2>2. PICK h \in BOOLEAN, a \in BOOLEAN :
          (h <=> huawei[t] = "failed") /\ (a <=> Goroutines(t, "failed") # {})
    OBVIOUS
  <2>3. answer'[t] = Outcome(work[t], h, a)
    BY <1>2, <2>2 DEF Outcome
  <2>4. huawei'[t] = huawei[t] /\ work' = work
    BY <1>1
  <2> QED BY <1>3, <1>6, <2>1, <2>2, <2>3, <2>4, OutcomeIsTrue DEF Truthful
<1> QED BY <1>2, <1>3, <1>4, <1>5, <1>7, <1>1, OneThread

\* Steps that are not the handler's.
LEMMA OthersAreTrue ==
  ASSUME HandlerInv, UNCHANGED requestVars
  PROVE  HandlerInv'
<1> QED BY DEF HandlerInv, OfThreads, Known, Stages, AnswersAreTrue, NobodyIsLeftOut, Of,
               Goroutines, requestVars

LEMMA HandlerStep == HandlerInv /\ [DispatchNext]_vars => HandlerInv'
<1> SUFFICES ASSUME HandlerInv, [DispatchNext]_vars PROVE HandlerInv'
  OBVIOUS
<1>1. ASSUME NEW t \in Threads, Arrive(t) PROVE HandlerInv'
  BY <1>1, ArriveIsTrue
<1>2. ASSUME NEW t \in Threads, Lookup(t) PROVE HandlerInv'
  BY <1>2, LookupIsTrue
<1>3. ASSUME NEW t \in Threads, SignIn(t) PROVE HandlerInv'
  BY <1>3, OthersAreTrue DEF SignIn
<1>4. ASSUME NEW t \in Threads, NEW result \in Ended, HuaweiEnds(t, result) PROVE HandlerInv'
  BY <1>4, HuaweiEndsIsTrue
<1>5. ASSUME NEW t \in Threads, NEW i, Goroutine(t, i) PROVE HandlerInv'
  <2>1. \E from, to : Push(t, i, from, to)
    BY <1>5 DEF Goroutine, NoAddress, TakeClient, PutBack, PushEnds
  <2> QED BY <2>1, PushIsTrue
<1>6. ASSUME NEW t \in Threads, Answer(t) PROVE HandlerInv'
  BY <1>6, AnswerIsTrue
<1>7. CASE StopServing \/ CloseClient \/ Exit \/ Time \/ UNCHANGED vars
  <2>1. UNCHANGED requestVars
    BY <1>7 DEF StopServing, CloseClient, Exit, Time, vars
  <2> QED BY <2>1, OthersAreTrue
<1> QED BY <1>1, <1>2, <1>3, <1>4, <1>5, <1>6, <1>7 DEF DispatchNext, GoOnWith

\* Nothing is answered before every push of the request ended, and the data of an
\* answer name the services that failed and no other: BasePush, the tool, and
\* BatchPush, which waits for its goroutines.
THEOREM AnswersStayTrue == DispatchSpec => []AnswersAreTrue
<1>1. HandlerInv => AnswersAreTrue
  BY DEF HandlerInv
<1> QED BY HandlerInit, HandlerStep, <1>1, PTL DEF DispatchSpec

-----------------------------------------------------------------------------
(* The pool of clients *)

LEMMA HeldMembers ==
  \A h : h \in Held <=>
    \E t \in Threads : \E i \in DOMAIN apns[t] : apns[t][i] = "held" /\ h = <<t, i>>
BY DEF Held, Goroutines

LEMMA HeldMembersNext ==
  \A h : h \in Held' <=>
    \E t \in Threads : \E i \in DOMAIN apns'[t] : apns'[t][i] = "held" /\ h = <<t, i>>
BY DEF Held, Goroutines

\* Handlers keep to their stages, which says that their goroutines are not started
\* twice; clients can be counted.
PoolInv ==
  /\ HandlerInv
  /\ pool \in Nat /\ left \in Nat
  /\ IsFiniteSet(Held)
  /\ PoolIsWhole

LEMMA PoolInit == DispatchInit => PoolInv
<1> SUFFICES ASSUME DispatchInit PROVE PoolInv
  OBVIOUS
<1>1. \A t \in Threads : apns[t] = <<>>
  BY DEF DispatchInit
<1>2. Held = {}
  BY <1>1, HeldMembers
<1>3. IsFiniteSet(Held) /\ Cardinality(Held) = 0
  BY <1>2, FS_EmptySet
<1>4. pool = Clients /\ left = 0 /\ Clients \in Nat
  BY DispatchAssumption DEF DispatchInit
<1> QED BY <1>3, <1>4, HandlerInit DEF PoolInv, PoolIsWhole

\* The goroutines of a thread change, in none that holds a client.
LEMMA SameHolders ==
  ASSUME HandlerInv, NEW t \in Threads, NEW f,
         apns' = [apns EXCEPT ![t] = f],
         \A i : i \in DOMAIN f /\ f[i] = "held" <=> i \in DOMAIN apns[t] /\ apns[t][i] = "held"
  PROVE  Held' = Held
<1>1. DOMAIN apns = Threads
  BY DEF HandlerInv, OfThreads
<1>2. \A u \in Threads : \A i :
        i \in DOMAIN apns'[u] /\ apns'[u][i] = "held" <=> i \in DOMAIN apns[u] /\ apns[u][i] = "held"
  BY <1>1
<1>3. \A h : h \in Held' <=> h \in Held
  BY <1>2, HeldMembers, HeldMembersNext
<1> QED BY <1>3

\* What one goroutine does to the set of those that hold a client.
LEMMA HolderStep ==
  ASSUME HandlerInv, NEW t \in Threads, NEW i, NEW from, NEW to, Push(t, i, from, to)
  PROVE  /\ from = "held" <=> <<t, i>> \in Held
         /\ Held' = IF to = "held" THEN Held \cup {<<t, i>>} ELSE Held \ {<<t, i>>}
<1>1. /\ i \in DOMAIN apns[t] /\ apns[t][i] = from /\ DOMAIN apns = Threads
      /\ apns' = [apns EXCEPT ![t] = [apns[t] EXCEPT ![i] = to]]
  BY DEF Push, Goroutines, HandlerInv, OfThreads
<1>2. /\ DOMAIN apns'[t] = DOMAIN apns[t] /\ apns'[t][i] = to
      /\ \A j \in DOMAIN apns[t] : j = i \/ apns'[t][j] = apns[t][j]
      /\ \A u \in Threads : u = t \/ apns'[u] = apns[u]
  BY <1>1
<1>3. from = "held" <=> <<t, i>> \in Held
  BY <1>1, HeldMembers
<1>4. ASSUME NEW u \in Threads, NEW j, <<u, j>> # <<t, i>>
      PROVE  <<u, j>> \in Held' <=> <<u, j>> \in Held
  BY <1>2, <1>4, HeldMembers, HeldMembersNext
<1>5. <<t, i>> \in Held' <=> to = "held"
  BY <1>1, <1>2, HeldMembersNext
<1>6. \A h : h \in Held \/ h \in Held' => \E u \in Threads : \E j : h = <<u, j>>
  BY HeldMembers, HeldMembersNext
<1>7. \A h : h # <<t, i>> => (h \in Held' <=> h \in Held)
  BY <1>4, <1>6
<1> QED BY <1>3, <1>5, <1>7

LEMMA TakeKeepsPool ==
  ASSUME PoolInv, NEW t \in Threads, NEW i, TakeClient(t, i)
  PROVE  pool' \in Nat /\ IsFiniteSet(Held)' /\ PoolIsWhole'
<1>1. /\ Push(t, i, "started", "held") /\ pool > 0 /\ pool' = pool - 1 /\ UNCHANGED life
  BY DEF TakeClient, Push
<1>2. <<t, i>> \notin Held /\ Held' = Held \cup {<<t, i>>}
  BY <1>1, HolderStep DEF PoolInv
<1>3. /\ IsFiniteSet(Held') /\ Cardinality(Held') = Cardinality(Held) + 1
      /\ Cardinality(Held) \in Nat
  BY <1>2, FS_AddElement, FS_CardinalityType DEF PoolInv
<1> QED BY <1>1, <1>3, DispatchAssumption DEF PoolInv, PoolIsWhole

LEMMA PutKeepsPool ==
  ASSUME PoolInv, NEW t \in Threads, NEW i, PutBack(t, i)
  PROVE  pool' \in Nat /\ IsFiniteSet(Held)' /\ PoolIsWhole'
<1>1. Push(t, i, "held", "sent") /\ pool' = pool + 1 /\ UNCHANGED life
  BY DEF PutBack, Push
<1>2. <<t, i>> \in Held /\ Held' = Held \ {<<t, i>>}
  BY <1>1, HolderStep DEF PoolInv
<1>3. /\ IsFiniteSet(Held') /\ Cardinality(Held') = Cardinality(Held) - 1
      /\ Cardinality(Held) \in Nat
  BY <1>2, FS_RemoveElement, FS_CardinalityType DEF PoolInv
<1> QED BY <1>1, <1>3, DispatchAssumption DEF PoolInv, PoolIsWhole

\* Steps that neither take a client nor put one back.
LEMMA OthersKeepPool ==
  ASSUME PoolInv, Held' = Held, UNCHANGED <<pool, life>>
  PROVE  pool' \in Nat /\ IsFiniteSet(Held)' /\ PoolIsWhole'
BY DEF PoolInv, PoolIsWhole

LEMMA HandlersKeepPool ==
  ASSUME PoolInv, NEW t \in Threads, Arrive(t) \/ GoOnWith(t)
  PROVE  pool' \in Nat /\ IsFiniteSet(Held)' /\ PoolIsWhole'
<1> DEFINE Goal == pool' \in Nat /\ IsFiniteSet(Held)' /\ PoolIsWhole'
<1>1. HandlerInv
  BY DEF PoolInv
<1>2. CASE Arrive(t) \/ SignIn(t) \/ Answer(t)
  <2>1. UNCHANGED <<apns, pool, life>>
    BY <1>2 DEF Arrive, SignIn, Answer, requestVars, processVars
  <2>2. Held' = Held
    BY <2>1 DEF Held, Goroutines
  <2> QED BY <2>1, <2>2, OthersKeepPool
<1>3. ASSUME NEW list, apns[t] = <<>>, UNCHANGED <<pool, life>>,
             ToApple(t, list) \/ UNCHANGED apns
      PROVE  Goal
  <2>1. CASE ToApple(t, list)
    <3> DEFINE f == [i \in DOMAIN list |-> "started"]
    <3>1. apns' = [apns EXCEPT ![t] = f]
      BY <2>1 DEF ToApple
    <3>2. \A i : i \in DOMAIN f /\ f[i] = "held" <=> i \in DOMAIN apns[t] /\ apns[t][i] = "held"
      BY <1>3
    <3> HIDE DEF f
    <3>3. Held' = Held
      BY <1>1, <3>1, <3>2, SameHolders
    <3> QED BY <1>3, <3>3, OthersKeepPool
  <2>2. CASE UNCHANGED apns
    <3>1. Held' = Held
      BY <2>2 DEF Held, Goroutines
    <3> QED BY <1>3, <3>1, OthersKeepPool
  <2> QED BY <1>3, <2>1, <2>2
<1>4. CASE Lookup(t)
  <2>1. pc[t] = "lookup" /\ UNCHANGED <<pool, life>>
        /\ \E list : ToApple(t, list) \/ UNCHANGED apns
    BY <1>4 DEF Lookup, Serving, processVars
  <2>2. apns[t] = <<>>
    BY <1>1, <2>1 DEF HandlerInv, Stages
  <2> QED BY <1>3, <2>1, <2>2
<1>5. ASSUME NEW result \in Ended, HuaweiEnds(t, result) PROVE Goal
  <2>1. pc[t] = "huawei" /\ UNCHANGED <<pool, life>>
        /\ (ToApple(t, users[t]) \/ UNCHANGED apns)
    BY <1>5 DEF HuaweiEnds, Serving, processVars
  <2>2. apns[t] = <<>>
    BY <1>1, <2>1 DEF HandlerInv, Stages
  <2> QED BY <1>3, <2>1, <2>2
<1>6. ASSUME NEW i, Goroutine(t, i) PROVE Goal
  <2>1. CASE TakeClient(t, i)
    BY <2>1, TakeKeepsPool
  <2>2. CASE PutBack(t, i)
    BY <2>2, PutKeepsPool
  <2>3. CASE NoAddress(t, i) \/ PushEnds(t, i)
    <3>1. PICK from, to : /\ from # "held" /\ to # "held"
                          /\ Push(t, i, from, to) /\ UNCHANGED <<pool, life>>
      BY <2>3 DEF NoAddress, PushEnds, Push, Ended
    <3>2. Held' = Held
      BY <1>1, <3>1, HolderStep
    <3> QED BY <3>1, <3>2, OthersKeepPool
  <2> QED BY <1>6, <2>1, <2>2, <2>3 DEF Goroutine
<1> QED BY <1>2, <1>4, <1>5, <1>6 DEF GoOnWith

LEMMA PoolStep == PoolInv /\ [DispatchNext]_vars => PoolInv'
<1> SUFFICES ASSUME PoolInv, [DispatchNext]_vars PROVE PoolInv'
  OBVIOUS
<1>1. HandlerInv'
  BY HandlerStep DEF PoolInv
<1>2. ASSUME NEW t \in Threads, Arrive(t) \/ GoOnWith(t)
      PROVE  pool' \in Nat /\ left' \in Nat /\ IsFiniteSet(Held)' /\ PoolIsWhole'
  <2>1. UNCHANGED left
    BY <1>2 DEF Arrive, GoOnWith, Lookup, SignIn, HuaweiEnds, Goroutine, NoAddress,
                TakeClient, PutBack, PushEnds, Push, Answer, processVars
  <2> QED BY <1>2, <2>1, HandlersKeepPool DEF PoolInv
<1>3. CASE StopServing \/ CloseClient \/ Exit \/ Time \/ UNCHANGED vars
  <2>1. UNCHANGED apns
    BY <1>3 DEF StopServing, CloseClient, Exit, Time, requestVars, vars
  <2>2. Held' = Held
    BY <2>1 DEF Held, Goroutines
  <2>3. Cardinality(Held) \in Nat /\ IsFiniteSet(Held)
    BY FS_CardinalityType DEF PoolInv
  <2>4. /\ pool' \in Nat /\ left' \in Nat /\ pool' <= pool
        /\ life' = "serving" => life = "serving" /\ pool' = pool
    BY <1>3 DEF StopServing, CloseClient, Exit, Time, processVars, vars, PoolInv
  <2> QED BY <1>1, <2>2, <2>3, <2>4, DispatchAssumption DEF PoolInv, PoolIsWhole
<1> QED BY <1>1, <1>2, <1>3 DEF DispatchNext, PoolInv

\* While the server serves, no client of the pool is lost or there twice, whatever
\* the goroutines of Push and LocationPush do with them; when CloseAPNSClients
\* drains it, there are at most fewer.
THEOREM PoolStaysWhole == DispatchSpec => []PoolIsWhole
<1>1. PoolInv => PoolIsWhole
  BY DEF PoolInv
<1> QED BY PoolInit, PoolStep, <1>1, PTL DEF DispatchSpec

-----------------------------------------------------------------------------
(* Users that are taken for one *)

\* Of some numbers, one is the smallest.
LEMMA SmallestOfNumbers ==
  ASSUME NEW T, T \in SUBSET Nat, T # {}
  PROVE  \E m \in T : \A k \in T : m <= k
<1> DEFINE R == OpToRel(<, Nat)
<1>1. \A k, m \in Nat : k < m => <<k, m>> \in R
  BY DEF OpToRel
<1>2. IsWellFoundedOn(R, Nat)
  BY NatLessThanWellFounded
<1> HIDE DEF R
<1>3. PICK m \in T : \A k \in T : ~ (<<k, m>> \in R)
  BY <1>2, WFMin
<1>4. \A k \in T : k \in Nat /\ m \in Nat /\ ~ (k < m)
  BY <1>1, <1>3
<1>5. \A k \in T : m <= k
  BY <1>4
<1> QED BY <1>5

\* What UserUnique has kept of the first users of a list, for each number of them up
\* to n.
IsKept(kept, list, n) ==
  kept = [m \in 0..n |-> IF m = 0 THEN <<>> ELSE WithNext(kept[m - 1], list[m])]

\* There is such a function: UserUnique goes through the list.
LEMMA KeptExists ==
  ASSUME NEW list, NEW n \in Nat
  PROVE  \E kept : IsKept(kept, list, n)
<1> DEFINE Missing == {m \in Nat : ~ \E kept : IsKept(kept, list, m)}
<1>1. SUFFICES ASSUME Missing # {} PROVE FALSE
  OBVIOUS
<1>2. PICK m \in Missing : \A k \in Missing : m <= k
  BY <1>1, SmallestOfNumbers
<1>3. CASE m = 0
  <2> DEFINE none == [k \in 0..0 |-> <<>>]
  <2>1. IsKept(none, list, 0)
    BY DEF IsKept
  <2> QED BY <1>3, <2>1
<1>4. CASE m # 0
  <2>1. m - 1 \in Nat /\ m - 1 \notin Missing
    BY <1>2, <1>4
  <2>2. PICK kept : IsKept(kept, list, m - 1)
    BY <2>1
  <2> DEFINE more == [k \in 0..m |-> IF k = m THEN WithNext(kept[m - 1], list[m]) ELSE kept[k]]
  <2>3. \A k \in 0..(m - 1) :
          kept[k] = IF k = 0 THEN <<>> ELSE WithNext(kept[k - 1], list[k])
    BY <2>2 DEF IsKept
  <2>4. ASSUME NEW k \in 0..m
        PROVE  more[k] = IF k = 0 THEN <<>> ELSE WithNext(more[k - 1], list[k])
    <3>1. CASE k = m
      BY <1>4, <3>1
    <3>2. CASE k # m
      <4>1. k \in 0..(m - 1) /\ more[k] = kept[k] /\ (k # 0 => more[k - 1] = kept[k - 1])
        BY <1>4, <3>2
      <4> QED BY <2>3, <4>1
    <3> QED BY <3>1, <3>2
  <2>5. IsKept(more, list, m)
    BY <2>4 DEF IsKept
  <2> QED BY <2>5
<1> QED BY <1>3, <1>4

LEMMA UserUniqueKeeps ==
  ASSUME NEW list, Len(list) \in Nat
  PROVE  \E kept : IsKept(kept, list, Len(list)) /\ UserUnique(list) = kept[Len(list)]
<1> DEFINE kept == CHOOSE f : IsKept(f, list, Len(list))
<1>1. IsKept(kept, list, Len(list))
  BY KeptExists
<1>2. UserUnique(list) = kept[Len(list)]
  BY DEF UserUnique, IsKept
<1> QED BY <1>1, <1>2

\* Users of whom none is the same as one before.
Distinct(s) == \A i, j \in DOMAIN s : i < j => ~Same(s[j], s[i])

\* Some of the first n users of a list, in their order.
SomeOf(s, list, n) ==
  \E at \in [1..Len(s) -> 1..n] :
    /\ \A i, j \in 1..Len(s) : i < j => at[i] < at[j]
    /\ \A i \in 1..Len(s) : s[i] = list[at[i]]

LEMMA WithNextKeeps ==
  ASSUME NEW S, NEW list \in Seq(S), NEW n \in Nat, n + 1 <= Len(list),
         NEW s \in Seq(S), Distinct(s), SomeOf(s, list, n)
  PROVE  LET next == WithNext(s, list[n + 1])
         IN  next \in Seq(S) /\ Distinct(next) /\ SomeOf(next, list, n + 1)
<1>1. PICK at \in [1..Len(s) -> 1..n] :
        /\ \A i, j \in 1..Len(s) : i < j => at[i] < at[j]
        /\ \A i \in 1..Len(s) : s[i] = list[at[i]]
  BY DEF SomeOf
<1>2. Len(s) \in Nat /\ DOMAIN s = 1..Len(s) /\ list[n + 1] \in S
  BY LenProperties, ElementOfSeq
<1>3. CASE \E v \in ToSet(s) : Same(list[n + 1], v)
  <2>1. WithNext(s, list[n + 1]) = s
    BY <1>3 DEF WithNext
  <2>2. at \in [1..Len(s) -> 1..(n + 1)]
    OBVIOUS
  <2>3. SomeOf(s, list, n + 1)
    BY <1>1, <2>2 DEF SomeOf
  <2> QED BY <2>1, <2>3
<1>4. CASE \A v \in ToSet(s) : ~Same(list[n + 1], v)
  <2> DEFINE u == list[n + 1]
             next == Append(s, u)
             further == [i \in 1..(Len(s) + 1) |-> IF i = Len(s) + 1 THEN n + 1 ELSE at[i]]
  <2>1. WithNext(s, u) = next
    BY <1>4 DEF WithNext
  <2>2. /\ next \in Seq(S) /\ Len(next) = Len(s) + 1 /\ DOMAIN next = 1..(Len(s) + 1)
        /\ \A i \in 1..Len(s) : next[i] = s[i]
        /\ next[Len(s) + 1] = u
    BY <1>2, AppendProperties, LenProperties
  <2>3. \A i \in 1..Len(s) : ~Same(u, s[i])
    BY <1>2, <1>4 DEF ToSet
  <2> HIDE DEF u
  <2> HIDE DEF next
  <2>4. Distinct(next)
    BY <1>2, <2>2, <2>3 DEF Distinct
  <2>5. /\ further \in [1..Len(next) -> 1..(n + 1)]
        /\ \A i, j \in 1..Len(next) : i < j => further[i] < further[j]
    <3>1. ASSUME NEW i \in 1..Len(s)
          PROVE  at[i] \in 1..n /\ further[i] = at[i] /\ i # Len(s) + 1
      <4>1. at[i] \in 1..n
        OBVIOUS
      <4>2. i \in 1..(Len(s) + 1) /\ i # Len(s) + 1
        BY <1>2
      <4> QED BY <4>1, <4>2
    <3>2. further[Len(s) + 1] = n + 1
      BY <1>2
    <3>3. \A i \in 1..Len(next) : i \in 1..Len(s) \/ i = Len(s) + 1
      BY <1>2, <2>2
    <3>4. further \in [1..Len(next) -> 1..(n + 1)]
      BY <1>2, <2>2, <3>1
    <3> HIDE DEF further
    <3>5. ASSUME NEW i \in 1..Len(next), NEW j \in 1..Len(next), i < j
          PROVE  further[i] < further[j]
      <4>1. i \in 1..Len(s)
        BY <1>2, <2>2, <3>3, <3>5
      <4> QED BY <1>1, <1>2, <3>1, <3>2, <3>3, <3>5, <4>1
    <3> QED BY <3>4, <3>5
  <2>6. \A i \in 1..Len(next) : next[i] = list[further[i]]
    BY <1>1, <1>2, <2>2 DEF u
  <2> HIDE DEF further
  <2>7. SomeOf(next, list, n + 1)
    BY <2>5, <2>6 DEF SomeOf
  <2> QED BY <2>1, <2>2, <2>4, <2>7 DEF u
<1> QED BY <1>3, <1>4

\* UserUnique keeps some of the users, in their order, of whom none is the same as one
\* before.
LEMMA UserUniqueIsDistinct ==
  ASSUME NEW S, NEW list \in Seq(S)
  PROVE  LET unique == UserUnique(list)
         IN  unique \in Seq(S) /\ Distinct(unique) /\ SomeOf(unique, list, Len(list))
<1>1. Len(list) \in Nat
  BY LenProperties
<1>2. PICK kept : IsKept(kept, list, Len(list)) /\ UserUnique(list) = kept[Len(list)]
  BY <1>1, UserUniqueKeeps
<1>3. \A n \in 0..Len(list) :
        kept[n] = IF n = 0 THEN <<>> ELSE WithNext(kept[n - 1], list[n])
  BY <1>2 DEF IsKept
<1> DEFINE Good(n) == kept[n] \in Seq(S) /\ Distinct(kept[n]) /\ SomeOf(kept[n], list, n)
           Bad == {n \in 0..Len(list) : ~Good(n)}
<1>4. SUFFICES ASSUME Bad # {} PROVE FALSE
  <2>1. Bad = {} => Good(Len(list))
    BY <1>1
  <2> QED BY <1>2, <1>4, <2>1
<1>5. PICK m \in Bad : \A k \in Bad : m <= k
  <2>1. Bad \in SUBSET Nat
    BY <1>1
  <2> QED BY <1>4, <2>1, SmallestOfNumbers
<1>6. CASE m = 0
  <2>1. kept[0] = <<>>
    BY <1>1, <1>3
  <2>2. <<>> \in Seq(S) /\ Len(<<>>) = 0
    BY EmptySeq
  <2>3. Distinct(<<>>)
    BY DEF Distinct
  <2>4. SomeOf(<<>>, list, 0)
    <3> DEFINE none == <<>>
               at == [i \in 1..0 |-> i]
    <3>1. at \in [1..Len(none) -> 1..0] /\ \A i \in 1..Len(none) : FALSE
      BY <2>2
    <3> HIDE DEF none, at
    <3>2. SomeOf(none, list, 0)
      BY <3>1 DEF SomeOf
    <3> QED BY <3>2 DEF none
  <2> QED BY <1>5, <1>6, <2>1, <2>2, <2>3, <2>4
<1>7. CASE m # 0
  <2>1. m - 1 \in Nat /\ m - 1 + 1 = m /\ m <= Len(list) /\ Good(m - 1)
    BY <1>1, <1>5, <1>7
  <2>2. kept[m] = WithNext(kept[m - 1], list[m - 1 + 1])
    BY <1>1, <1>3, <1>5, <1>7, <2>1
  <2> DEFINE before == kept[m - 1]
             n == m - 1
  <2>3. n \in Nat /\ n + 1 <= Len(list) /\ before \in Seq(S) /\ Distinct(before)
        /\ SomeOf(before, list, n)
    BY <1>1, <2>1
  <2> HIDE DEF before, n
  <2>4. LET next == WithNext(before, list[n + 1])
        IN  next \in Seq(S) /\ Distinct(next) /\ SomeOf(next, list, n + 1)
    BY <2>3, WithNextKeeps
  <2>5. Good(m)
    BY <2>1, <2>2, <2>4 DEF before, n
  <2> QED BY <1>5, <2>5
<1> QED BY <1>6, <1>7

\* Each of the first n users of a list is in s, or is the same as one in s.
Covers(s, list, n) == \A i \in 1..n : \E v \in ToSet(s) : v = list[i] \/ Same(list[i], v)

LEMMA WithNextCovers ==
  ASSUME NEW S, NEW list \in Seq(S), NEW n \in Nat, n + 1 <= Len(list),
         NEW s \in Seq(S), Covers(s, list, n)
  PROVE  Covers(WithNext(s, list[n + 1]), list, n + 1)
<1> DEFINE u == list[n + 1]
           next == WithNext(s, u)
<1>1. \A i \in 1..(n + 1) : i \in 1..n \/ i = n + 1
  OBVIOUS
<1>2. ToSet(s) \subseteq ToSet(next) /\ \E v \in ToSet(next) : v = u \/ Same(u, v)
  <2>1. CASE \E v \in ToSet(s) : Same(u, v)
    <3>1. next = s
      BY <2>1 DEF WithNext
    <3> QED BY <2>1, <3>1
  <2>2. CASE \A v \in ToSet(s) : ~Same(u, v)
    <3> DEFINE longer == Append(s, u)
    <3>1. next = longer
      BY <2>2 DEF WithNext
    <3>2. u \in S /\ Len(s) \in Nat /\ DOMAIN s = 1..Len(s)
      BY LenProperties, ElementOfSeq
    <3>3. /\ DOMAIN longer = 1..(Len(s) + 1) /\ longer[Len(s) + 1] = u
          /\ \A i \in 1..Len(s) : longer[i] = s[i]
      BY <3>2, AppendProperties, LenProperties
    <3> HIDE DEF longer, u
    <3>4. Len(s) + 1 \in DOMAIN longer /\ DOMAIN s \subseteq DOMAIN longer
      BY <3>2, <3>3
    <3>5. u \in ToSet(longer) /\ ToSet(s) \subseteq ToSet(longer)
      BY <3>2, <3>3, <3>4 DEF ToSet
    <3> QED BY <3>1, <3>5
  <2> QED BY <2>1, <2>2
<1> HIDE DEF next
<1>3. ASSUME NEW i \in 1..(n + 1) PROVE \E v \in ToSet(next) : v = list[i] \/ Same(list[i], v)
  <2>1. CASE i \in 1..n
    BY <1>2, <2>1 DEF Covers
  <2>2. CASE i = n + 1
    BY <1>2, <2>2
  <2> QED BY <1>1, <2>1, <2>2
<1> QED BY <1>3 DEF Covers, next, u

\* Whomever UserUnique leaves out shares a token, a location or a talk with somebody
\* it keeps, whatever the order of the list; nobody is dropped for the sake of one who
\* is dropped, too.
THEOREM UserUniqueLeavesNobodyOut ==
  ASSUME NEW S, NEW list \in Seq(S)
  PROVE  \A i \in DOMAIN list : \E v \in ToSet(UserUnique(list)) :
           v = list[i] \/ Same(list[i], v)
<1>1. Len(list) \in Nat /\ DOMAIN list = 1..Len(list)
  BY LenProperties
<1>2. PICK kept : IsKept(kept, list, Len(list)) /\ UserUnique(list) = kept[Len(list)]
  BY <1>1, UserUniqueKeeps
<1>3. \A n \in 0..Len(list) :
        kept[n] = IF n = 0 THEN <<>> ELSE WithNext(kept[n - 1], list[n])
  BY <1>2 DEF IsKept
<1> DEFINE Good(n) == kept[n] \in Seq(S) /\ Covers(kept[n], list, n)
           Bad == {n \in 0..Len(list) : ~Good(n)}
<1>4. SUFFICES ASSUME Bad # {} PROVE FALSE
  <2>1. Bad = {} => Good(Len(list))
    BY <1>1
  <2> QED BY <1>1, <1>2, <1>4, <2>1 DEF Covers
<1>5. PICK m \in Bad : \A k \in Bad : m <= k
  <2>1. Bad \in SUBSET Nat
    BY <1>1
  <2> QED BY <1>4, <2>1, SmallestOfNumbers
<1>6. CASE m = 0
  <2>1. kept[0] = <<>> /\ <<>> \in Seq(S)
    BY <1>1, <1>3, EmptySeq
  <2>2. Covers(<<>>, list, 0)
    BY DEF Covers
  <2> QED BY <1>5, <1>6, <2>1, <2>2
<1>7. CASE m # 0
  <2>1. m - 1 \in Nat /\ m - 1 + 1 = m /\ m <= Len(list) /\ Good(m - 1)
    BY <1>1, <1>5, <1>7
  <2>2. kept[m] = WithNext(kept[m - 1], list[m - 1 + 1])
    BY <1>1, <1>3, <1>5, <1>7, <2>1
  <2> DEFINE before == kept[m - 1]
             n == m - 1
  <2>3. n \in Nat /\ n + 1 <= Len(list) /\ before \in Seq(S) /\ Covers(before, list, n)
    BY <1>1, <2>1
  <2> HIDE DEF before, n
  <2>4. Covers(WithNext(before, list[n + 1]), list, n + 1)
    BY <2>3, WithNextCovers
  <2>5. WithNext(before, list[n + 1]) \in Seq(S)
    <3>1. list[n + 1] \in S
      BY <2>3, ElementOfSeq
    <3> QED BY <2>3, <3>1, AppendProperties DEF WithNext
  <2>6. Good(m)
    BY <2>1, <2>2, <2>4, <2>5 DEF before, n
  <2> QED BY <1>5, <2>6
<1> QED BY <1>6, <1>7

-----------------------------------------------------------------------------
(* Users that are found *)

\* Who is named by a token in a request.
ByToken(r) ==
  {[key |-> "", token |-> k, talk |-> "", location |-> "", group |-> "", os |-> ""] :
     k \in ToSet(r.tokens)}

\* A function on 1..n is a sequence.
LEMMA FunctionIsSequence ==
  ASSUME NEW S, NEW n \in Nat, NEW f \in [1..n -> S]
  PROVE  f \in Seq(S) /\ Len(f) = n
<1>1. f \in Seq(S)
  BY SeqDef
<1>2. Len(f) \in Nat /\ DOMAIN f = 1..Len(f)
  BY <1>1, LenProperties
<1> QED BY <1>1, <1>2

LEMMA DirectIsSequence ==
  ASSUME NEW r, IsRequest(r)
  PROVE  Direct(r) \in Seq(ByToken(r)) /\ \A i \in DOMAIN Direct(r) : Direct(r)[i].key = ""
<1>1. r.tokens \in Seq(ToSet(r.tokens))
  BY DEF IsRequest, IsSequence
<1>2. PICK n \in Nat : DOMAIN r.tokens = 1..n
  BY <1>1, LenProperties
<1>3. \A i \in DOMAIN r.tokens : r.tokens[i] \in ToSet(r.tokens)
  BY DEF ToSet
<1>4. Direct(r) \in [1..n -> ByToken(r)]
  BY <1>2, <1>3 DEF Direct, ByToken
<1>5. Direct(r) \in Seq(ByToken(r))
  BY <1>4, FunctionIsSequence
<1> QED BY <1>5 DEF Direct

\* Places of a sequence can be counted.
LEMMA PlacesAreFinite ==
  ASSUME NEW n \in Nat
  PROVE  IsFiniteSet(1..n) /\ Cardinality(1..n) = n
BY FS_Interval

\* There are only so many devices.
LEMMA DevicesAreFinite == IsFiniteSet(ToSet(Table))
<1>1. Table \in Seq(ToSet(Table))
  BY DispatchAssumption DEF IsSequence
<1>2. Len(Table) \in Nat /\ DOMAIN Table = 1..Len(Table) /\ Table \in [1..Len(Table) -> ToSet(Table)]
  BY <1>1, LenProperties
<1>3. Table \in Surjection(1..Len(Table), ToSet(Table))
  BY <1>2 DEF Surjection, ToSet
<1>4. IsFiniteSet(1..Len(Table))
  BY <1>2, FS_Interval
<1> QED BY <1>3, <1>4, FS_Surjection

\* A set in any order is a sequence.
LEMMA OrderedSetIsSequence ==
  ASSUME NEW S, IsFiniteSet(S), NEW q \in SetToSeqs(S)
  PROVE  q \in Seq(S) /\ Len(q) = Cardinality(S)
<1>1. Cardinality(S) \in Nat
  BY FS_CardinalityType
<1>2. q \in [1..Cardinality(S) -> S]
  BY DEF SetToSeqs
<1> QED BY <1>1, <1>2, FunctionIsSequence

LEMMA AnyOrderOfSome ==
  ASSUME NEW S, NEW q \in SetToAllKPermutations(S)
  PROVE  \E found \in SUBSET S : q \in SetToSeqs(found)
BY DEF SetToAllKPermutations

\* No two devices have the same key.
LEMMA NoMoreDevicesThanKeys ==
  ASSUME NEW keys, IsFiniteSet(keys), NEW S, S \subseteq {d \in ToSet(Table) : d.key \in keys}
  PROVE  IsFiniteSet(S) /\ Cardinality(S) <= Cardinality(keys)
<1> DEFINE f == [d \in S |-> d.key]
<1>1. \A d, e \in ToSet(Table) : d.key = e.key => d = e
  BY DispatchAssumption DEF ToSet
<1>2. f \in [S -> keys] /\ \A d, e \in S : f[d] = f[e] => d = e
  BY <1>1
<1> HIDE DEF f
<1>3. f \in Injection(S, keys)
  BY <1>2 DEF Injection, IsInjective
<1> QED BY <1>3, FS_Injection

\* By the tool no more keys are searched for than the limit.
LEMMA SearchedKeysAreFew ==
  ASSUME NEW r, IsRequest(r), NEW keys \in SearchedKeys(r)
  PROVE  IsFiniteSet(keys) /\ (r.by = "mcp" => Cardinality(keys) <= MaxKeys)
<1> DEFINE searched == FilterShortStrings(GivenKeys(r), 5, 64)
<1>1. IsFiniteSet(GivenKeys(r))
  BY DispatchAssumption, FS_Subset DEF IsRequest
<1>2. CASE r.by = "http"
  <2>1. keys \subseteq GivenKeys(r)
    BY <1>2 DEF SearchedKeys, FilterShortStrings
  <2> QED BY <1>1, <1>2, <2>1, FS_Subset
<1>3. CASE r.by = "mcp"
  <2>1. searched \subseteq GivenKeys(r)
    BY DEF FilterShortStrings
  <2>2. keys \subseteq searched /\ (Cardinality(keys) <= MaxKeys \/ Cardinality(keys) = MaxKeys)
    BY <1>3 DEF SearchedKeys, kSubset
  <2>3. IsFiniteSet(keys) /\ Cardinality(keys) \in Nat
    BY <1>1, <2>1, <2>2, FS_Subset, FS_CardinalityType
  <2> QED BY <2>2, <2>3, DispatchAssumption
<1> QED BY <1>2, <1>3 DEF IsRequest

\* What a list of users is made of before it is looked at for those that are the same.
LEMMA FoundUsersAre ==
  ASSUME NEW r, IsRequest(r), NEW list \in FoundUsers(r)
  PROVE  \E keyed \in Seq(ToSet(Table)), grouped \in Seq(ToSet(Table)) :
           /\ list = Limited(r, UserUnique(Direct(r) \o keyed \o grouped))
           /\ r.by = "mcp" => Len(keyed) <= MaxKeys
           /\ r.by = "mcp" /\ ~r.admin => Len(grouped) = 0
<1> DEFINE Keyed(keys) == SetToAllKPermutations({d \in ToSet(Table) : d.key \in keys})
<1>1. PICK keyed \in UNION {Keyed(keys) : keys \in SearchedKeys(r)},
           grouped \in UNION {SetToSeqs(InGroup(groups)) : groups \in SUBSET Groups(r)} :
        list = Limited(r, UserUnique(Direct(r) \o keyed \o grouped))
  BY DEF FoundUsers
<1>2. PICK groups \in SUBSET Groups(r) : grouped \in SetToSeqs(InGroup(groups))
  OBVIOUS
<1>12. PICK keys \in SearchedKeys(r) : keyed \in Keyed(keys)
  <2> HIDE DEF Keyed
  <2> QED OBVIOUS
<1>13. PICK found \in SUBSET {d \in ToSet(Table) : d.key \in keys} : keyed \in SetToSeqs(found)
  BY <1>12, AnyOrderOfSome
<1>3. IsFiniteSet(keys) /\ (r.by = "mcp" => Cardinality(keys) <= MaxKeys)
  BY SearchedKeysAreFew
<1>4. /\ IsFiniteSet(found) /\ Cardinality(found) <= Cardinality(keys)
      /\ Cardinality(found) \in Nat /\ Cardinality(keys) \in Nat
  BY <1>3, NoMoreDevicesThanKeys, FS_CardinalityType
<1>5. keyed \in Seq(found) /\ Len(keyed) = Cardinality(found)
  BY <1>13, <1>4, OrderedSetIsSequence
<1>6. keyed \in Seq(ToSet(Table))
  BY <1>5, SeqMonotonic
<1>7. r.by = "mcp" => Len(keyed) <= MaxKeys
  BY <1>3, <1>4, <1>5, DispatchAssumption
<1>8. InGroup(groups) \subseteq ToSet(Table)
  BY DEF InGroup
<1>9. IsFiniteSet(InGroup(groups))
  BY <1>8, DevicesAreFinite, FS_Subset
<1>10. grouped \in Seq(ToSet(Table)) /\ Len(grouped) = Cardinality(InGroup(groups))
  <2>1. grouped \in Seq(InGroup(groups)) /\ Len(grouped) = Cardinality(InGroup(groups))
    BY <1>2, <1>9, OrderedSetIsSequence
  <2> QED BY <1>8, <2>1, SeqMonotonic
<1>11. ASSUME r.by = "mcp", ~r.admin PROVE Len(grouped) = 0
  <2>1. InGroup(groups) = {}
    BY <1>11 DEF Groups, InGroup
  <2> QED BY <1>10, <2>1, FS_EmptySet
<1> QED BY <1>1, <1>6, <1>7, <1>10, <1>11

\* The first users of a list.
LEMMA LimitedKeeps ==
  ASSUME NEW r, NEW S, NEW list \in Seq(S), Distinct(list)
  PROVE  LET limited == Limited(r, list)
         IN  /\ limited \in Seq(S) /\ Distinct(limited)
             /\ r.by = "http" /\ ~r.admin => Len(limited) <= MaxKeys
             /\ r.by = "http" \/ limited = list
<1> DEFINE first == SubSeq(list, 1, MaxKeys)
<1>1. Len(list) \in Nat /\ DOMAIN list = 1..Len(list) /\ \A i \in 1..Len(list) : list[i] \in S
  BY LenProperties
<1>2. MaxKeys \in Nat \ {0}
  BY DispatchAssumption
<1>3. CASE r.by = "http" /\ ~r.admin /\ Len(list) > MaxKeys
  <2>1. \A i \in 1..MaxKeys : list[i] \in S
    BY <1>1, <1>2, <1>3
  <2>2. /\ first \in Seq(S) /\ Len(first) = MaxKeys
        /\ \A i \in 1..MaxKeys : first[i] = list[i]
    BY <1>2, <2>1, SubSeqProperties
  <2>3. DOMAIN first = 1..MaxKeys
    BY <2>2, LenProperties
  <2> HIDE DEF first
  <2>4. Distinct(first)
    BY <1>1, <1>2, <1>3, <2>2, <2>3 DEF Distinct
  <2>5. Limited(r, list) = first
    BY <1>3 DEF Limited, first
  <2> QED BY <1>2, <1>3, <2>2, <2>4, <2>5
<1>4. CASE ~(r.by = "http" /\ ~r.admin /\ Len(list) > MaxKeys)
  <2>1. Limited(r, list) = list
    BY <1>4 DEF Limited
  <2> QED BY <1>1, <1>2, <1>4, <2>1
<1> QED BY <1>3, <1>4

\* What is found is a list of devices and of users named by token, no two the same.
LEMMA FoundUsersAreDistinct ==
  ASSUME NEW r, IsRequest(r), NEW list \in FoundUsers(r)
  PROVE  list \in Seq(ToSet(Table) \cup ByToken(r)) /\ Distinct(list)
<1> DEFINE S == ToSet(Table) \cup ByToken(r)
<1>1. PICK keyed \in Seq(ToSet(Table)), grouped \in Seq(ToSet(Table)) :
        list = Limited(r, UserUnique(Direct(r) \o keyed \o grouped))
  BY FoundUsersAre
<1> DEFINE all == Direct(r) \o keyed \o grouped
<1>2. Direct(r) \in Seq(S) /\ keyed \in Seq(S) /\ grouped \in Seq(S)
  BY DirectIsSequence, SeqMonotonic
<1> HIDE DEF S
<1>3. all \in Seq(S)
  BY <1>2, ConcatProperties
<1> HIDE DEF all
<1>4. UserUnique(all) \in Seq(S) /\ Distinct(UserUnique(all))
  BY <1>3, UserUniqueIsDistinct
<1> QED BY <1>1, <1>4, LimitedKeeps DEF S, all

\* The users with a key among those that are found.
WithKey(list) == {i \in DOMAIN list : list[i].key # ""}

\* Numbers after d, up to k of them.
LEMMA NumbersAfter ==
  ASSUME NEW d \in Nat, NEW k \in Nat, NEW n \in 1..(d + k), n \notin 1..d
  PROVE  n \in Int /\ n - d \in 1..k
OBVIOUS

\* Numbers that are in order, and of which there are only so many.
LEMMA OrderedNumbersAreFew ==
  ASSUME NEW m \in Nat, NEW S \in SUBSET (1..m), NEW at, NEW d \in Nat, NEW k \in Nat,
         \A i \in S : at[i] \in Int /\ at[i] - d \in 1..k,
         \A i, j \in S : i < j => at[i] < at[j]
  PROVE  Cardinality(S) <= k
<1> DEFINE from == [i \in S |-> at[i] - d]
<1>1. from \in [S -> 1..k]
  OBVIOUS
<1>2. ASSUME NEW i \in S, NEW j \in S, from[i] = from[j] PROVE i = j
  <2>1. at[i] \in Int /\ at[j] \in Int /\ at[i] - d = at[j] - d
    BY <1>2
  <2>2. ~(at[i] < at[j]) /\ ~(at[j] < at[i])
    BY <2>1
  <2>3. i \in Int /\ j \in Int /\ ~(i < j) /\ ~(j < i)
    BY <2>2
  <2> QED BY <2>3
<1> HIDE DEF from
<1>3. from \in Injection(S, 1..k)
  BY <1>1, <1>2 DEF Injection, IsInjective
<1>4. IsFiniteSet(1..k) /\ Cardinality(1..k) = k
  BY PlacesAreFinite
<1>5. Cardinality(S) <= Cardinality(1..k)
  BY <1>3, <1>4, FS_Injection
<1> QED BY <1>4, <1>5

\* Of k users after d without a key at most k have a key, however some are chosen.
LEMMA FoundByKeyAreFew ==
  ASSUME NEW d \in Nat, NEW k \in Nat, NEW both, NEW list,
         Len(list) \in Nat, DOMAIN list = 1..Len(list),
         \A i \in 1..d : both[i].key = "", SomeOf(list, both, d + k)
  PROVE  Cardinality(WithKey(list)) <= k
<1>1. PICK at :
        /\ at \in [1..Len(list) -> 1..(d + k)]
        /\ \A i, j \in 1..Len(list) : i < j => at[i] < at[j]
        /\ \A i \in 1..Len(list) : list[i] = both[at[i]]
  BY DEF SomeOf
<1>2. WithKey(list) \in SUBSET (1..Len(list))
  BY DEF WithKey
<1>3. ASSUME NEW i \in WithKey(list) PROVE at[i] \in 1..(d + k) /\ at[i] \notin 1..d
  BY <1>1 DEF WithKey
<1>4. \A i \in WithKey(list) : at[i] \in Int /\ at[i] - d \in 1..k
  BY <1>3, NumbersAfter
<1>5. \A i, j \in WithKey(list) : i < j => at[i] < at[j]
  BY <1>1, <1>2
<1> QED BY <1>2, <1>4, <1>5, OrderedNumbersAreFew

\* Who is not an admin reaches no more devices by key than the limit.
LEMMA FoundUsersAreLimited ==
  ASSUME NEW r, IsRequest(r), ~r.admin, NEW list \in FoundUsers(r)
  PROVE  Cardinality(WithKey(list)) <= MaxKeys
<1> DEFINE S == ToSet(Table) \cup ByToken(r)
<1>1. PICK keyed \in Seq(ToSet(Table)), grouped \in Seq(ToSet(Table)) :
        /\ list = Limited(r, UserUnique(Direct(r) \o keyed \o grouped))
        /\ r.by = "mcp" => Len(keyed) <= MaxKeys
        /\ r.by = "mcp" => Len(grouped) = 0
  BY FoundUsersAre
<1> DEFINE both == Direct(r) \o keyed
           all == both \o grouped
<1>2. Direct(r) \in Seq(S) /\ keyed \in Seq(S) /\ grouped \in Seq(S)
  BY DirectIsSequence, SeqMonotonic
<1> HIDE DEF S
<1>3. both \in Seq(S)
  BY <1>2, ConcatProperties
<1> HIDE DEF both
<1>4. all \in Seq(S)
  BY <1>2, <1>3, ConcatProperties
<1> HIDE DEF all
<1>5. /\ UserUnique(all) \in Seq(S) /\ Distinct(UserUnique(all))
      /\ SomeOf(UserUnique(all), all, Len(all))
  BY <1>4, UserUniqueIsDistinct
<1>6. list = Limited(r, UserUnique(all))
  BY <1>1 DEF all, both
<1>7. /\ list \in Seq(S)
      /\ r.by = "http" => Len(list) <= MaxKeys
      /\ r.by = "http" \/ list = UserUnique(all)
  BY <1>5, <1>6, LimitedKeeps
<1>8. CASE r.by = "http"
  <2>1. Len(list) \in Nat /\ DOMAIN list = 1..Len(list)
    BY <1>7, LenProperties
  <2>2. IsFiniteSet(1..Len(list)) /\ Cardinality(1..Len(list)) = Len(list)
    BY <2>1, PlacesAreFinite
  <2>3. WithKey(list) \in SUBSET (1..Len(list))
    BY <2>1 DEF WithKey
  <2>4. Cardinality(WithKey(list)) <= Len(list) /\ Cardinality(WithKey(list)) \in Nat
    BY <2>2, <2>3, FS_Subset, FS_CardinalityType
  <2> QED BY <1>7, <1>8, <2>1, <2>4, DispatchAssumption
<1>9. CASE r.by = "mcp"
  <2>1. grouped = <<>>
    BY <1>1, <1>2, <1>9, EmptySeq
  <2>2. all = both
    BY <1>3, <2>1, ConcatEmptySeq DEF all
  <2> DEFINE d == Len(Direct(r))
             k == Len(keyed)
  <2>3. /\ d \in Nat /\ k \in Nat /\ Len(both) = d + k
        /\ DOMAIN Direct(r) = 1..d
        /\ \A i \in 1..(d + k) :
             both[i] = IF i <= d THEN Direct(r)[i] ELSE keyed[i - d]
    BY <1>2, ConcatProperties, LenProperties DEF both
  <2>9. SomeOf(list, both, Len(both))
    BY <1>5, <1>7, <1>9, <2>2
  <2>10. \A i \in DOMAIN Direct(r) : Direct(r)[i].key = ""
    BY DirectIsSequence
  <2> HIDE DEF d, k
  <2>11. \A i \in 1..d : i \in 1..(d + k) /\ i <= d
    BY <2>3
  <2>12. \A i \in 1..d : both[i].key = ""
    BY <2>3, <2>10, <2>11
  <2>13. Len(list) \in Nat /\ DOMAIN list = 1..Len(list)
    BY <1>7, LenProperties
  <2>4. Cardinality(WithKey(list)) <= k
    BY <2>3, <2>9, <2>12, <2>13, FoundByKeyAreFew
  <2>5. Len(keyed) \in Nat /\ Len(keyed) <= MaxKeys
    BY <1>1, <1>9, LenProperties
  <2>6. Len(list) \in Nat /\ DOMAIN list = 1..Len(list)
    BY <1>7, LenProperties
  <2>7. IsFiniteSet(WithKey(list))
    BY <2>6, PlacesAreFinite, FS_Subset DEF WithKey
  <2>8. Cardinality(WithKey(list)) \in Nat
    BY <2>7, FS_CardinalityType
  <2> QED BY <2>4, <2>5, <2>8, DispatchAssumption DEF k
<1> QED BY <1>8, <1>9 DEF IsRequest

-----------------------------------------------------------------------------
(* What requests hold *)

\* Requests are what threads are given, and stay so.
Shapes ==
  /\ DOMAIN work = Threads /\ DOMAIN params = Threads
  /\ pc \in [Threads -> {"none", "idle", "lookup", "huawei", "apple", "done"}]
  /\ answer \in [Threads -> {"none"} \cup Answers]

\* The users of a request were found for it; pushes to Apple are theirs.
HoldsUsers(t) ==
  /\ pc[t] = "none" \/ IsRequest(work[t])
  /\ users[t] = <<>> \/ (IsRequest(work[t]) /\ users[t] \in FoundUsers(work[t]))
  /\ DOMAIN apns[t] \in {{}, DOMAIN users[t]}
  /\ ToSet(apns[t]) \subseteq ApnsStates

\* The parameters of a request and the kind of its push come of what it gave; where
\* it pushes, it is of a kind.
HoldsParams(t) ==
  /\ type[t] \in {"none", "0", "alert", "background", "location"}
  /\ pc[t] \in {"lookup", "huawei", "apple"} =>
       /\ params[t] = ParamsNanAndDefault(Collected(work[t]))
       /\ type[t] = PushType(Collected(work[t]))
  /\ pc[t] = "lookup" /\ work[t].by = "http" => type[t] # "0"
  /\ pc[t] \in {"huawei", "apple"} => type[t] # "0"

Holds(t) == HoldsUsers(t) /\ HoldsParams(t)

RequestInv == HandlerInv /\ Shapes /\ \A t \in Threads : Holds(t)

LEMMA RequestInit == DispatchInit => RequestInv
<1> SUFFICES ASSUME DispatchInit PROVE RequestInv
  OBVIOUS
<1>1. PICK s \in Scenarios : work = s.requests
  BY DEF DispatchInit
<1>2. DOMAIN work = Threads /\ \A t \in Threads : work[t] = NoRequest \/ IsRequest(work[t])
  BY <1>1, DispatchAssumption
<1>3. Shapes
  BY <1>2 DEF DispatchInit, Shapes
<1>4. ASSUME NEW t \in Threads PROVE Holds(t)
  <2>1. /\ pc[t] = IF work[t] = NoRequest THEN "none" ELSE "idle"
        /\ type[t] = "none" /\ users[t] = <<>> /\ apns[t] = <<>>
    BY DEF DispatchInit
  <2>2. DOMAIN apns[t] = {} /\ ToSet(apns[t]) = {}
    BY <2>1 DEF ToSet
  <2> QED BY <1>2, <2>1, <2>2 DEF Holds, HoldsUsers, HoldsParams
<1> QED BY <1>3, <1>4, HandlerInit DEF RequestInv

\* What a thread holds is as it was.
HoldingStays(t) ==
  /\ pc'[t] = pc[t] /\ type'[t] = type[t] /\ users'[t] = users[t] /\ apns'[t] = apns[t]
  /\ params'[t] = params[t]

\* It is enough to look at what the thread holds that makes a step.
LEMMA HoldsOfOne ==
  ASSUME RequestInv, HandlerInv', Shapes', NEW t \in Threads, UNCHANGED work,
         \A u \in Threads : u = t \/ HoldingStays(u), Holds(t)'
  PROVE  RequestInv'
<1>1. ASSUME NEW u \in Threads, HoldingStays(u) PROVE Holds(u)'
  BY <1>1 DEF RequestInv, HoldingStays, Holds, HoldsUsers, HoldsParams
<1> QED BY <1>1 DEF RequestInv

LEMMA OutcomeType == \A r, h, a : Outcome(r, h, a) \in Answers
BY DEF Outcome, Answers

LEMMA PushTypes ==
  ASSUME NEW p
  PROVE  PushType(p) \in {"0", "alert", "background", "location"}
BY DEF PushType

LEMMA ArriveHolds ==
  ASSUME RequestInv, HandlerInv', NEW t \in Threads, Arrive(t)
  PROVE  RequestInv'
<1> DEFINE p == Collected(work[t])
<1>1. /\ pc[t] = "idle" /\ UNCHANGED <<work, users, apns>>
      /\ params' = [params EXCEPT ![t] = ParamsNanAndDefault(p)]
      /\ type' = [type EXCEPT ![t] = PushType(p)]
  BY DEF Arrive, Serving
<1>2. \/ /\ PushType(p) = "0" /\ work[t].by = "http" /\ pc' = [pc EXCEPT ![t] = "done"]
         /\ answer' = [answer EXCEPT ![t] = "failed"]
      \/ /\ ~(PushType(p) = "0" /\ work[t].by = "http") /\ pc' = [pc EXCEPT ![t] = "lookup"]
         /\ UNCHANGED answer
  BY DEF Arrive
<1>3. PushType(p) \in {"0", "alert", "background", "location"}
  BY PushTypes
<1> HIDE DEF p
<1>4. DOMAIN params = Threads /\ DOMAIN type = Threads /\ DOMAIN pc = Threads
  BY DEF RequestInv, Shapes, HandlerInv, OfThreads
<1>5. Shapes'
  BY <1>1, <1>2 DEF RequestInv, Shapes, Answers
<1>6. \A u \in Threads : u = t \/ HoldingStays(u)
  BY <1>1, <1>2, <1>4 DEF HoldingStays
<1>7. params'[t] = ParamsNanAndDefault(p) /\ type'[t] = PushType(p)
  BY <1>1, <1>4
<1>8. pc'[t] = "done" \/ (pc'[t] = "lookup" /\ ~(type'[t] = "0" /\ work[t].by = "http"))
  BY <1>2, <1>4, <1>7
<1>9. HoldsUsers(t)'
  <2>1. Holds(t)
    BY DEF RequestInv
  <2> QED BY <1>1, <1>8, <2>1 DEF Holds, HoldsUsers
<1>10. HoldsParams(t)'
  BY <1>1, <1>3, <1>7, <1>8 DEF HoldsParams, p
<1> QED BY <1>1, <1>5, <1>6, <1>9, <1>10, HoldsOfOne DEF Holds

\* A request that goes on to push is of a kind.
LEMMA OnlyKindsArePushed ==
  ASSUME NEW r, r.by \in {"http", "mcp"}, NEW list, NEW kind, r.by = "http" => kind # "0",
         AfterLookup(r, list, kind) # "done"
  PROVE  kind # "0"
<1>1. CASE r.by = "http"
  BY <1>1
<1>2. CASE r.by = "mcp"
  <2> SUFFICES ASSUME kind = "0" PROVE AfterLookup(r, list, kind) = "done"
    OBVIOUS
  <2> QED BY <1>2 DEF AfterLookup
<1> QED BY <1>1, <1>2

LEMMA LookupHolds ==
  ASSUME RequestInv, HandlerInv', NEW t \in Threads, Lookup(t)
  PROVE  RequestInv'
<1> DEFINE next(list) == AfterLookup(work[t], list, type[t])
<1>1. pc[t] = "lookup" /\ UNCHANGED <<work, type, params>>
  BY DEF Lookup, Serving
<1>2. PICK list \in FoundUsers(work[t]) :
        /\ users' = [users EXCEPT ![t] = list]
        /\ pc' = [pc EXCEPT ![t] = next(list)]
        /\ IF next(list) = "apple" THEN ToApple(t, list) ELSE UNCHANGED apns
        /\ answer' = IF next(list) # "done" THEN answer
                     ELSE [answer EXCEPT ![t] = IF work[t].by = "mcp" THEN "failed" ELSE "success"]
  BY DEF Lookup
<1>3. Holds(t) /\ apns[t] = <<>> /\ IsRequest(work[t])
  BY <1>1 DEF RequestInv, HandlerInv, Stages, Holds, HoldsUsers
<1>4. work[t].by \in {"http", "mcp"}
  BY <1>3 DEF IsRequest
<1>5. next(list) \in {"huawei", "apple", "done"}
  BY <1>4, WhereNext
<1>6. next(list) # "done" => type[t] # "0"
  BY <1>1, <1>3, <1>4, OnlyKindsArePushed DEF Holds, HoldsParams
<1> HIDE DEF next
<1>7. /\ DOMAIN users = Threads /\ DOMAIN pc = Threads /\ DOMAIN apns = Threads
      /\ DOMAIN answer = Threads
  BY DEF RequestInv, HandlerInv, OfThreads
<1>8. /\ users'[t] = list /\ pc'[t] = next(list)
      /\ apns'[t] = IF next(list) = "apple" THEN [i \in DOMAIN list |-> "started"] ELSE <<>>
  BY <1>2, <1>3, <1>7 DEF ToApple
<1>9. Shapes'
  BY <1>1, <1>2, <1>5 DEF RequestInv, Shapes, Answers
<1>10. \A u \in Threads : u = t \/ HoldingStays(u)
  BY <1>1, <1>2, <1>7 DEF HoldingStays, ToApple
<1>11. DOMAIN apns'[t] \in {{}, DOMAIN list} /\ ToSet(apns'[t]) \subseteq ApnsStates
  <2>1. CASE next(list) = "apple"
    BY <1>8, <2>1 DEF ToSet, ApnsStates
  <2>2. CASE next(list) # "apple"
    <3>1. apns'[t] = <<>>
      BY <1>8, <2>2
    <3> QED BY <3>1 DEF ToSet
  <2> QED BY <2>1, <2>2
<1>12. HoldsUsers(t)'
  BY <1>1, <1>2, <1>3, <1>8, <1>11 DEF HoldsUsers
<1>13. HoldsParams(t)'
  BY <1>1, <1>3, <1>5, <1>6, <1>8 DEF Holds, HoldsParams
<1> QED BY <1>1, <1>9, <1>10, <1>12, <1>13, HoldsOfOne DEF Holds

LEMMA HuaweiEndsHolds ==
  ASSUME RequestInv, HandlerInv', NEW t \in Threads, NEW result \in Ended, HuaweiEnds(t, result)
  PROVE  RequestInv'
<1>1. pc[t] = "huawei" /\ UNCHANGED <<work, type, users, params>>
  BY DEF HuaweiEnds, Serving
<1>2. \/ /\ pc' = [pc EXCEPT ![t] = "done"] /\ UNCHANGED apns
         /\ \E a \in Answers : answer' = [answer EXCEPT ![t] = a]
      \/ /\ pc' = [pc EXCEPT ![t] = "apple"] /\ UNCHANGED answer
         /\ apns' = [apns EXCEPT ![t] = [i \in DOMAIN users[t] |-> "started"]]
  BY OutcomeType DEF HuaweiEnds, ToApple
<1>3. DOMAIN pc = Threads /\ DOMAIN apns = Threads /\ Holds(t)
  BY DEF RequestInv, HandlerInv, OfThreads
<1>4. Shapes'
  BY <1>1, <1>2 DEF RequestInv, Shapes
<1>5. \A u \in Threads : u = t \/ HoldingStays(u)
  BY <1>1, <1>2, <1>3 DEF HoldingStays
<1>6. \/ pc'[t] = "done" /\ apns'[t] = apns[t]
      \/ pc'[t] = "apple" /\ apns'[t] = [i \in DOMAIN users[t] |-> "started"]
  BY <1>2, <1>3
<1>7. DOMAIN apns'[t] \in {{}, DOMAIN users[t]} /\ ToSet(apns'[t]) \subseteq ApnsStates
  <2>1. CASE apns'[t] = apns[t]
    BY <1>3, <2>1 DEF Holds, HoldsUsers
  <2>2. CASE apns'[t] = [i \in DOMAIN users[t] |-> "started"]
    BY <2>2 DEF ToSet, ApnsStates
  <2> QED BY <1>6, <2>1, <2>2
<1>8. HoldsUsers(t)'
  BY <1>1, <1>3, <1>7 DEF Holds, HoldsUsers
<1>9. HoldsParams(t)'
  BY <1>1, <1>3, <1>6 DEF Holds, HoldsParams
<1> QED BY <1>1, <1>4, <1>5, <1>8, <1>9, HoldsOfOne DEF Holds

LEMMA PushHolds ==
  ASSUME RequestInv, HandlerInv', NEW t \in Threads, NEW i, NEW from, NEW to \in ApnsStates,
         Push(t, i, from, to)
  PROVE  RequestInv'
<1>1. /\ i \in DOMAIN apns[t] /\ UNCHANGED <<work, pc, type, users, params, answer>>
      /\ apns' = [apns EXCEPT ![t] = [apns[t] EXCEPT ![i] = to]]
  BY DEF Push, Goroutines
<1>2. DOMAIN apns = Threads /\ Holds(t)
  BY DEF RequestInv, HandlerInv, OfThreads
<1>3. apns'[t] = [apns[t] EXCEPT ![i] = to]
  BY <1>1, <1>2
<1>4. DOMAIN apns'[t] = DOMAIN apns[t] /\ ToSet(apns'[t]) \subseteq ToSet(apns[t]) \cup {to}
  BY <1>3 DEF ToSet
<1>5. Shapes'
  BY <1>1 DEF RequestInv, Shapes
<1>6. \A u \in Threads : u = t \/ HoldingStays(u)
  BY <1>1, <1>2 DEF HoldingStays
<1>7. HoldsUsers(t)'
  BY <1>1, <1>2, <1>4 DEF Holds, HoldsUsers
<1>8. HoldsParams(t)'
  BY <1>1, <1>2 DEF Holds, HoldsParams
<1> QED BY <1>1, <1>5, <1>6, <1>7, <1>8, HoldsOfOne DEF Holds

LEMMA AnswerHolds ==
  ASSUME RequestInv, HandlerInv', NEW t \in Threads, Answer(t)
  PROVE  RequestInv'
<1>1. /\ pc' = [pc EXCEPT ![t] = "done"] /\ UNCHANGED <<work, type, users, params, apns>>
      /\ \E a \in Answers : answer' = [answer EXCEPT ![t] = a]
  BY OutcomeType DEF Answer
<1>2. DOMAIN pc = Threads /\ Holds(t)
  BY DEF RequestInv, HandlerInv, OfThreads
<1>3. pc'[t] = "done" /\ \A u \in Threads : u = t \/ HoldingStays(u)
  BY <1>1, <1>2 DEF HoldingStays
<1>4. Shapes'
  BY <1>1 DEF RequestInv, Shapes
<1>5. pc[t] = "apple"
  BY DEF Answer, Serving
<1>6. HoldsUsers(t)' /\ HoldsParams(t)'
  BY <1>1, <1>2, <1>3, <1>5 DEF Holds, HoldsUsers, HoldsParams
<1> QED BY <1>1, <1>3, <1>4, <1>6, HoldsOfOne DEF Holds

LEMMA OthersHold ==
  ASSUME RequestInv, HandlerInv', UNCHANGED requestVars
  PROVE  RequestInv'
<1>1. ASSUME NEW t \in Threads PROVE Holds(t)'
  BY DEF RequestInv, Holds, HoldsUsers, HoldsParams, requestVars
<1>2. Shapes'
  BY DEF RequestInv, Shapes, requestVars
<1> QED BY <1>1, <1>2 DEF RequestInv

LEMMA RequestStep == RequestInv /\ [DispatchNext]_vars => RequestInv'
<1> SUFFICES ASSUME RequestInv, [DispatchNext]_vars PROVE RequestInv'
  OBVIOUS
<1>0. HandlerInv'
  BY HandlerStep DEF RequestInv
<1>1. ASSUME NEW t \in Threads, Arrive(t) PROVE RequestInv'
  BY <1>0, <1>1, ArriveHolds
<1>2. ASSUME NEW t \in Threads, Lookup(t) PROVE RequestInv'
  BY <1>0, <1>2, LookupHolds
<1>3. ASSUME NEW t \in Threads, SignIn(t) PROVE RequestInv'
  BY <1>0, <1>3, OthersHold DEF SignIn
<1>4. ASSUME NEW t \in Threads, NEW result \in Ended, HuaweiEnds(t, result) PROVE RequestInv'
  BY <1>0, <1>4, HuaweiEndsHolds
<1>5. ASSUME NEW t \in Threads, NEW i, Goroutine(t, i) PROVE RequestInv'
  <2>1. \E from : \E to \in ApnsStates : Push(t, i, from, to)
    BY <1>5 DEF Goroutine, NoAddress, TakeClient, PutBack, PushEnds, ApnsStates, Ended
  <2> QED BY <1>0, <2>1, PushHolds
<1>6. ASSUME NEW t \in Threads, Answer(t) PROVE RequestInv'
  BY <1>0, <1>6, AnswerHolds
<1>7. CASE StopServing \/ CloseClient \/ Exit \/ Time \/ UNCHANGED vars
  <2>1. UNCHANGED requestVars
    BY <1>7 DEF StopServing, CloseClient, Exit, Time, vars
  <2> QED BY <1>0, <2>1, OthersHold
<1> QED BY <1>1, <1>2, <1>3, <1>4, <1>5, <1>6, <1>7 DEF DispatchNext, GoOnWith

LEMMA DistinctUsersDiffer ==
  ASSUME NEW S, NEW list \in Seq(S), Distinct(list)
  PROVE  \A i, j \in DOMAIN list : i # j => ~Same(list[i], list[j])
<1>1. Len(list) \in Nat /\ DOMAIN list = 1..Len(list)
  BY LenProperties
<1>2. \A i, j \in 1..Len(list) : i = j \/ i < j \/ j < i
  BY <1>1
<1>3. \A u, v : Same(u, v) <=> Same(v, u)
  BY DEF Same
<1> QED BY <1>1, <1>2, <1>3 DEF Distinct

\* However a device is named in a request, by token, by key and by group, in what
\* order, and however often: Apple gets one push to it, of users that share a
\* token, an address for location or one for talk.
THEOREM NobodyIsEverPushedTwice == DispatchSpec => []NobodyIsPushedTwice
<1>1. RequestInv => NobodyIsPushedTwice
  <2> SUFFICES ASSUME RequestInv, NEW t \in Threads
               PROVE  \A i, j \in DOMAIN apns[t] : i # j => ~Same(users[t][i], users[t][j])
    BY DEF NobodyIsPushedTwice
  <2>1. DOMAIN apns[t] \subseteq DOMAIN users[t]
    BY DEF RequestInv, Holds, HoldsUsers
  <2>2. CASE users[t] = <<>>
    <3>1. DOMAIN users[t] = {}
      BY <2>2
    <3> QED BY <2>1, <3>1
  <2>3. CASE IsRequest(work[t]) /\ users[t] \in FoundUsers(work[t])
    <3>1. /\ users[t] \in Seq(ToSet(Table) \cup ByToken(work[t]))
          /\ Distinct(users[t])
      BY <2>3, FoundUsersAreDistinct
    <3>2. \A i, j \in DOMAIN users[t] : i # j => ~Same(users[t][i], users[t][j])
      BY <3>1, DistinctUsersDiffer
    <3> QED BY <2>1, <3>2
  <2> QED BY <2>2, <2>3 DEF RequestInv, Holds, HoldsUsers
<1> QED BY RequestInit, RequestStep, <1>1, PTL DEF DispatchSpec

\* Whoever is not an admin reaches no more devices by key than the limit, which
\* BasePush sets on users and the tool on keys.
THEOREM LimitAlwaysHolds == DispatchSpec => []LimitHolds
<1>1. RequestInv => LimitHolds
  <2> SUFFICES ASSUME RequestInv, NEW t \in Threads, ~work[t].admin
               PROVE  Cardinality(WithKey(users[t])) <= MaxKeys
    BY DEF LimitHolds, WithKey
  <2>1. CASE users[t] = <<>>
    <3>1. WithKey(users[t]) = {}
      BY <2>1 DEF WithKey
    <3> QED BY <3>1, FS_EmptySet, DispatchAssumption
  <2>2. CASE IsRequest(work[t]) /\ users[t] \in FoundUsers(work[t])
    BY <2>2, FoundUsersAreLimited
  <2> QED BY <2>1, <2>2 DEF RequestInv, Holds, HoldsUsers
<1> QED BY RequestInit, RequestStep, <1>1, PTL DEF DispatchSpec

-----------------------------------------------------------------------------
(* What parameters become *)

\* q is p but for some names.
KeepsBut(p, q, names) ==
  \A n : n \in names \/ ((Given(q, n) <=> Given(p, n)) /\ (Given(p, n) => q[n] = p[n]))

LEMMA OverGives ==
  ASSUME NEW p, NEW q
  PROVE  /\ \A n : Given(Over(p, q), n) <=> Given(p, n) \/ Given(q, n)
         /\ \A n : Given(p, n) => Over(p, q)[n] = p[n]
         /\ \A n : Given(q, n) /\ ~Given(p, n) => Over(p, q)[n] = q[n]
BY DEF Over, Given

LEMMA SetGives ==
  ASSUME NEW p, NEW name, NEW value
  PROVE  /\ Given(Set(p, name, value), name) /\ Set(p, name, value)[name] = value
         /\ KeepsBut(p, Set(p, name, value), {name})
BY DEF Set, Over, Given, KeepsBut

LEMMA WithBodyGives ==
  ASSUME NEW p
  PROVE  /\ KeepsBut(p, WithBody(p), {"body"})
         /\ (\E n \in {"title", "subtitle", "body", "ciphertext", "image"} : ~Nan(p, n)) =>
              \E n \in {"title", "subtitle", "body"} : ~Nan(WithBody(p), n)
<1> DEFINE b == Set(p, "body", "-")
           missing == /\ ~Nan(p, "ciphertext") \/ ~Nan(p, "image")
                      /\ \A n \in {"title", "subtitle", "body"} : Nan(p, n)
<1>1. CASE missing
  <2>1. WithBody(p) = b
    BY <1>1 DEF WithBody
  <2>2. KeepsBut(p, b, {"body"}) /\ Given(b, "body") /\ b["body"] = "-"
    BY SetGives
  <2>3. ~Nan(b, "body")
    BY <2>2 DEF Nan, Null
  <2> QED BY <2>1, <2>2, <2>3
<1>2. CASE ~missing
  <2>1. WithBody(p) = p
    BY <1>2 DEF WithBody
  <2>2. KeepsBut(p, p, {"body"})
    BY DEF KeepsBut
  <2> QED BY <1>2, <2>1, <2>2
<1> QED BY <1>1, <1>2

\* What is filled in has a value.
LEMMA FilledGives ==
  ASSUME NEW p
  PROVE  /\ KeepsBut(p, Filled(p), {"autocopy", "level", "id"})
         /\ ~Nan(Filled(p), "id")
<1> DEFINE missing == {n \in DOMAIN Default : Nan(p, n)}
           defaults == [n \in missing |-> Default[n]]
<1>1. DOMAIN Default = {"autocopy", "level", "id"} /\ Default["id"] = "uuid"
  BY DEF Default
<1>2. DOMAIN defaults = missing /\ \A n \in missing : defaults[n] = Default[n]
  OBVIOUS
<1>3. Filled(p) = Over(defaults, p)
  BY DEF Filled
<1>4. \A n : n \in missing <=> n \in {"autocopy", "level", "id"} /\ Nan(p, n)
  BY <1>1
<1> HIDE DEF defaults, missing
<1>5. KeepsBut(p, Filled(p), {"autocopy", "level", "id"})
  BY <1>2, <1>3, <1>4, OverGives DEF KeepsBut, Given
<1>6. ~Nan(Filled(p), "id")
  <2>1. CASE Nan(p, "id")
    <3>1. Given(Filled(p), "id") /\ Filled(p)["id"] = "uuid"
      BY <1>1, <1>2, <1>3, <1>4, <2>1, OverGives DEF Given
    <3> QED BY <3>1 DEF Nan, Null
  <2>2. CASE ~Nan(p, "id")
    <3>1. ~Given(defaults, "id") /\ Given(p, "id")
      BY <1>2, <1>4, <2>2 DEF Given, Nan
    <3>2. Given(Filled(p), "id") /\ Filled(p)["id"] = p["id"]
      BY <1>3, <3>1, OverGives
    <3> QED BY <2>2, <3>2 DEF Nan
  <2> QED BY <2>1, <2>2
<1> QED BY <1>5, <1>6

LEMMA WithDefaultsGives ==
  ASSUME NEW p
  PROVE  /\ KeepsBut(p, WithDefaults(p), {"autocopy", "level", "id", "category"})
         /\ ~Nan(WithDefaults(p), "id")
         /\ Valid(GetString(WithDefaults(p), "category"))
<1> DEFINE q == Filled(p)
           c == Set(q, "category", "myNotificationCategory")
<1>1. KeepsBut(p, q, {"autocopy", "level", "id"}) /\ ~Nan(q, "id")
  BY FilledGives
<1>2. WithDefaults(p) = IF Valid(GetString(q, "category")) THEN q ELSE c
  BY DEF WithDefaults
<1> HIDE DEF q
<1>3. /\ KeepsBut(q, c, {"category"}) /\ Given(c, "category")
      /\ c["category"] = "myNotificationCategory"
  BY SetGives
<1> HIDE DEF c
<1>4. ~Nan(c, "id") /\ Valid(GetString(c, "category"))
  BY <1>1, <1>3 DEF KeepsBut, Nan, GetString, Printed, Null, Valid
<1>5. /\ KeepsBut(p, q, {"autocopy", "level", "id", "category"})
      /\ KeepsBut(p, c, {"autocopy", "level", "id", "category"})
  BY <1>1, <1>3 DEF KeepsBut
<1> QED BY <1>1, <1>2, <1>4, <1>5

\* What is not null nor empty is printed as it is.
LEMMA NotNanIsShown ==
  ASSUME NEW p, NEW n, ~Nan(p, n)
  PROVE  GetString(p, n) # ""
BY DEF Nan, GetString, Printed, Null

\* The parameters of a push of some kind have an id and a valid category, an alert
\* has something to show.
LEMMA CompletedParams ==
  ASSUME NEW p, PushType(p) # "0"
  PROVE  LET q == ParamsNanAndDefault(p)
         IN  /\ GetString(q, "id") # "" /\ Valid(GetString(q, "category"))
             /\ PushType(p) = "alert" =>
                  \E n \in {"title", "subtitle", "body"} : GetString(q, n) # ""
             /\ KeepsBut(p, q, {"autocopy", "level", "id", "category", "body"})
<1> DEFINE b == WithBody(p)
           q == WithDefaults(b)
           names == {"title", "subtitle", "body"}
<1>1. ParamsNanAndDefault(p) = q
  BY DEF ParamsNanAndDefault
<1>2. /\ KeepsBut(p, b, {"body"})
      /\ (\E n \in {"title", "subtitle", "body", "ciphertext", "image"} : ~Nan(p, n)) =>
           \E n \in names : ~Nan(b, n)
  BY WithBodyGives
<1> HIDE DEF b
<1>3. /\ KeepsBut(b, q, {"autocopy", "level", "id", "category"})
      /\ ~Nan(q, "id") /\ Valid(GetString(q, "category"))
  BY WithDefaultsGives
<1> HIDE DEF q
<1>4. KeepsBut(p, q, {"autocopy", "level", "id", "category", "body"})
  BY <1>2, <1>3 DEF KeepsBut
<1>5. ASSUME PushType(p) = "alert" PROVE \E n \in names : GetString(q, n) # ""
  <2>1. \E n \in {"title", "subtitle", "body", "ciphertext", "image"} : ~Nan(p, n)
    <3> SUFFICES ASSUME \A n \in {"title", "subtitle", "body", "ciphertext", "image"} : Nan(p, n)
                 PROVE  PushType(p) # "alert"
      BY <1>5
    <3> QED BY DEF PushType
  <2>2. PICK n \in names : ~Nan(b, n)
    BY <1>2, <2>1
  <2>3. ~Nan(q, n)
    BY <1>3, <2>2 DEF KeepsBut, Nan
  <2> QED BY <2>2, <2>3, NotNanIsShown
<1> QED BY <1>1, <1>3, <1>4, <1>5, NotNanIsShown

-----------------------------------------------------------------------------
(* Sounds *)

\* A sound that is given is a sequence of its parts.
SoundIsParts(p) == Given(p, "sound") => IsSequence(p["sound"])

\* It has a part, too.
HasSound(p) == Given(p, "sound") => IsSequence(p["sound"]) /\ p["sound"] # <<>>

\* The last part of a sound is added or taken off, and something is left.
LEMMA SoundsAreNotEmpty ==
  ASSUME NEW sound, IsSequence(sound)
  PROVE  /\ IsSequence(Append(sound, "caf")) /\ Append(sound, "caf") # <<>>
         /\ IsCaf(sound) => sound # <<>>
         /\ sound # <<>> => normalizeSound(sound) # <<>>
<1> DEFINE S == ToSet(sound)
           more == Append(sound, "caf")
<1>1. sound \in Seq(S)
  BY DEF IsSequence
<1>2. Len(sound) \in Nat /\ (sound # <<>> => Len(sound) > 0) /\ Len(<<>>) = 0
  BY <1>1, LenProperties, EmptySeq
<1>3. /\ more \in Seq(S \cup {"caf"}) /\ Len(more) = Len(sound) + 1
      /\ DOMAIN more = 1..Len(more)
  <2>1. sound \in Seq(S \cup {"caf"})
    BY <1>1, SeqMonotonic
  <2> QED BY <2>1, AppendProperties, LenProperties
<1> HIDE DEF more
<1>4. \A n \in DOMAIN more : more[n] \in ToSet(more)
  BY DEF ToSet
<1>5. more \in Seq(ToSet(more)) /\ more # <<>>
  <2>1. Len(more) \in Nat
    BY <1>2, <1>3
  <2>2. more \in [1..Len(more) -> ToSet(more)]
    BY <1>3, <1>4, LenProperties
  <2>3. more \in Seq(ToSet(more))
    BY <2>1, <2>2, FunctionIsSequence
  <2> QED BY <1>2, <1>3, <2>3
<1>6. IsCaf(sound) => sound # <<>>
  BY <1>2 DEF IsCaf
<1>7. ASSUME sound # <<>> PROVE normalizeSound(sound) # <<>>
  <2> DEFINE bare == IF IsCaf(sound) THEN Front(sound) ELSE sound
  <2>1. bare \in Seq(S) /\ Len(bare) > 0
    <3>1. CASE IsCaf(sound)
      <4>1. Len(sound) > 1
        BY <3>1 DEF IsCaf
      <4>2. \A i \in 1..(Len(sound) - 1) : sound[i] \in S
        BY <1>1, <1>2, ElementOfSeq
      <4>3. SubSeq(sound, 1, Len(sound) - 1) \in Seq(S)
            /\ Len(SubSeq(sound, 1, Len(sound) - 1)) = Len(sound) - 1
        BY <1>2, <4>1, <4>2, SubSeqProperties
      <4> QED BY <1>2, <3>1, <4>1, <4>3 DEF Front
    <3>2. CASE ~IsCaf(sound)
      BY <1>1, <1>2, <1>7, <3>2
    <3> QED BY <3>1, <3>2
  <2>2. normalizeSound(sound) = IF Len(bare) = 1 THEN Append(bare, "mp3") ELSE bare
    BY DEF normalizeSound
  <2> HIDE DEF bare
  <2> DEFINE longer == Append(bare, "mp3")
  <2>3. bare # <<>> /\ Len(bare) \in Nat
    BY <1>2, <2>1, LenProperties
  <2>4. Len(longer) = Len(bare) + 1
    <3>1. bare \in Seq(S \cup {"mp3"})
      BY <2>1, SeqMonotonic
    <3> QED BY <3>1, AppendProperties
  <2> HIDE DEF longer
  <2>5. longer # <<>>
    BY <1>2, <2>3, <2>4
  <2> QED BY <2>2, <2>3, <2>5 DEF longer
<1> QED BY <1>5, <1>6, <1>7 DEF more, IsSequence

\* A request gives its sound by query or in its body, or by the tool.
LEMMA GivenSoundIsParts ==
  ASSUME NEW r, IsRequest(r)
  PROVE  /\ SoundIsParts(Arguments(r))
         /\ SoundIsParts(HandlerParamsToMapOrder(r))
<1>1. SoundIsParts(r.posted) /\ SoundIsParts(r.query)
  BY DEF IsRequest, SoundIsParts
<1>2. SoundIsParts(Arguments(r))
  BY <1>1 DEF SoundIsParts, Arguments, Given
<1> DEFINE host == IF r.admin THEN [host |-> "address"] ELSE <<>>
           path == FromPath(r.path)
<1>3. ~Given(host, "sound")
  <2>1. CASE r.admin
    BY <2>1 DEF Given
  <2>2. CASE ~r.admin
    BY <2>2 DEF Given
  <2> QED BY <2>1, <2>2
<1>4. ~Given(path, "sound")
  <2>1. CASE r.path = <<>>
    BY <2>1 DEF FromPath, Given
  <2>2. CASE Len(r.path) \in DOMAIN PathNames /\ r.path # <<>>
    <3> DEFINE n == Len(r.path)
    <3>1. PathNames = <<<<"body">>, <<"title", "body">>, <<"title", "subtitle", "body">>>>
      BY DEF PathNames
    <3>4. DOMAIN PathNames = 1..3
      BY <3>1
    <3>5. /\ ToSet(PathNames[1]) = {"body"} /\ ToSet(PathNames[2]) = {"title", "body"}
          /\ ToSet(PathNames[3]) = {"title", "subtitle", "body"}
      BY <3>1 DEF ToSet
    <3> HIDE DEF n
    <3>6. n \in 1..3
      BY <2>2, <3>4 DEF n
    <3>7. n = 1 \/ n = 2 \/ n = 3
      BY <3>6
    <3>2. "sound" \notin ToSet(PathNames[n])
      BY <3>5, <3>7
    <3>3. DOMAIN path = ToSet(PathNames[Len(r.path)])
      BY <2>2 DEF FromPath
    <3> QED BY <3>2, <3>3 DEF Given, n
  <2> QED BY <2>1, <2>2 DEF IsRequest
<1> HIDE DEF host, path
<1>5. HandlerParamsToMapOrder(r) = Over(r.posted, Over(r.query, Over(path, host)))
  BY DEF HandlerParamsToMapOrder, host, path
<1>6. ~Given(Over(path, host), "sound")
  BY <1>3, <1>4, OverGives
<1>7. SoundIsParts(Over(r.query, Over(path, host)))
  BY <1>1, <1>6, OverGives DEF SoundIsParts
<1>8. SoundIsParts(Over(r.posted, Over(r.query, Over(path, host))))
  BY <1>1, <1>7, OverGives DEF SoundIsParts
<1> QED BY <1>2, <1>5, <1>8

\* Forms that are convenient leave a sound as it is, but for its suffix.
LEMMA ConvenientSound ==
  ASSUME NEW p, SoundIsParts(p)
  PROVE  HasSound(ConvenientParamsHandler(p))
<1>1. SoundIsParts(FromAlias(p))
  <2> DEFINE given == SelectSeq(Aliases, LAMBDA alias : Given(p, alias))
             rest == Without(p, {given[1]})
  <2>1. FromAlias(p) = p \/ FromAlias(p) = Set(rest, "body", Printed(p[given[1]]))
    BY DEF FromAlias
  <2>2. SoundIsParts(rest)
    BY DEF SoundIsParts, Without, Given
  <2> HIDE DEF given, rest
  <2>3. SoundIsParts(Set(rest, "body", Printed(p[given[1]])))
    BY <2>2, SetGives DEF SoundIsParts, KeepsBut
  <2> QED BY <2>1, <2>3
<1> DEFINE q == FromAlias(p)
<1> HIDE DEF q
<1>2. SoundIsParts(q)
  BY <1>1 DEF q
<1>3. SoundIsParts(FromMarkdown(q))
  <2> DEFINE given == SelectSeq(<<"md", "markdown">>, LAMBDA name : Given(q, name))
             rest == Without(q, {"md", "markdown"})
             marked == [body |-> Printed(q[given[1]]), style |-> "markdown",
                        category |-> IF Valid(GetString(q, "category")) THEN q.category ELSE "markdown"]
  <2>1. FromMarkdown(q) = q \/ FromMarkdown(q) = Over(marked, rest)
    BY DEF FromMarkdown
  <2>2. SoundIsParts(rest)
    BY <1>2 DEF SoundIsParts, Without, Given
  <2>3. ~Given(marked, "sound")
    BY DEF Given
  <2> HIDE DEF given, rest, marked
  <2>4. SoundIsParts(Over(marked, rest))
    BY <2>2, <2>3, OverGives DEF SoundIsParts
  <2> QED BY <1>2, <2>1, <2>4
<1> DEFINE m == FromMarkdown(q)
           sound == Append(m["sound"], "caf")
<1> HIDE DEF m
<1>4. SoundIsParts(m)
  BY <1>3 DEF m
<1>5. HasSound(WithSuffix(m))
  <2>1. CASE Given(m, "sound") /\ ~IsCaf(m["sound"])
    <3>1. IsSequence(sound) /\ sound # <<>>
      BY <1>4, <2>1, SoundsAreNotEmpty DEF SoundIsParts
    <3>2. WithSuffix(m) = Set(m, "sound", sound)
      BY <2>1 DEF WithSuffix
    <3> HIDE DEF sound
    <3>3. Set(m, "sound", sound)["sound"] = sound
      BY DEF Set, Over
    <3>4. WithSuffix(m)["sound"] = sound
      BY <3>2, <3>3
    <3> QED BY <3>1, <3>4 DEF HasSound
  <2>2. CASE ~(Given(m, "sound") /\ ~IsCaf(m["sound"]))
    <3>1. WithSuffix(m) = m
      BY <2>2 DEF WithSuffix
    <3> QED BY <1>4, <2>2, <3>1, SoundsAreNotEmpty DEF SoundIsParts, HasSound
  <2> QED BY <2>1, <2>2
<1> QED BY <1>5 DEF ConvenientParamsHandler, m, q

LEMMA CollectedSound ==
  ASSUME NEW r, IsRequest(r)
  PROVE  HasSound(Collected(r))
<1>1. CASE r.by = "mcp"
  <2>1. Collected(r) = ConvenientParamsHandler(Arguments(r))
    BY <1>1 DEF Collected
  <2> QED BY <2>1, GivenSoundIsParts, ConvenientSound
<1>2. CASE r.by # "mcp"
  <2>1. Collected(r) = ConvenientParamsHandler(HandlerParamsToMapOrder(r))
    BY <1>2 DEF Collected
  <2> QED BY <2>1, GivenSoundIsParts, ConvenientSound
<1> QED BY <1>1, <1>2

-----------------------------------------------------------------------------
(* What is pushed *)

\* A call rings with its own sound, or with that of calls.
LEMMA RingsHaveSounds ==
  ASSUME NEW p, HasSound(p), Rings(p)
  PROVE  HuaweiSound(p) # <<>>
<1>1. CASE Given(p, "sound")
  <2>1. HuaweiSound(p) = normalizeSound(p["sound"])
    BY <1>1 DEF HuaweiSound
  <2> QED BY <1>1, <2>1, SoundsAreNotEmpty DEF HasSound
<1>2. CASE ~Given(p, "sound")
  <2>1. HuaweiSound(p) = <<"call", "mp3">>
    BY <1>2 DEF HuaweiSound
  <2> QED BY <2>1
<1> QED BY <1>1, <1>2

LEMMA ShownByApple ==
  ASSUME NEW p, NEW kind
  PROVE  LET note == ApnsNotification(p, kind)
         IN  /\ note.collapse = GetString(p, "id")
             /\ kind = "alert" =>
                  /\ note.shown = {GetString(p, n) : n \in {"title", "subtitle", "body"}}
                  /\ note.category = GetString(p, "category")
BY DEF ApnsNotification

LEMMA ZeroIsLeast == ~(0 > 0)
OBVIOUS

\* With an id, no push is refused; and it rings only with a sound.
LEMMA AskedOfHuawei ==
  ASSUME NEW p, NEW kind, GetString(p, "id") # "", HasSound(p)
  PROVE  LET request == HuaweiRequest(p, kind)
         IN  /\ request.kind \in {"send", "revoke"}
             /\ request.kind = "send" /\ request.duration > 0 => request.sound # <<>>
<1> DEFINE request == HuaweiRequest(p, kind)
<1>1. CASE kind = "background"
  <2>1. request = [kind |-> "revoke", notifyId |-> GetString(p, "id")]
    BY <1>1 DEF HuaweiRequest
  <2> HIDE DEF request
  <2>2. request.kind = "revoke"
    BY <2>1
  <2> QED BY <2>2 DEF request
<1>2. CASE kind # "background"
  <2> DEFINE duration == IF Rings(p) THEN p["call"] ELSE 0
  <2>1. request =
          [kind |-> "send", notifyId |-> GetString(p, "id"), sound |-> HuaweiSound(p),
           duration |-> duration]
    BY <1>2 DEF HuaweiRequest
  <2> HIDE DEF duration, request
  <2>2. request.kind = "send" /\ request.duration = duration /\ request.sound = HuaweiSound(p)
    BY <2>1
  <2>3. duration > 0 => Rings(p)
    <3> SUFFICES ASSUME ~Rings(p) PROVE ~(duration > 0)
      OBVIOUS
    <3>1. duration = 0
      BY DEF duration
    <3> QED BY <3>1, ZeroIsLeast, Zenon
  <2>4. request.kind \in {"send", "revoke"}
    BY <2>2
  <2>5. request.duration > 0 => request.sound # <<>>
    BY <2>2, <2>3, RingsHaveSounds
  <2> QED BY <2>4, <2>5 DEF request
<1> QED BY <1>1, <1>2

\* Whatever combination of aliases, nulls and empty texts a request gives: what goes
\* out can be shown, found again by its id, and heard if it is to ring.
THEOREM PushesStayWellFormed == DispatchSpec => []PushesAreWellFormed
<1>1. RequestInv => PushesAreWellFormed
  <2> SUFFICES ASSUME RequestInv, NEW t \in Threads, pc[t] \in {"huawei", "apple"}
               PROVE  LET note == ApnsNotification(params[t], type[t])
                          request == HuaweiRequest(params[t], type[t])
                      IN  /\ note.collapse # ""
                          /\ type[t] = "alert" => note.shown # {""} /\ Valid(note.category)
                          /\ request.kind \in {"send", "revoke"}
                          /\ request.kind = "send" /\ request.duration > 0 =>
                               request.sound # <<>>
    BY DEF PushesAreWellFormed
  <2> DEFINE p == Collected(work[t])
             q == ParamsNanAndDefault(p)
             names == {"title", "subtitle", "body"}
  <2>1. IsRequest(work[t]) /\ type[t] # "0" /\ type[t] = PushType(p) /\ params[t] = q
    BY DEF RequestInv, Holds, HoldsUsers, HoldsParams
  <2>2. HasSound(p)
    BY <2>1, CollectedSound
  <2> HIDE DEF p
  <2>3. /\ GetString(q, "id") # "" /\ Valid(GetString(q, "category"))
        /\ PushType(p) = "alert" => \E n \in names : GetString(q, n) # ""
        /\ KeepsBut(p, q, {"autocopy", "level", "id", "category", "body"})
    BY <2>1, CompletedParams
  <2> HIDE DEF q
  <2>4. HasSound(q)
    BY <2>2, <2>3 DEF HasSound, KeepsBut
  <2>5. type[t] = "alert" => {GetString(q, n) : n \in names} # {""}
    BY <2>1, <2>3
  <2> DEFINE note == ApnsNotification(params[t], type[t])
             request == HuaweiRequest(params[t], type[t])
  <2>6. /\ note.collapse # ""
        /\ type[t] = "alert" => note.shown # {""} /\ Valid(note.category)
    <3>1. params[t] = q
      BY <2>1
    <3>2. note.collapse = GetString(q, "id")
      BY <3>1, ShownByApple
    <3>3. type[t] = "alert" => /\ note.shown = {GetString(q, n) : n \in names}
                               /\ note.category = GetString(q, "category")
      BY <3>1, ShownByApple
    <3> QED BY <2>3, <2>5, <3>2, <3>3
  <2>7. /\ request.kind \in {"send", "revoke"}
        /\ request.kind = "send" /\ request.duration > 0 => request.sound # <<>>
    BY <2>1, <2>3, <2>4, AskedOfHuawei
  <2> QED BY <2>6, <2>7
<1> QED BY RequestInit, RequestStep, <1>1, PTL DEF DispatchSpec

-----------------------------------------------------------------------------
(* Types *)

\* The process goes one way, with no more clients to close than there are.
Lives == left <= Clients /\ life \in {"serving", "draining", "down"}

TypeInv == TokenTypeOK /\ PoolInv /\ RequestInv /\ Lives

LEMMA TypeInit == DispatchInit => TypeInv
<1> SUFFICES ASSUME DispatchInit PROVE TypeInv
  OBVIOUS
<1>1. TokenTypeOK
  BY TokenInitTypes DEF DispatchInit
<1>2. Lives
  BY DispatchAssumption DEF DispatchInit, Lives
<1> QED BY <1>1, <1>2, PoolInit, RequestInit DEF TypeInv

LEMMA PoolIsSmall ==
  ASSUME PoolInv
  PROVE  pool \in 0..Clients /\ left \in Nat
<1>1. Cardinality(Held) \in Nat
  BY FS_CardinalityType DEF PoolInv
<1> QED BY <1>1, DispatchAssumption DEF PoolInv, PoolIsWhole

LEMMA TypeStep == TypeInv /\ [DispatchNext]_vars => TypeInv'
<1> SUFFICES ASSUME TypeInv, [DispatchNext]_vars PROVE TypeInv'
  OBVIOUS
<1>1. TokenTypeOK'
  BY TokenTypesKept, DispatchStepsAskForTokens DEF TypeInv
<1>2. PoolInv' /\ RequestInv'
  BY PoolStep, RequestStep DEF TypeInv
<1>3. pool \in 0..Clients /\ left \in Nat
  BY PoolIsSmall DEF TypeInv
<1>4. Lives'
  <2>1. CASE StopServing
    BY <1>3, <2>1, DispatchAssumption DEF StopServing, Lives
  <2>2. CASE CloseClient
    BY <1>3, <2>2, DispatchAssumption DEF CloseClient, Lives, TypeInv
  <2>3. CASE Exit
    BY <2>3 DEF Exit, Lives, TypeInv
  <2>4. ASSUME \/ \E t \in Threads : Arrive(t) \/ GoOnWith(t)
               \/ Time \/ UNCHANGED vars
        PROVE  Lives'
    <3>1. UNCHANGED <<left, life>>
      BY <2>4 DEF Arrive, GoOnWith, Lookup, SignIn, HuaweiEnds, Goroutine, NoAddress, TakeClient,
                  PutBack, PushEnds, Push, Answer, Time, processVars, vars
    <3> QED BY <3>1 DEF Lives, TypeInv
  <2> QED BY <2>1, <2>2, <2>3, <2>4 DEF DispatchNext
<1> QED BY <1>1, <1>2, <1>4 DEF TypeInv

\* Requests, their handlers and goroutines, the pool and the process are of the types
\* stated; what a handler pushes to are devices, or tokens the requests name.
THEOREM DispatchTypesHold == DispatchSpec => []DispatchTypeOK
<1> DEFINE Named ==
      {[key |-> "", token |-> k, talk |-> "", location |-> "", group |-> "", os |-> ""] :
         k \in UNION {ToSet(work[u].tokens) : u \in {u \in Threads : work[u] # NoRequest}}}
<1>1. TypeInv => DispatchTypeOK
  <2> SUFFICES ASSUME TypeInv PROVE DispatchTypeOK
    OBVIOUS
  <2>1. /\ TokenTypeOK /\ Shapes /\ OfThreads
        /\ \A t \in Threads : HoldsUsers(t) /\ HoldsParams(t)
    BY DEF TypeInv, RequestInv, HandlerInv, Holds
  <2>2. pool \in 0..Clients /\ left \in 0..Clients /\ life \in {"serving", "draining", "down"}
    BY PoolIsSmall, DispatchAssumption DEF TypeInv, Lives
  <2>3. ASSUME NEW t \in Threads PROVE ToSet(users[t]) \subseteq ToSet(Table) \cup Named
    <3>1. CASE users[t] = <<>>
      <4>1. ToSet(users[t]) = {}
        BY <3>1 DEF ToSet
      <4> QED BY <4>1
    <3>2. CASE IsRequest(work[t]) /\ users[t] \in FoundUsers(work[t])
      <4>1. users[t] \in Seq(ToSet(Table) \cup ByToken(work[t]))
        BY <3>2, FoundUsersAreDistinct
      <4>2. work[t] # NoRequest
        BY <3>2 DEF IsRequest, NoRequest
      <4>3. ByToken(work[t]) \subseteq Named
        BY <4>2 DEF ByToken
      <4> HIDE DEF Named
      <4>4. \A i \in DOMAIN users[t] : users[t][i] \in ToSet(Table) \cup ByToken(work[t])
        <5> DEFINE S == ToSet(Table) \cup ByToken(work[t])
                   list == users[t]
        <5> HIDE DEF S, list
        <5>1. list \in Seq(S) => \A i \in DOMAIN list : list[i] \in S
          BY LenProperties, ElementOfSeq
        <5> QED BY <4>1, <5>1 DEF S, list
      <4> QED BY <4>3, <4>4 DEF ToSet
    <3> QED BY <2>1, <3>1, <3>2 DEF HoldsUsers
  <2>4. /\ huawei \in [Threads -> {"none"} \cup Ended] /\ DOMAIN work = Threads
        /\ pc \in [Threads -> {"none", "idle", "lookup", "huawei", "apple", "done"}]
        /\ answer \in [Threads -> {"none"} \cup Answers]
    BY <2>1 DEF Shapes, OfThreads
  <2>5. \A t \in Threads : /\ type[t] \in {"none", "0", "alert", "background", "location"}
                           /\ DOMAIN apns[t] \in {{}, DOMAIN users[t]}
                           /\ ToSet(apns[t]) \subseteq ApnsStates
    BY <2>1 DEF HoldsUsers, HoldsParams
  <2> QED BY <2>1, <2>2, <2>3, <2>4, <2>5 DEF DispatchTypeOK
<1> QED BY TypeInit, TypeStep, <1>1, PTL DEF DispatchSpec
=============================================================================
