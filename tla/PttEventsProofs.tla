-------------------------- MODULE PttEventsProofs --------------------------
(***************************************************************************)
(* Theorems about the event streams of PttEvents, for any users, channels, *)
(* goroutines, connections and lengths of the buffers.                     *)
(***************************************************************************)
EXTENDS PttEvents, PttRegistryProofs, SequenceTheorems

-----------------------------------------------------------------------------
(* The registry inside *)

\* What a step of the registry is not, leaves the registry alone.
LEMMA StepsRunTheRegistry == [EventsNext]_vars => [RegistryNext]_registry
<1> SUFFICES ASSUME [EventsNext]_vars PROVE [RegistryNext]_registry
  OBVIOUS
<1>1. ASSUME NEW t \in Threads, Requested(t) \/ Serving(t) \/ MapRace(t)
      PROVE  RegistryNext
  BY <1>1 DEF Requested, Serving, MapRace, RegistryNext
<1>2. ASSUME NEW t \in Threads, Broadcasting(t)
      PROVE  [RegistryNext]_registry
  BY <1>2 DEF Broadcasting, Collect, Offer, Return, Panic, RegistryNext
<1>3. ASSUME NEW s \in Conns, Handler(s)
      PROVE  [RegistryNext]_registry
  <2>1. s \in Readers
    BY EventsAssumption
  <2>2. CASE SnapshotLock(s) \/ SnapshotDone(s) \/ SnapshotFails(s)
    BY <2>1, <2>2 DEF SnapshotLock, SnapshotDone, SnapshotFails, RegistryNext
  <2>3. CASE Leave(s)
    BY <2>3 DEF Leave
  <2>4. ASSUME NEW c \in Chans, Subscribe(s, c) \/ Unlink(s, c) \/ CloseBuffer(s, c)
        PROVE  UNCHANGED registry
    BY <2>4 DEF Subscribe, Unlink, CloseBuffer
  <2> QED BY <1>3, <2>2, <2>3, <2>4 DEF Handler
<1>4. ASSUME NEW s \in Conns, Client(s)
      PROVE  UNCHANGED registry
  BY <1>4 DEF Client, Open, SnapshotFrame, Deliver, HangUp
<1>5. ASSUME NEW s \in Conns, NEW c \in Chans, FanIn(s, c)
      PROVE  UNCHANGED registry
  BY <1>5 DEF FanIn, FanReceive, FanForward, FanEnds, FanMoves
<1>6. CASE UNCHANGED vars
  BY <1>6 DEF vars
<1> QED BY <1>1, <1>2, <1>3, <1>4, <1>5, <1>6 DEF EventsNext

\* Streams do not disturb the registry: with the broadcasts and the snapshots in
\* detail it still runs as PttRegistry says, so what is proved of it holds here.
THEOREM StreamsRunTheRegistry == EventsSpec => RegistrySpec
<1>1. EventsInit => RegistryInit
  BY DEF EventsInit
<1> QED BY <1>1, StepsRunTheRegistry, PTL DEF EventsSpec, RegistrySpec

\* The rosters that snapshots are made of stay the inverse of the users' channels.
THEOREM MapsStayInverseUnderStreams == EventsSpec => []MapsAreInverse
BY StreamsRunTheRegistry, MapsStayInverse, PTL

-----------------------------------------------------------------------------
(* Types *)

\* A goroutine that is inside Broadcast has still this broadcast to announce.
CastersAnnounce ==
  \A t \in Threads : casting[t] # {} => pc[t] = "publish" /\ news[t] # Silence

\* Steps of the registry keep a broadcast in place.
LEMMA CastersGoOn ==
  ASSUME TypeOK, EventsTypeOK, CastersAnnounce, [EventsNext]_vars
  PROVE  CastersAnnounce'
<1>1. ASSUME NEW t \in Threads, Requested(t) \/ Serving(t) \/ MapRace(t)
      PROVE  CastersAnnounce'
  <2>1. UNCHANGED casting
    BY <1>1 DEF Requested, Serving, MapRace, streams
  <2>2. ASSUME NEW u \in Threads, pc[u] = "publish", news[u] # Silence
        PROVE  pc'[u] = "publish" /\ news'[u] # Silence
    <3>1. CASE Requested(t)
      BY <2>2, <3>1 DEF Requested, PttConnect, Goto, TypeOK
    <3>2. CASE MapRace(t)
      BY <2>2, <3>2 DEF MapRace, FatalMapRace
    <3>3. CASE LookupUser(t) \/ ScanChannels(t) \/ StoreUser(t) \/ Lock(t) \/ MarkDirty(t)
      BY <2>2, <3>3 DEF LookupUser, ScanChannels, StoreUser, Lock, MarkDirty, Goto, TypeOK
    <3>4. CASE Commit(t)
      <4>1. pc[t] = "commit" /\ (u # t => pc'[u] = pc[u] /\ news'[u] = news[u])
        BY <3>4 DEF Commit, Goto, TypeOK
      <4> QED BY <2>2, <4>1
    <3>5. CASE Reply(t)
      BY <2>2, <3>5 DEF Reply, Goto, TypeOK
    <3> QED BY <1>1, <3>1, <3>2, <3>3, <3>4, <3>5 DEF Serving, Serve
  <2> QED BY <2>1, <2>2 DEF CastersAnnounce
<1>2. ASSUME NEW t \in Threads, NEW c \in Chans, Collect(t, c)
      PROVE  CastersAnnounce'
  <2>1. news[t] # Silence /\ pc[t] = "publish"
    BY <1>2 DEF Collect, Stage, Silence
  <2>2. UNCHANGED <<pc, news>> /\ \A u \in Threads : casting'[u] = casting[u] \/ u = t
    BY <1>2 DEF Collect, registry, EventsTypeOK
  <2> QED BY <2>1, <2>2 DEF CastersAnnounce
<1>3. ASSUME NEW t \in Threads, NEW c \in Chans, Return(t, c)
      PROVE  CastersAnnounce'
  <2>1. UNCHANGED <<pc>> /\ \A u \in Threads : news'[u] = news[u] \/ u = t
    BY <1>3 DEF Return, Publish, Goto, TypeOK
  <2>2. \A u \in Threads : casting'[u] = casting[u] \/ casting'[u] = {}
    BY <1>3 DEF Return, EventsTypeOK
  <2>3. casting'[t] = {}
    BY <1>3 DEF Return, EventsTypeOK
  <2> QED BY <2>1, <2>2, <2>3 DEF CastersAnnounce
<1>4. ASSUME NEW t \in Threads, NEW c \in Chans, NEW s \in Conns, Panic(t, s, c)
      PROVE  CastersAnnounce'
  <2>1. casting'[t] = {} /\ \A u \in Threads : casting'[u] = casting[u] \/ casting'[u] = {}
    BY <1>4 DEF Panic, EventsTypeOK
  <2>2. \A u \in Threads : u # t => pc'[u] = pc[u] /\ news'[u] = news[u]
    BY <1>4 DEF Panic, AbortPublish, Goto, TypeOK
  <2> QED BY <2>1, <2>2 DEF CastersAnnounce
<1>5. ASSUME UNCHANGED <<pc, news, casting>>
      PROVE  CastersAnnounce'
  BY <1>5 DEF CastersAnnounce
<1>6. ASSUME NEW t \in Threads, NEW c \in Chans, NEW s \in Conns, Offer(t, s, c)
      PROVE  UNCHANGED <<pc, news, casting>>
  BY <1>6 DEF Offer, registry
<1>7. ASSUME NEW s \in Conns, Handler(s)
      PROVE  UNCHANGED <<pc, news, casting>>
  BY <1>7 DEF Handler, Subscribe, Unlink, CloseBuffer, SnapshotLock, SnapshotDone, SnapshotFails,
              Leave, RLock, RUnlock, registry
<1>8. ASSUME NEW s \in Conns, Client(s)
      PROVE  UNCHANGED <<pc, news, casting>>
  BY <1>8 DEF Client, Open, SnapshotFrame, Deliver, HangUp, registry
<1>9. ASSUME NEW s \in Conns, NEW c \in Chans, FanIn(s, c)
      PROVE  UNCHANGED <<pc, news, casting>>
  BY <1>9 DEF FanIn, FanReceive, FanForward, FanEnds, FanMoves, registry
<1>10. UNCHANGED vars => UNCHANGED <<pc, news, casting>>
  BY DEF vars, registry, streams
<1> QED BY <1>1, <1>2, <1>3, <1>4, <1>5, <1>6, <1>7, <1>8, <1>9, <1>10 DEF EventsNext, Broadcasting

\* What a broadcast says is an event.
LEMMA EventOfIsEvent ==
  ASSUME TypeOK, CastersAnnounce, NEW t \in Threads, NEW c \in Chans, casting[t] = {c}
  PROVE  EventOf(t, c) \in Event /\ Stage(t) \in {"join", "leave", "update"}
<1>1. call[t] \in Request
  BY ServedRequest DEF CastersAnnounce
<1>2. Stage(t) \in {"join", "leave", "update"}
  BY DEF Stage
<1>3. call[t].user \in Users
  BY <1>1, RequestFields
<1> QED BY <1>2, <1>3 DEF EventOf, Event

\* What a client believes of an event's channel are users.
LEMMA AppliedType ==
  ASSUME NEW believed \in SUBSET Users, NEW e \in Event
  PROVE  Applied(believed, e) \in SUBSET Users
<1>1. e.user \in Users /\ e.kind \in {"join", "leave", "update"}
  BY DEF Event
<1>2. CASE e.kind = "join"
  <2>1. Applied(believed, e) = believed \cup {e.user}
    BY <1>2, Zenon DEF Applied
  <2> QED BY <1>1, <2>1
<1>3. CASE e.kind = "leave"
  <2>1. e.kind # "join"
    BY <1>3
  <2>2. Applied(believed, e) = believed \ {e.user}
    BY <1>3, <2>1, Zenon DEF Applied
  <2> QED BY <2>2
<1>4. CASE e.kind = "update"
  <2>1. e.kind # "join" /\ e.kind # "leave"
    BY <1>4
  <2>2. Applied(believed, e) = believed
    BY <1>4, <2>1, Zenon DEF Applied
  <2> QED BY <2>2
<1> QED BY <1>1, <1>2, <1>3, <1>4

\* The types at first.
LEMMA EventsInitTypes == EventsInit => EventsTypeOK /\ CastersAnnounce
<1> SUFFICES ASSUME EventsInit PROVE EventsTypeOK /\ CastersAnnounce
  OBVIOUS
<1>1. BufferSize \in Nat /\ MergedSize \in Nat
  BY EventsAssumption
<1>2. <<>> \in Seq(Event) /\ Len(<<>>) = 0
  BY EmptySeq
<1>3. buffer \in [Conns -> [Chans -> Seq(Event)]] /\ held \in [Conns -> [Chans -> Seq(Event)]]
      /\ merged \in [Conns -> Seq(Event)]
  BY <1>2 DEF EventsInit
<1>4. \A s \in Conns, c \in Chans : Len(buffer[s][c]) <= BufferSize /\ Len(held[s][c]) <= 1
  BY <1>1, <1>2 DEF EventsInit
<1>5. \A s \in Conns : Len(merged[s]) <= MergedSize
  BY <1>1, <1>2 DEF EventsInit
<1>6. CastersAnnounce
  BY DEF EventsInit, CastersAnnounce
<1> QED BY <1>3, <1>4, <1>5, <1>6 DEF EventsInit, EventsTypeOK, Fan

\* A broadcast keeps the types.
LEMMA BroadcastTypes ==
  ASSUME TypeOK, EventsTypeOK, CastersAnnounce, NEW t \in Threads, Broadcasting(t)
  PROVE  EventsTypeOK'
<1>1. ASSUME NEW c \in Chans, Collect(t, c)
      PROVE  EventsTypeOK'
  BY <1>1 DEF Collect, EventsTypeOK
<1>2. ASSUME NEW c \in Chans, NEW s \in Conns, Offer(t, s, c)
      PROVE  EventsTypeOK'
  <2>1. targets' \in [Threads -> SUBSET Conns]
    BY <1>2 DEF Offer, EventsTypeOK
  <2>2. lost' \subseteq Conns \X Chans
    BY <1>2 DEF Offer, EventsTypeOK
  <2>3. /\ buffer' \in [Conns -> [Chans -> Seq(Event)]]
        /\ \A x \in Conns, d \in Chans : Len(buffer'[x][d]) <= BufferSize
    <3>1. CASE Len(buffer[s][c]) < BufferSize
      <4> DEFINE longer == Append(buffer[s][c], EventOf(t, c))
      <4>1. buffer' = [buffer EXCEPT ![s][c] = longer]
        BY <1>2, <3>1, EventsAssumption DEF Offer
      <4>2. EventOf(t, c) \in Event /\ buffer[s][c] \in Seq(Event)
        BY <1>2, EventOfIsEvent DEF Offer, EventsTypeOK
      <4>3. longer \in Seq(Event) /\ Len(longer) = Len(buffer[s][c]) + 1 /\ Len(buffer[s][c]) \in Nat
        BY <4>2, AppendProperties, LenProperties
      <4>4. Len(longer) <= BufferSize
        BY <3>1, <4>3, EventsAssumption
      <4> HIDE DEF longer
      <4> QED BY <4>1, <4>3, <4>4 DEF EventsTypeOK
    <3>2. CASE ~(Len(buffer[s][c]) < BufferSize)
      BY <1>2, <3>2 DEF Offer, EventsTypeOK
    <3> QED BY <3>1, <3>2
  <2> QED BY <1>2, <2>1, <2>2, <2>3 DEF Offer, EventsTypeOK
<1>3. ASSUME NEW c \in Chans, Return(t, c)
      PROVE  EventsTypeOK'
  BY <1>3 DEF Return, EventsTypeOK
<1>4. ASSUME NEW c \in Chans, NEW s \in Conns, Panic(t, s, c)
      PROVE  EventsTypeOK'
  <2>1. lost' \subseteq Conns \X Chans
    <3>1. news[t] \in News
      BY DEF TypeOK
    <3>2. Unoffered(t, c) \subseteq Conns \X Chans
      BY <3>1 DEF Unoffered, News
    <3> QED BY <1>4, <3>2 DEF Panic, EventsTypeOK
  <2>2. skipped' \subseteq Conns \X Chans
    BY <1>4 DEF Panic, EventsTypeOK
  <2> QED BY <1>4, <2>1, <2>2 DEF Panic, EventsTypeOK
<1> QED BY <1>1, <1>2, <1>3, <1>4 DEF Broadcasting

\* A handler keeps the types.
LEMMA HandlerTypes ==
  ASSUME EventsTypeOK, NEW s \in Conns, Handler(s)
  PROVE  EventsTypeOK'
<1> USE DEF MoveTo, Visit
<1>1. ASSUME NEW c \in Chans, Subscribe(s, c)
      PROVE  EventsTypeOK'
  BY <1>1 DEF Subscribe, EventsTypeOK
<1>2. ASSUME NEW c \in Chans, Unlink(s, c)
      PROVE  EventsTypeOK'
  BY <1>2 DEF Unlink, EventsTypeOK
<1>3. ASSUME NEW c \in Chans, CloseBuffer(s, c)
      PROVE  EventsTypeOK'
  BY <1>3 DEF CloseBuffer, EventsTypeOK
<1>4. CASE SnapshotLock(s)
  BY <1>4 DEF SnapshotLock, EventsTypeOK
<1>5. CASE SnapshotDone(s)
  <2>1. fan' \in [Conns -> [Chans -> Fan]]
    BY <1>5 DEF SnapshotDone, EventsTypeOK, Fan
  <2> QED BY <1>5, <2>1 DEF SnapshotDone, EventsTypeOK
<1>6. CASE SnapshotFails(s)
  BY <1>6 DEF SnapshotFails, EventsTypeOK
<1>7. CASE Leave(s)
  BY <1>7 DEF Leave, EventsTypeOK
<1> QED BY <1>1, <1>2, <1>3, <1>4, <1>5, <1>6, <1>7 DEF Handler

\* So does a client ...
LEMMA ClientTypes ==
  ASSUME TypeOK, EventsTypeOK, NEW s \in Conns, Client(s)
  PROVE  EventsTypeOK'
<1> USE DEF MoveTo, Visit
<1>1. ASSUME NEW C \in Lists, Open(s, C)
      PROVE  EventsTypeOK'
  BY <1>1, RequestAssumption DEF Open, EventsTypeOK
<1>2. ASSUME NEW c \in Chans, SnapshotFrame(s, c)
      PROVE  EventsTypeOK'
  BY <1>2, TypesOfMaps DEF SnapshotFrame, EventsTypeOK
<1>3. CASE Deliver(s)
  <2> DEFINE e == Head(merged[s])
  <2>1. merged[s] \in Seq(Event) /\ merged[s] # <<>>
    BY <1>3 DEF Deliver, EventsTypeOK
  <2>2. e \in Event /\ Tail(merged[s]) \in Seq(Event) /\ Len(Tail(merged[s])) = Len(merged[s]) - 1
    BY <2>1, HeadTailProperties
  <2>3. Len(merged[s]) \in Nat /\ Len(merged[s]) <= MergedSize /\ MergedSize \in Nat
    BY <2>1, LenProperties, EventsAssumption DEF EventsTypeOK
  <2>4. /\ merged' \in [Conns -> Seq(Event)]
        /\ \A x \in Conns : Len(merged'[x]) <= MergedSize
    BY <1>3, <2>2, <2>3 DEF Deliver, EventsTypeOK
  <2>5. e.chan \in Chans
    BY <2>2 DEF Event
  <2>6. Applied(view[s][e.chan], e) \in SUBSET Users
    BY <2>2, <2>5, AppliedType DEF EventsTypeOK
  <2>7. view' = [view EXCEPT ![s][e.chan] = Applied(view[s][e.chan], e)]
    BY <1>3 DEF Deliver
  <2>8. view' \in [Conns -> [Chans -> SUBSET Users]]
    <3> HIDE DEF e
    <3> QED BY <2>5, <2>6, <2>7 DEF EventsTypeOK
  <2> QED BY <1>3, <2>4, <2>8 DEF Deliver, EventsTypeOK
<1>4. CASE HangUp(s)
  BY <1>4 DEF HangUp, EventsTypeOK
<1> QED BY <1>1, <1>2, <1>3, <1>4 DEF Client

\* ... and a fan-in goroutine.
LEMMA FanInTypes ==
  ASSUME EventsTypeOK, NEW s \in Conns, NEW c \in Chans, FanIn(s, c)
  PROVE  EventsTypeOK'
<1>1. fan' \in [Conns -> [Chans -> Fan]]
  <2>1. ASSUME NEW state \in Fan, FanMoves(s, c, state) PROVE fan' \in [Conns -> [Chans -> Fan]]
    BY <2>1 DEF FanMoves, EventsTypeOK
  <2>2. \E state \in Fan : FanMoves(s, c, state)
    BY DEF FanIn, FanReceive, FanForward, FanEnds, Fan
  <2> QED BY <2>1, <2>2
<1>2. /\ UNCHANGED <<subscribers, closed, casting, targets, cpc, owner, wants, todo, closing, gone,
                     view, lost, skipped>>
  BY DEF FanIn, FanReceive, FanForward, FanEnds, FanMoves
<1>3. CASE FanReceive(s, c)
  <2>1. buffer[s][c] \in Seq(Event) /\ buffer[s][c] # <<>>
    BY <1>3 DEF FanReceive, EventsTypeOK
  <2> DEFINE first == <<Head(buffer[s][c])>>
             rest == Tail(buffer[s][c])
  <2>2. /\ Head(buffer[s][c]) \in Event /\ rest \in Seq(Event)
        /\ Len(rest) = Len(buffer[s][c]) - 1
    BY <2>1, HeadTailProperties
  <2>3. first \in Seq(Event) /\ Len(first) = 1
    BY <2>2
  <2>4. Len(buffer[s][c]) \in Nat /\ Len(buffer[s][c]) <= BufferSize /\ BufferSize \in Nat
    BY <2>1, LenProperties, EventsAssumption DEF EventsTypeOK
  <2>5. Len(rest) <= BufferSize
    BY <2>2, <2>4
  <2>6. /\ held' = [held EXCEPT ![s][c] = first]
        /\ buffer' = [buffer EXCEPT ![s][c] = rest]
        /\ merged' = merged
    BY <1>3 DEF FanReceive
  <2> HIDE DEF first, rest
  <2>7. /\ held' \in [Conns -> [Chans -> Seq(Event)]]
        /\ \A x \in Conns, d \in Chans : Len(held'[x][d]) <= 1
    <3>1. first \in Seq(Event) /\ Len(first) <= 1
      BY <2>3
    <3> QED BY <2>6, <3>1 DEF EventsTypeOK
  <2>8. /\ buffer' \in [Conns -> [Chans -> Seq(Event)]]
        /\ \A x \in Conns, d \in Chans : Len(buffer'[x][d]) <= BufferSize
    BY <2>2, <2>5, <2>6 DEF EventsTypeOK
  <2> QED BY <1>1, <1>2, <2>6, <2>7, <2>8 DEF EventsTypeOK
<1>4. ASSUME held' = [held EXCEPT ![s][c] = <<>>]
      PROVE  /\ held' \in [Conns -> [Chans -> Seq(Event)]]
             /\ \A x \in Conns, d \in Chans : Len(held'[x][d]) <= 1
  <2>1. <<>> \in Seq(Event) /\ Len(<<>>) = 0
    BY EmptySeq
  <2> QED BY <1>4, <2>1 DEF EventsTypeOK
<1>5. CASE FanForward(s, c)
  <2> DEFINE longer == merged[s] \o held[s][c]
  <2>1. merged[s] \in Seq(Event) /\ held[s][c] \in Seq(Event)
    BY DEF EventsTypeOK
  <2>2. longer \in Seq(Event) /\ Len(longer) = Len(merged[s]) + Len(held[s][c])
    BY <2>1, ConcatProperties
  <2>3. Len(longer) <= MergedSize
    BY <1>5, <2>1, <2>2, LenProperties, EventsAssumption DEF FanForward, EventsTypeOK
  <2>4. merged' = [merged EXCEPT ![s] = longer] /\ buffer' = buffer
    BY <1>5 DEF FanForward
  <2> HIDE DEF longer
  <2>5. /\ merged' \in [Conns -> Seq(Event)]
        /\ \A x \in Conns : Len(merged'[x]) <= MergedSize
    BY <2>2, <2>3, <2>4 DEF EventsTypeOK
  <2>6. held' = [held EXCEPT ![s][c] = <<>>]
    BY <1>5 DEF FanForward
  <2> QED BY <1>1, <1>2, <1>4, <2>4, <2>5, <2>6 DEF EventsTypeOK
<1>6. CASE FanEnds(s, c)
  <2>1. held' = [held EXCEPT ![s][c] = <<>>] /\ UNCHANGED <<buffer, merged>>
    BY <1>6 DEF FanEnds
  <2> QED BY <1>1, <1>2, <1>4, <2>1 DEF EventsTypeOK
<1> QED BY <1>3, <1>5, <1>6 DEF FanIn

\* Every step keeps the types.
LEMMA EventsNextTypes ==
  TypeOK /\ EventsTypeOK /\ CastersAnnounce /\ [EventsNext]_vars =>
    EventsTypeOK' /\ CastersAnnounce'
<1> SUFFICES ASSUME TypeOK, EventsTypeOK, CastersAnnounce, [EventsNext]_vars PROVE EventsTypeOK'
  BY CastersGoOn
<1>1. ASSUME UNCHANGED streams PROVE EventsTypeOK'
  BY <1>1 DEF streams, EventsTypeOK
<1>2. ASSUME NEW t \in Threads, Requested(t) \/ Serving(t) \/ MapRace(t)
      PROVE  UNCHANGED streams
  BY <1>2 DEF Requested, Serving, MapRace
<1>3. UNCHANGED vars => UNCHANGED streams
  BY DEF vars
<1> QED BY <1>1, <1>2, <1>3, BroadcastTypes, HandlerTypes, ClientTypes, FanInTypes DEF EventsNext

\* Whatever streams and requests do, buffers stay within their lengths, and every
\* variable within its type.
THEOREM EventsTypeCorrect == EventsSpec => []EventsTypeOK
<1>1. EventsSpec => []TypeOK
  BY StreamsRunTheRegistry, TypeCorrect, PTL
<1> QED BY <1>1, EventsInitTypes, EventsNextTypes, PTL DEF EventsSpec

-----------------------------------------------------------------------------
(* Subscriptions *)

\* A closed buffer is one whose handler is past it in its loop of cancels.
ClosedAreCancelled ==
  \A s \in Conns, c \in Chans :
    <<s, c>> \in closed => cpc[s] \in {"cancel", "done"} /\ c \notin todo[s]

\* Who is in the table has asked for the channel, and has the cancel before it.
SubscribersWillCancel ==
  \A s \in Conns, c \in Chans :
    s \in subscribers[c] =>
      /\ cpc[s] \notin {"new", "done"}
      /\ c \in wants[s]
      /\ cpc[s] = "cancel" => c \in todo[s] \ closing[s]

\* The loops of a handler go over its channels; only cancels are in two steps.
LoopsAreOverWants ==
  \A s \in Conns :
    /\ todo[s] \subseteq wants[s]
    /\ cpc[s] # "cancel" => closing[s] = {}

\* The lock of the registry is held for the snapshots only.
ReadersAreInSnapshots == \A s \in Conns : s \in readers => cpc[s] = "snapshot"

SubscriptionInv ==
  /\ ClosedAreCancelled
  /\ SubscribersWillCancel
  /\ LoopsAreOverWants
  /\ ReadersAreInSnapshots

\* A handler keeps this, from its subscriptions to its cancels.
LEMMA HandlerKeeps ==
  ASSUME EventsTypeOK, SubscriptionInv, NEW s \in Conns, Handler(s)
  PROVE  SubscriptionInv'
<1> USE DEF MoveTo, Visit
<1>t. /\ cpc \in [Conns -> {"new", "subscribe", "rlock", "snapshot", "stream", "cancel", "done"}]
      /\ subscribers \in [Chans -> SUBSET Conns]
      /\ wants \in [Conns -> SUBSET Chans]
      /\ todo \in [Conns -> SUBSET Chans]
      /\ closing \in [Conns -> SUBSET Chans]
  BY DEF EventsTypeOK
<1>1. ASSUME NEW c \in Chans, Subscribe(s, c)
      PROVE  SubscriptionInv'
  <2>1. UNCHANGED <<readers, closed, wants, closing>> /\ c \in wants[s] /\ cpc[s] = "subscribe"
    BY <1>1 DEF Subscribe, registry, SubscriptionInv, LoopsAreOverWants
  <2>2. \A x \in Conns : IF x = s THEN cpc'[x] \in {"subscribe", "rlock"} ELSE cpc'[x] = cpc[x]
    BY <1>1, <1>t DEF Subscribe
  <2>3. \A x \in Conns : IF x = s THEN todo'[x] \subseteq todo[x] ELSE todo'[x] = todo[x]
    BY <1>1, <1>t DEF Subscribe
  <2>4. \A d \in Chans, x \in Conns : x \in subscribers'[d] => x \in subscribers[d] \/ (x = s /\ d = c)
    BY <1>1, <1>t DEF Subscribe
  <2>5. ClosedAreCancelled'
    BY <2>1, <2>2, <2>3 DEF SubscriptionInv, ClosedAreCancelled
  <2>6. SubscribersWillCancel'
    BY <2>1, <2>2, <2>3, <2>4 DEF SubscriptionInv, SubscribersWillCancel
  <2>7. LoopsAreOverWants' /\ ReadersAreInSnapshots'
    BY <2>1, <2>2, <2>3 DEF SubscriptionInv, LoopsAreOverWants, ReadersAreInSnapshots
  <2> QED BY <2>5, <2>6, <2>7 DEF SubscriptionInv
<1>2. ASSUME NEW c \in Chans, Unlink(s, c)
      PROVE  SubscriptionInv'
  <2>1. UNCHANGED <<readers, closed, wants, todo>> /\ cpc[s] = "cancel"
    BY <1>2 DEF Unlink, registry
  <2>2. \A x \in Conns : cpc'[x] = cpc[x]
    BY <1>2, <1>t DEF Unlink
  <2>3. \A x \in Conns : IF x = s THEN closing'[x] = {c} ELSE closing'[x] = closing[x]
    BY <1>2, <1>t DEF Unlink
  <2>4. \A d \in Chans, x \in Conns : x \in subscribers'[d] => x \in subscribers[d] /\ ~(x = s /\ d = c)
    BY <1>2, <1>t DEF Unlink
  <2>5. ClosedAreCancelled' /\ LoopsAreOverWants' /\ ReadersAreInSnapshots'
    BY <2>1, <2>2, <2>3
       DEF SubscriptionInv, ClosedAreCancelled, LoopsAreOverWants, ReadersAreInSnapshots
  <2>6. SubscribersWillCancel'
    BY <2>1, <2>2, <2>3, <2>4 DEF SubscriptionInv, SubscribersWillCancel
  <2> QED BY <2>5, <2>6 DEF SubscriptionInv
<1>3. ASSUME NEW c \in Chans, CloseBuffer(s, c)
      PROVE  SubscriptionInv'
  <2>1. UNCHANGED <<readers, subscribers, wants>> /\ cpc[s] = "cancel" /\ closing[s] = {c}
        /\ closed' = closed \cup {<<s, c>>}
    BY <1>3 DEF CloseBuffer, registry
  <2>2. \A x \in Conns : IF x = s THEN cpc'[x] = (IF todo[s] = {c} THEN "done" ELSE "cancel")
                                 ELSE cpc'[x] = cpc[x]
    BY <1>3, <1>t DEF CloseBuffer
  <2>3. \A x \in Conns : IF x = s THEN todo'[x] = todo[x] \ {c} ELSE todo'[x] = todo[x]
    BY <1>3, <1>t DEF CloseBuffer
  <2>4. \A x \in Conns : IF x = s THEN closing'[x] = {} ELSE closing'[x] = closing[x]
    BY <1>3, <1>t DEF CloseBuffer
  <2>5. ClosedAreCancelled'
    BY <2>1, <2>2, <2>3 DEF SubscriptionInv, ClosedAreCancelled
  <2>6. SubscribersWillCancel'
    <3>1. ASSUME NEW d \in Chans, s \in subscribers[d]
          PROVE  d \in wants[s] /\ d # c /\ d \in todo[s] /\ cpc'[s] = "cancel"
      BY <2>1, <2>2, <3>1 DEF SubscriptionInv, SubscribersWillCancel
    <3> QED BY <2>1, <2>2, <2>3, <2>4, <3>1 DEF SubscriptionInv, SubscribersWillCancel
  <2>7. LoopsAreOverWants' /\ ReadersAreInSnapshots'
    BY <2>1, <2>2, <2>3, <2>4 DEF SubscriptionInv, LoopsAreOverWants, ReadersAreInSnapshots
  <2> QED BY <2>5, <2>6, <2>7 DEF SubscriptionInv
<1>4. CASE SnapshotLock(s)
  <2>1. UNCHANGED <<closed, subscribers, wants, closing>> /\ cpc[s] = "rlock"
        /\ readers' = readers \cup {s}
    BY <1>4 DEF SnapshotLock, RLock
  <2>2. \A x \in Conns : IF x = s THEN cpc'[x] = "snapshot" ELSE cpc'[x] = cpc[x]
    BY <1>4, <1>t DEF SnapshotLock
  <2>3. \A x \in Conns : IF x = s THEN todo'[x] = wants[x] ELSE todo'[x] = todo[x]
    BY <1>4, <1>t DEF SnapshotLock
  <2>4. ClosedAreCancelled' /\ SubscribersWillCancel'
    BY <2>1, <2>2, <2>3 DEF SubscriptionInv, ClosedAreCancelled, SubscribersWillCancel
  <2>5. LoopsAreOverWants' /\ ReadersAreInSnapshots'
    BY <2>1, <2>2, <2>3 DEF SubscriptionInv, LoopsAreOverWants, ReadersAreInSnapshots
  <2> QED BY <2>4, <2>5 DEF SubscriptionInv
<1>5. CASE SnapshotDone(s)
  <2>1. UNCHANGED <<closed, subscribers, wants, closing, todo>> /\ cpc[s] = "snapshot"
        /\ readers' = readers \ {s}
    BY <1>5 DEF SnapshotDone, RUnlock
  <2>2. \A x \in Conns : IF x = s THEN cpc'[x] = "stream" ELSE cpc'[x] = cpc[x]
    BY <1>5, <1>t DEF SnapshotDone
  <2>3. ClosedAreCancelled' /\ SubscribersWillCancel'
    BY <2>1, <2>2 DEF SubscriptionInv, ClosedAreCancelled, SubscribersWillCancel
  <2>4. LoopsAreOverWants' /\ ReadersAreInSnapshots'
    BY <2>1, <2>2 DEF SubscriptionInv, LoopsAreOverWants, ReadersAreInSnapshots
  <2> QED BY <2>3, <2>4 DEF SubscriptionInv
<1>6. CASE SnapshotFails(s) \/ Leave(s)
  <2>1. UNCHANGED <<closed, subscribers, wants, closing>> /\ cpc[s] \in {"snapshot", "stream"}
    BY <1>6 DEF SnapshotFails, Leave
  <2>2. \A x \in Conns : IF x = s THEN cpc'[x] = "cancel" ELSE cpc'[x] = cpc[x]
    BY <1>6, <1>t DEF SnapshotFails, Leave
  <2>3. \A x \in Conns : IF x = s THEN todo'[x] = wants[x] ELSE todo'[x] = todo[x]
    BY <1>6, <1>t DEF SnapshotFails, Leave
  <2>4. readers' \subseteq readers /\ s \notin readers'
    BY <1>6 DEF SnapshotFails, Leave, RUnlock, registry, SubscriptionInv, ReadersAreInSnapshots
  <2>5. closing[s] = {} /\ \A c \in Chans : <<s, c>> \notin closed
    BY <2>1 DEF SubscriptionInv, LoopsAreOverWants, ClosedAreCancelled
  <2>6. ClosedAreCancelled'
    BY <2>1, <2>2, <2>3, <2>5 DEF SubscriptionInv, ClosedAreCancelled
  <2>7. SubscribersWillCancel'
    BY <2>1, <2>2, <2>3, <2>5 DEF SubscriptionInv, SubscribersWillCancel
  <2>8. LoopsAreOverWants' /\ ReadersAreInSnapshots'
    BY <2>1, <2>2, <2>3, <2>4, <2>5 DEF SubscriptionInv, LoopsAreOverWants, ReadersAreInSnapshots
  <2> QED BY <2>6, <2>7, <2>8 DEF SubscriptionInv
<1> QED BY <1>1, <1>2, <1>3, <1>4, <1>5, <1>6 DEF Handler

\* So does a client, when it opens a stream and later.
LEMMA ClientKeeps ==
  ASSUME EventsTypeOK, SubscriptionInv, NEW s \in Conns, Client(s)
  PROVE  SubscriptionInv'
<1> USE DEF MoveTo, Visit
<1>t. /\ cpc \in [Conns -> {"new", "subscribe", "rlock", "snapshot", "stream", "cancel", "done"}]
      /\ wants \in [Conns -> SUBSET Chans]
      /\ todo \in [Conns -> SUBSET Chans]
  BY DEF EventsTypeOK
<1>1. ASSUME NEW C \in Lists, Open(s, C)
      PROVE  SubscriptionInv'
  <2>1. UNCHANGED <<readers, closed, subscribers, closing>> /\ cpc[s] = "new"
    BY <1>1 DEF Open, registry
  <2>2. \A x \in Conns : IF x = s THEN cpc'[x] = "subscribe" ELSE cpc'[x] = cpc[x]
    BY <1>1, <1>t DEF Open
  <2>3. \A x \in Conns : IF x = s THEN todo'[x] = C /\ wants'[x] = C
                                 ELSE todo'[x] = todo[x] /\ wants'[x] = wants[x]
    BY <1>1, <1>t DEF Open
  <2>4. ClosedAreCancelled'
    BY <2>1, <2>2, <2>3 DEF SubscriptionInv, ClosedAreCancelled
  <2>5. SubscribersWillCancel'
    BY <2>1, <2>2, <2>3 DEF SubscriptionInv, SubscribersWillCancel
  <2>6. LoopsAreOverWants' /\ ReadersAreInSnapshots'
    BY <2>1, <2>2, <2>3 DEF SubscriptionInv, LoopsAreOverWants, ReadersAreInSnapshots
  <2> QED BY <2>4, <2>5, <2>6 DEF SubscriptionInv
<1>2. ASSUME NEW c \in Chans, SnapshotFrame(s, c)
      PROVE  SubscriptionInv'
  <2>1. UNCHANGED <<readers, closed, subscribers, closing, wants>> /\ cpc[s] = "snapshot"
    BY <1>2 DEF SnapshotFrame, registry
  <2>2. \A x \in Conns : cpc'[x] = cpc[x]
    BY <1>2, <1>t DEF SnapshotFrame
  <2>3. \A x \in Conns : todo'[x] \subseteq todo[x] /\ (x # s => todo'[x] = todo[x])
    BY <1>2, <1>t DEF SnapshotFrame
  <2>4. ClosedAreCancelled' /\ SubscribersWillCancel'
    BY <2>1, <2>2, <2>3 DEF SubscriptionInv, ClosedAreCancelled, SubscribersWillCancel
  <2>5. LoopsAreOverWants' /\ ReadersAreInSnapshots'
    BY <2>1, <2>2, <2>3 DEF SubscriptionInv, LoopsAreOverWants, ReadersAreInSnapshots
  <2> QED BY <2>4, <2>5 DEF SubscriptionInv
<1>3. CASE Deliver(s) \/ HangUp(s)
  <2>1. UNCHANGED <<readers, closed, subscribers, closing, wants, todo>>
    BY <1>3 DEF Deliver, HangUp, registry
  <2>2. \A x \in Conns : cpc'[x] = cpc[x]
    BY <1>3, <1>t DEF Deliver, HangUp
  <2> QED BY <2>1, <2>2 DEF SubscriptionInv, ClosedAreCancelled, SubscribersWillCancel,
                            LoopsAreOverWants, ReadersAreInSnapshots
<1> QED BY <1>1, <1>2, <1>3 DEF Client

\* Nobody else touches subscriptions.
LEMMA OthersLeaveSubscriptions ==
  ASSUME UNCHANGED <<readers, closed, subscribers, closing, wants, todo, cpc>>, SubscriptionInv
  PROVE  SubscriptionInv'
BY DEF SubscriptionInv, ClosedAreCancelled, SubscribersWillCancel, LoopsAreOverWants,
       ReadersAreInSnapshots

LEMMA EventsNextKeeps ==
  EventsTypeOK /\ SubscriptionInv /\ [EventsNext]_vars => SubscriptionInv'
<1> SUFFICES ASSUME EventsTypeOK, SubscriptionInv, [EventsNext]_vars PROVE SubscriptionInv'
  OBVIOUS
<1> DEFINE Untouched == UNCHANGED <<readers, closed, subscribers, closing, wants, todo, cpc>>
<1>1. ASSUME NEW t \in Threads, Requested(t) \/ Serving(t) \/ MapRace(t)
      PROVE  Untouched
  BY <1>1 DEF Requested, Serving, MapRace, streams, PttConnect, Serve, LookupUser, ScanChannels,
              StoreUser, Lock, Commit, MarkDirty, Reply, FatalMapRace
<1>2. ASSUME NEW t \in Threads, Broadcasting(t)
      PROVE  Untouched
  BY <1>2 DEF Broadcasting, Collect, Offer, Return, Panic, Publish, AbortPublish, registry
<1>3. ASSUME NEW s \in Conns, NEW c \in Chans, FanIn(s, c)
      PROVE  Untouched
  BY <1>3 DEF FanIn, FanReceive, FanForward, FanEnds, FanMoves, registry
<1>4. UNCHANGED vars => Untouched
  BY DEF vars, registry, streams
<1> HIDE DEF Untouched
<1>5. Untouched => SubscriptionInv'
  BY OthersLeaveSubscriptions DEF Untouched
<1> QED BY <1>1, <1>2, <1>3, <1>4, <1>5, HandlerKeeps, ClientKeeps DEF EventsNext

LEMMA SubscriptionInvIsInvariant == EventsSpec => []SubscriptionInv
<1>1. EventsInit => SubscriptionInv
  BY DEF EventsInit, RegistryInit, SubscriptionInv, ClosedAreCancelled, SubscribersWillCancel,
         LoopsAreOverWants, ReadersAreInSnapshots
<1> QED BY <1>1, EventsNextKeeps, EventsTypeCorrect, PTL DEF EventsSpec

\* Cancelling unlinks a subscription before it closes its buffer, however the
\* cancels of a handler come between the steps of others: a broadcast that
\* begins meets no closed buffer.
THEOREM SubscribersStayOpen == EventsSpec => []SubscribersAreOpen
<1>1. EventsTypeOK /\ SubscriptionInv => SubscribersAreOpen
  BY DEF EventsTypeOK, SubscriptionInv, ClosedAreCancelled, SubscribersWillCancel, SubscribersAreOpen
<1> QED BY <1>1, SubscriptionInvIsInvariant, EventsTypeCorrect, PTL

\* A handler that has returned, on whichever of its paths, has cancelled all its
\* subscriptions and given the lock of the registry back.
THEOREM HandlersAlwaysCleanUp == EventsSpec => []HandlersCleanUp
<1>1. SubscriptionInv => HandlersCleanUp
  BY DEF SubscriptionInv, SubscribersWillCancel, ReadersAreInSnapshots, HandlersCleanUp
<1> QED BY <1>1, SubscriptionInvIsInvariant, PTL
=============================================================================
