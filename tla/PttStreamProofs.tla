-------------------------- MODULE PttStreamProofs --------------------------
(***************************************************************************)
(* What a client reconstructs from its stream follows the rosters of the   *)
(* registry: StreamsFollowRosters of PttEvents, for any users, channels,   *)
(* goroutines, connections and lengths of the buffers.                     *)
(***************************************************************************)
EXTENDS PttEventsProofs

-----------------------------------------------------------------------------
(* What arrives *)

\* Nothing arrives: nothing changes.
LEMMA ArrivedNothing ==
  ASSUME NEW c, NEW believed \in SUBSET Users
  PROVE  Arrived(<<>>, c, believed) = believed
BY DEF Arrived, FinalAt

LEMMA ArrivedType ==
  ASSUME NEW q, NEW c, NEW believed
  PROVE  Arrived(q, c, believed) \in SUBSET Users
BY DEF Arrived

LEMMA AppliedCases ==
  ASSUME NEW e \in Event, NEW believed
  PROVE  /\ e.kind = "join" => Applied(believed, e) = believed \cup {e.user}
         /\ e.kind = "leave" => Applied(believed, e) = believed \ {e.user}
         /\ e.kind = "update" => Applied(believed, e) = believed
<1>1. CASE e.kind = "join"
  <2>1. Applied(believed, e) = believed \cup {e.user}
    BY <1>1, Zenon DEF Applied
  <2> QED BY <1>1, <2>1
<1>2. CASE e.kind = "leave"
  <2>1. e.kind # "join"
    BY <1>2
  <2>2. Applied(believed, e) = believed \ {e.user}
    BY <1>2, <2>1, Zenon DEF Applied
  <2> QED BY <1>2, <2>2
<1>3. CASE e.kind = "update"
  <2>1. e.kind # "join" /\ e.kind # "leave"
    BY <1>3
  <2>2. Applied(believed, e) = believed
    BY <1>3, <2>1, Zenon DEF Applied
  <2> QED BY <1>3, <2>2
<1> QED BY <1>1, <1>2, <1>3

\* One event arrives: it is applied, if it is one of this channel.
LEMMA ArrivedOne ==
  ASSUME NEW e \in Event, NEW c, NEW believed \in SUBSET Users
  PROVE  Arrived(<<e>>, c, believed) = IF e.chan = c THEN Applied(believed, e) ELSE believed
<1> DEFINE q == <<e>>
<1>1. DOMAIN q = {1} /\ q[1] = e
  OBVIOUS
<1> HIDE DEF q
<1>2. e.kind \in {"join", "leave", "update"} /\ e.user \in Users
  BY DEF Event
<1>3. \A u \in Users : u \in Arrived(q, c, believed) <=>
        \/ u \in believed /\ ~About(e, c, u)
        \/ About(e, c, u) /\ e.kind = "join"
  BY <1>1 DEF Arrived, FinalAt
<1>4. Arrived(q, c, believed) \subseteq Users
  BY DEF Arrived
<1>5. CASE e.chan # c
  BY <1>3, <1>4, <1>5 DEF About, q
<1>6. CASE e.chan = c
  BY <1>2, <1>3, <1>4, <1>6, AppliedCases DEF About, q
<1> QED BY <1>5, <1>6

\* One sequence of events arrives after another.
LEMMA ArrivedConcat ==
  ASSUME NEW q \in Seq(Event), NEW r \in Seq(Event), NEW c, NEW believed
  PROVE  Arrived(q \o r, c, believed) = Arrived(r, c, Arrived(q, c, believed))
<1> DEFINE both == q \o r
           n == Len(q)
<1>1. /\ n \in Nat /\ DOMAIN q = 1 .. n
      /\ Len(r) \in Nat /\ DOMAIN r = 1 .. Len(r)
  BY LenProperties
<1>2. /\ DOMAIN both = 1 .. n + Len(r)
      /\ \A i \in 1 .. n : both[i] = q[i]
      /\ \A i \in 1 .. Len(r) : both[n + i] = r[i]
  <2>1. /\ both \in Seq(Event) /\ Len(both) = n + Len(r)
        /\ \A i \in 1 .. n + Len(r) : both[i] = IF i <= n THEN q[i] ELSE r[i - n]
    BY ConcatProperties
  <2> HIDE DEF both, n
  <2>2. DOMAIN both = 1 .. n + Len(r)
    BY <2>1, LenProperties
  <2> QED BY <1>1, <2>1, <2>2
<1> HIDE DEF both, n
<1>3. \A i \in DOMAIN both : i \in DOMAIN q \/ \E j \in DOMAIN r : i = n + j
  <2> SUFFICES ASSUME NEW i \in DOMAIN both, i \notin DOMAIN q PROVE i - n \in DOMAIN r /\ i = n + (i - n)
    OBVIOUS
  <2> QED BY <1>1, <1>2
<1>4. /\ \A i \in DOMAIN q : i \in DOMAIN both /\ both[i] = q[i] /\ i \in Nat /\ i <= n
      /\ \A j \in DOMAIN r : n + j \in DOMAIN both /\ both[n + j] = r[j] /\ j \in Nat /\ j > 0
  BY <1>1, <1>2
<1>5. ASSUME NEW u
      PROVE  /\ \A i \in 0 .. n : FinalAt(both, i, c, u) <=> FinalAt(q, i, c, u) /\ FinalAt(r, 0, c, u)
             /\ \A j \in Nat : FinalAt(both, n + j, c, u) <=> FinalAt(r, j, c, u)
  <2>1. ASSUME NEW i \in 0 .. n
        PROVE  FinalAt(both, i, c, u) <=> FinalAt(q, i, c, u) /\ FinalAt(r, 0, c, u)
    BY <1>1, <1>3, <1>4 DEF FinalAt
  <2>2. ASSUME NEW j \in Nat
        PROVE  FinalAt(both, n + j, c, u) <=> FinalAt(r, j, c, u)
    BY <1>1, <1>3, <1>4 DEF FinalAt
  <2> QED BY <2>1, <2>2
<1>6. ASSUME NEW u \in Users
      PROVE  u \in Arrived(both, c, believed) <=> u \in Arrived(r, c, Arrived(q, c, believed))
  <2> DEFINE B(i) == About(both[i], c, u) /\ both[i].kind = "join" /\ FinalAt(both, i, c, u)
             Q(i) == About(q[i], c, u) /\ q[i].kind = "join" /\ FinalAt(q, i, c, u)
             R(j) == About(r[j], c, u) /\ r[j].kind = "join" /\ FinalAt(r, j, c, u)
  <2>1. u \in Arrived(both, c, believed) <=>
          (u \in believed /\ FinalAt(both, 0, c, u)) \/ \E i \in DOMAIN both : B(i)
    BY DEF Arrived
  <2>2. u \in Arrived(q, c, believed) <=>
          (u \in believed /\ FinalAt(q, 0, c, u)) \/ \E i \in DOMAIN q : Q(i)
    BY DEF Arrived
  <2>3. u \in Arrived(r, c, Arrived(q, c, believed)) <=>
          (u \in Arrived(q, c, believed) /\ FinalAt(r, 0, c, u)) \/ \E j \in DOMAIN r : R(j)
    BY DEF Arrived
  <2>i. 0 \in 0 .. n /\ \A i \in DOMAIN q : i \in 0 .. n
    BY <1>1
  <2>4. \A i \in DOMAIN q : B(i) <=> Q(i) /\ FinalAt(r, 0, c, u)
    BY <1>4, <1>5, <2>i, Zenon
  <2>5. \A j \in DOMAIN r : B(n + j) <=> R(j)
    BY <1>4, <1>5, Zenon
  <2>6. FinalAt(both, 0, c, u) <=> FinalAt(q, 0, c, u) /\ FinalAt(r, 0, c, u)
    BY <1>5, <2>i, Zenon
  <2> HIDE DEF B, Q, R
  <2>7. (\E i \in DOMAIN both : B(i)) <=>
          (\E i \in DOMAIN q : Q(i) /\ FinalAt(r, 0, c, u)) \/ \E j \in DOMAIN r : R(j)
    BY <1>3, <1>4, <2>4, <2>5
  <2> QED BY <2>1, <2>2, <2>3, <2>6, <2>7, Zenon
<1>7. Arrived(both, c, believed) = Arrived(r, c, Arrived(q, c, believed))
  BY <1>6 DEF Arrived
<1> QED BY <1>7 DEF both

\* So do three, as they do from merged, from a fan-in goroutine and from a buffer.
LEMMA ArrivedInOrder ==
  ASSUME NEW q1 \in Seq(Event), NEW q2 \in Seq(Event), NEW q3 \in Seq(Event), NEW c, NEW believed
  PROVE  Arrived(q1 \o (q2 \o q3), c, believed)
           = Arrived(q3, c, Arrived(q2, c, Arrived(q1, c, believed)))
<1> DEFINE rest == q2 \o q3
           b1 == Arrived(q1, c, believed)
<1>1. rest \in Seq(Event)
  BY ConcatProperties
<1>2. Arrived(rest, c, b1) = Arrived(q3, c, Arrived(q2, c, b1))
  BY ArrivedConcat
<1> HIDE DEF rest
<1>3. Arrived(q1 \o rest, c, believed) = Arrived(rest, c, b1)
  BY <1>1, ArrivedConcat
<1> QED BY <1>2, <1>3 DEF rest

\* Events of other channels change nothing.
LEMMA ArrivedElsewhere ==
  ASSUME NEW q, NEW c, NEW believed \in SUBSET Users, \A i \in DOMAIN q : q[i].chan # c
  PROVE  Arrived(q, c, believed) = believed
BY DEF Arrived, FinalAt, About

\* What becomes of a user depends on that user alone.
LEMMA ArrivedOfUser ==
  ASSUME NEW q, NEW c, NEW b1, NEW b2, NEW u \in Users, u \in b1 <=> u \in b2
  PROVE  u \in Arrived(q, c, b1) <=> u \in Arrived(q, c, b2)
BY DEF Arrived

-----------------------------------------------------------------------------
(* The invariant *)

\* The handler of s has not subscribed to c, or not yet.
Unsubscribed(s, c) ==
  cpc[s] = "new" \/ c \notin wants[s] \/ (cpc[s] = "subscribe" /\ c \in todo[s])

\* It has, and did not begin to wind down.
Subscribed(s, c) == ~Unsubscribed(s, c) /\ cpc[s] \notin {"cancel", "done"}

\* The client of s was sent its snapshot of c.
Framed(s, c) == cpc[s] = "stream" \/ (cpc[s] = "snapshot" /\ c \notin todo[s])

\* What a goroutine still has to announce has happened, and is one thing.
NewsAreTrue ==
  \A t \in Threads :
    /\ pc[t] \notin {"mark", "publish"} => news[t] = Silence
    /\ news[t].join \cap news[t].leave = {}
    /\ \A c \in news[t].join : call[t].user \in Roster(c)
    /\ \A c \in news[t].leave : call[t].user \notin Roster(c)

\* A broadcast is of what is next to announce, and goes to subscribers.
CastsAreNews ==
  \A t \in Threads :
    /\ casting[t] \subseteq news[t][Stage(t)]
    /\ \A c \in casting[t], s \in targets[t] : ~Unsubscribed(s, c)

\* Who subscribes is in the table until it winds down, and nobody else.
IsListed(s) ==
  \A c \in Chans :
    /\ Subscribed(s, c) => s \in subscribers[c]
    /\ s \in subscribers[c] => ~Unsubscribed(s, c)

\* Nothing is sent before it subscribes, and nothing merged before its snapshots;
\* its goroutines hold an event only to forward it.
StartsEmpty(s) ==
  /\ cpc[s] \in {"new", "subscribe", "rlock", "snapshot"} =>
       merged[s] = <<>> /\ \A c \in Chans : fan[s][c] = "unborn"
  /\ \A c \in Chans :
       /\ Unsubscribed(s, c) => buffer[s][c] = <<>>
       /\ fan[s][c] # "forwarding" => held[s][c] = <<>>

\* A buffer holds events of the channel it is for.
KeepsChannels(s) ==
  \A c \in Chans :
    /\ \A i \in DOMAIN buffer[s][c] : buffer[s][c][i].chan = c
    /\ \A i \in DOMAIN held[s][c] : held[s][c][i].chan = c

\* Every request that changed the membership of u in c has offered that to s, or
\* made its offers before s subscribed.
Told(s, c, u) ==
  \A t \in Threads :
    call[t] # NoRequest /\ call[t].user = u /\ c \in news[t].join \cup news[t].leave =>
      c \in casting[t] /\ s \notin targets[t]

\* A client without a snapshot would be sent the roster as it is.
Shown(s, c) == IF Framed(s, c) THEN view[s][c] ELSE Roster(c)

\* What it believes when everything on its way has arrived.
Believes(s, c) == Arrived(InFlight(s, c), c, Shown(s, c))

Follows(s, c) ==
  Subscribed(s, c) /\ s \notin gone /\ <<s, c>> \notin lost =>
    \A u \in Users :
      Told(s, c, u) => (u \in Believes(s, c) <=> u \in Roster(c))

InOrder(s) ==
  /\ IsListed(s)
  /\ StartsEmpty(s)
  /\ KeepsChannels(s)
  /\ \A c \in Chans : Follows(s, c)

StreamInv ==
  /\ NewsAreTrue
  /\ CastsAreNews
  /\ \A s \in Conns : InOrder(s)

-----------------------------------------------------------------------------
(* The frame of the argument *)

\* What a client believes, by where the events are.
LEMMA BelievesInOrder ==
  ASSUME EventsTypeOK, NEW s \in Conns, NEW c \in Chans
  PROVE  Believes(s, c)
           = Arrived(buffer[s][c], c, Arrived(held[s][c], c, Arrived(merged[s], c, Shown(s, c))))
<1>1. merged[s] \in Seq(Event) /\ held[s][c] \in Seq(Event) /\ buffer[s][c] \in Seq(Event)
  BY DEF EventsTypeOK
<1> DEFINE m == merged[s]
           h == held[s][c]
           b == buffer[s][c]
           shown == Shown(s, c)
<1> HIDE DEF m, h, b, shown
<1>2. m \in Seq(Event) /\ h \in Seq(Event) /\ b \in Seq(Event)
  BY <1>1 DEF m, h, b
<1>3. Arrived(m \o (h \o b), c, shown) = Arrived(b, c, Arrived(h, c, Arrived(m, c, shown)))
  BY <1>2, ArrivedInOrder
<1> QED BY <1>3 DEF Believes, InFlight, m, h, b, shown

\* A step that changes neither what a client believes nor the roster, and after
\* which no more has been told, keeps the two in step.
LEMMA FollowsOn ==
  ASSUME NEW s \in Conns, NEW c \in Chans, Follows(s, c),
         Subscribed(s, c)' /\ s \notin gone' /\ <<s, c>> \notin lost' =>
           /\ Subscribed(s, c) /\ s \notin gone /\ <<s, c>> \notin lost
           /\ \A u \in Users : Told(s, c, u)' =>
                /\ Told(s, c, u)
                /\ u \in Believes(s, c)' <=> u \in Believes(s, c)
                /\ u \in Roster(c)' <=> u \in Roster(c)
  PROVE  Follows(s, c)'
BY Zenon DEF Follows

\* Steps outside requests disturb neither what is announced nor who has been told.
Quiet == UNCHANGED <<pc, news, call, Channels, casting, targets>>

LEMMA QuietRosters ==
  ASSUME Quiet
  PROVE  /\ \A c \in Chans : Roster(c)' = Roster(c)
         /\ \A s \in Conns, c \in Chans, u \in Users : Told(s, c, u)' <=> Told(s, c, u)
<1>1. \A c \in Chans : Roster(c)' = Roster(c)
  BY DEF Quiet, Roster
<1>2. \A s \in Conns, c \in Chans, u \in Users : Told(s, c, u)' <=> Told(s, c, u)
  BY DEF Quiet, Told
<1> QED BY <1>1, <1>2, Zenon

LEMMA QuietRequests ==
  ASSUME EventsTypeOK, NewsAreTrue, CastsAreNews, Quiet,
         \A s \in Conns, c \in Chans : Unsubscribed(s, c)' => Unsubscribed(s, c)
  PROVE  NewsAreTrue' /\ CastsAreNews'
<1>1. NewsAreTrue'
  BY DEF NewsAreTrue, Roster, Quiet
<1>2. CastsAreNews'
  <2>1. \A t \in Threads : Stage(t)' = Stage(t)
    BY DEF Stage, Quiet
  <2>2. \A t \in Threads : casting[t] \subseteq Chans /\ targets[t] \subseteq Conns
    BY DEF EventsTypeOK
  <2> QED BY <2>1, <2>2 DEF CastsAreNews, Quiet
<1> QED BY <1>1, <1>2

\* A step that leaves a connection alone, with no more told of what it did not
\* miss, keeps it in order.
LEMMA OthersInOrder ==
  ASSUME NEW x \in Conns, InOrder(x),
         /\ cpc'[x] = cpc[x] /\ wants'[x] = wants[x] /\ todo'[x] = todo[x]
         /\ buffer'[x] = buffer[x] /\ held'[x] = held[x] /\ merged'[x] = merged[x]
         /\ fan'[x] = fan[x] /\ view'[x] = view[x],
         \A c \in Chans : x \in subscribers'[c] <=> x \in subscribers[c],
         gone \subseteq gone', lost \subseteq lost',
         \A c \in Chans : Roster(c)' = Roster(c),
         \A c \in Chans, u \in Users :
           Subscribed(x, c) /\ <<x, c>> \notin lost' /\ Told(x, c, u)' => Told(x, c, u)
  PROVE  InOrder(x)'
<1>1. ASSUME NEW c \in Chans
      PROVE  /\ Unsubscribed(x, c)' <=> Unsubscribed(x, c)
             /\ Subscribed(x, c)' <=> Subscribed(x, c)
             /\ Believes(x, c)' = Believes(x, c)
  <2>1. (Unsubscribed(x, c)' <=> Unsubscribed(x, c)) /\ (Subscribed(x, c)' <=> Subscribed(x, c))
    BY DEF Unsubscribed, Subscribed
  <2>2. Shown(x, c)' = Shown(x, c)
    BY DEF Shown, Framed
  <2> QED BY <2>1, <2>2 DEF Believes, InFlight
<1>2. IsListed(x)'
  BY <1>1 DEF InOrder, IsListed
<1>3. StartsEmpty(x)' /\ KeepsChannels(x)'
  BY <1>1 DEF InOrder, StartsEmpty, KeepsChannels
<1>4. ASSUME NEW c \in Chans PROVE Follows(x, c)'
  BY <1>1, FollowsOn DEF InOrder
<1> QED BY <1>2, <1>3, <1>4 DEF InOrder

\* Connection x is as it was.
Untouched(x) ==
  /\ cpc'[x] = cpc[x] /\ wants'[x] = wants[x] /\ todo'[x] = todo[x]
  /\ buffer'[x] = buffer[x] /\ held'[x] = held[x] /\ merged'[x] = merged[x]
  /\ fan'[x] = fan[x] /\ view'[x] = view[x]
  /\ \A c \in Chans : x \in subscribers'[c] <=> x \in subscribers[c]

\* A step of one connection that keeps it in order keeps the invariant.
LEMMA StepOfOne ==
  ASSUME EventsTypeOK, StreamInv, NEW s \in Conns, Quiet,
         \A x \in Conns : x # s => Untouched(x),
         gone \subseteq gone', lost \subseteq lost',
         \A c \in Chans : Unsubscribed(s, c)' => Unsubscribed(s, c),
         InOrder(s)'
  PROVE  StreamInv'
<1>1. ASSUME NEW x \in Conns, x # s
      PROVE  InOrder(x)'
  BY <1>1, QuietRosters, OthersInOrder DEF Untouched, StreamInv
<1>2. ASSUME NEW x \in Conns, NEW c \in Chans, Unsubscribed(x, c)'
      PROVE  Unsubscribed(x, c)
  BY <1>2 DEF Untouched, Unsubscribed
<1>3. NewsAreTrue' /\ CastsAreNews'
  BY <1>2, QuietRequests DEF StreamInv
<1> QED BY <1>1, <1>3 DEF StreamInv

-----------------------------------------------------------------------------
(* The handler and its client *)

LEMMA OpenKeeps ==
  ASSUME EventsTypeOK, StreamInv, NEW s \in Conns, NEW C \in Lists, Open(s, C)
  PROVE  StreamInv'
<1>1. /\ Quiet
      /\ cpc[s] = "new" /\ cpc'[s] = "subscribe" /\ wants'[s] = C /\ todo'[s] = C
      /\ UNCHANGED <<subscribers, buffer, fan, held, merged, gone, view, lost>>
  BY DEF Open, MoveTo, registry, EventsTypeOK, Quiet
<1>2. \A x \in Conns : x # s => Untouched(x)
  BY DEF Open, MoveTo, EventsTypeOK, Untouched
<1>3. \A c \in Chans : Unsubscribed(s, c) /\ Unsubscribed(s, c)' /\ ~Subscribed(s, c)'
  BY <1>1 DEF Unsubscribed, Subscribed
<1>4. InOrder(s)
  BY DEF StreamInv
<1>5. IsListed(s)'
  BY <1>1, <1>3, <1>4 DEF InOrder, IsListed
<1>6. StartsEmpty(s)' /\ KeepsChannels(s)'
  BY <1>1, <1>3, <1>4 DEF InOrder, StartsEmpty, KeepsChannels
<1>7. \A c \in Chans : Follows(s, c)'
  BY <1>3 DEF Follows
<1>8. InOrder(s)'
  BY <1>5, <1>6, <1>7 DEF InOrder
<1> QED BY <1>1, <1>2, <1>3, <1>8, StepOfOne

\* A new subscription has nothing on its way, and shows the roster as it is.
LEMMA SubscribeKeeps ==
  ASSUME TypeOK, EventsTypeOK, SubscriptionInv, StreamInv, NEW s \in Conns, NEW c \in Chans,
         Subscribe(s, c)
  PROVE  StreamInv'
<1>1. /\ Quiet
      /\ cpc[s] = "subscribe" /\ cpc'[s] = (IF todo[s] = {c} THEN "rlock" ELSE "subscribe")
      /\ c \in todo[s] /\ todo'[s] = todo[s] \ {c}
      /\ s \in subscribers'[c]
      /\ \A d \in Chans : d # c => (s \in subscribers'[d] <=> s \in subscribers[d])
      /\ UNCHANGED <<wants, buffer, fan, held, merged, gone, view, lost>>
  BY DEF Subscribe, MoveTo, Visit, registry, EventsTypeOK, Quiet
<1>2. \A x \in Conns : x # s => Untouched(x)
  BY DEF Subscribe, MoveTo, Visit, EventsTypeOK, Untouched
<1>3. InOrder(s) /\ c \in wants[s] /\ cpc'[s] \in {"subscribe", "rlock"}
  BY <1>1 DEF StreamInv, SubscriptionInv, LoopsAreOverWants
<1>4. ~Unsubscribed(s, c)' /\ Unsubscribed(s, c)
  BY <1>1, <1>3 DEF Unsubscribed
<1>5. \A d \in Chans : d # c => /\ Unsubscribed(s, d)' <=> Unsubscribed(s, d)
                                /\ Subscribed(s, d)' <=> Subscribed(s, d)
  BY <1>1, <1>3 DEF Unsubscribed, Subscribed
<1>6. IsListed(s)'
  BY <1>1, <1>3, <1>4, <1>5 DEF InOrder, IsListed
<1>7. StartsEmpty(s)' /\ KeepsChannels(s)'
  BY <1>1, <1>3, <1>4, <1>5 DEF InOrder, StartsEmpty, KeepsChannels
<1>8. ASSUME NEW d \in Chans, d # c
      PROVE  Follows(s, d)'
  <2>1. Believes(s, d)' = Believes(s, d)
    BY <1>1, <1>3, <1>8, QuietRosters DEF Believes, InFlight, Shown, Framed
  <2> QED BY <1>1, <1>3, <1>5, <1>8, <2>1, QuietRosters, FollowsOn DEF InOrder
<1>9. Follows(s, c)'
  <2>1. merged[s] = <<>> /\ held[s][c] = <<>> /\ buffer[s][c] = <<>>
    BY <1>1, <1>3, <1>4 DEF InOrder, StartsEmpty
  <2>2. InFlight(s, c)' = <<>>
    BY <1>1, <2>1 DEF InFlight
  <2>3. Shown(s, c)' = Roster(c)' /\ Roster(c)' = Roster(c)
    BY <1>1, <1>3, QuietRosters DEF Shown, Framed
  <2>4. Roster(c) \in SUBSET Users
    BY TypesOfMaps
  <2>5. Believes(s, c)' = Roster(c)'
    BY <2>2, <2>3, <2>4, ArrivedNothing DEF Believes
  <2> QED BY <2>5 DEF Follows
<1>10. InOrder(s)'
  BY <1>6, <1>7, <1>8, <1>9 DEF InOrder
<1> QED BY <1>1, <1>2, <1>4, <1>5, <1>10, StepOfOne

\* Locking for the snapshots, and unlocking after them, changes nothing to believe.
LEMMA SnapshotLockKeeps ==
  ASSUME EventsTypeOK, SubscriptionInv, StreamInv, NEW s \in Conns,
         SnapshotLock(s) \/ SnapshotDone(s)
  PROVE  StreamInv'
<1>1. /\ Quiet
      /\ \/ cpc[s] = "rlock" /\ cpc'[s] = "snapshot" /\ todo'[s] = wants[s] /\ fan'[s] = fan[s]
         \/ /\ cpc[s] = "snapshot" /\ cpc'[s] = "stream" /\ todo[s] = {} /\ todo'[s] = {}
            /\ \A c \in Chans : fan'[s][c] # fan[s][c] => fan'[s][c] = "receiving"
      /\ UNCHANGED <<subscribers, buffer, wants, held, merged, gone, view, lost>>
  BY DEF SnapshotLock, SnapshotDone, MoveTo, RLock, RUnlock, EventsTypeOK, Quiet
<1>2. \A x \in Conns : x # s => Untouched(x)
  BY DEF SnapshotLock, SnapshotDone, MoveTo, EventsTypeOK, Untouched
<1>3. InOrder(s)
  BY DEF StreamInv
<1>4. \A c \in Chans : /\ Unsubscribed(s, c)' <=> Unsubscribed(s, c)
                       /\ Subscribed(s, c)' <=> Subscribed(s, c)
  BY <1>1 DEF Unsubscribed, Subscribed
<1>5. IsListed(s)'
  BY <1>1, <1>3, <1>4 DEF InOrder, IsListed
<1>6. StartsEmpty(s)' /\ KeepsChannels(s)'
  BY <1>1, <1>3, <1>4 DEF InOrder, StartsEmpty, KeepsChannels
<1>7. ASSUME NEW c \in Chans PROVE Follows(s, c)'
  <2>1. ASSUME Subscribed(s, c)' PROVE Shown(s, c)' = Shown(s, c)
    BY <1>1, <1>4, <2>1, QuietRosters DEF Shown, Framed, Subscribed, Unsubscribed
  <2>2. ASSUME Subscribed(s, c)' PROVE Believes(s, c)' = Believes(s, c)
    BY <1>1, <2>1, <2>2 DEF Believes, InFlight
  <2> QED BY <1>1, <1>3, <1>4, <2>2, QuietRosters, FollowsOn DEF InOrder
<1>8. InOrder(s)'
  BY <1>5, <1>6, <1>7 DEF InOrder
<1> QED BY <1>1, <1>2, <1>4, <1>8, StepOfOne

\* A frame shows the roster as it is.
LEMMA SnapshotFrameKeeps ==
  ASSUME EventsTypeOK, StreamInv, NEW s \in Conns, NEW c \in Chans, SnapshotFrame(s, c)
  PROVE  StreamInv'
<1>1. /\ Quiet
      /\ cpc[s] = "snapshot" /\ cpc' = cpc
      /\ c \in todo[s] /\ todo'[s] = todo[s] \ {c}
      /\ view'[s][c] = Roster(c)
      /\ \A d \in Chans : d # c => view'[s][d] = view[s][d]
      /\ UNCHANGED <<subscribers, buffer, wants, fan, held, merged, gone, lost>>
  BY DEF SnapshotFrame, MoveTo, Visit, registry, EventsTypeOK, Quiet
<1>2. \A x \in Conns : x # s => Untouched(x)
  BY DEF SnapshotFrame, MoveTo, Visit, EventsTypeOK, Untouched
<1>3. InOrder(s)
  BY DEF StreamInv
<1>4. \A d \in Chans : /\ Unsubscribed(s, d)' <=> Unsubscribed(s, d)
                       /\ Subscribed(s, d)' <=> Subscribed(s, d)
  BY <1>1 DEF Unsubscribed, Subscribed
<1>5. IsListed(s)'
  BY <1>1, <1>3, <1>4 DEF InOrder, IsListed
<1>6. StartsEmpty(s)' /\ KeepsChannels(s)'
  BY <1>1, <1>3, <1>4 DEF InOrder, StartsEmpty, KeepsChannels
<1>7. ASSUME NEW d \in Chans PROVE Follows(s, d)'
  <2>1. Shown(s, d)' = Shown(s, d)
    BY <1>1, QuietRosters DEF Shown, Framed
  <2>2. Believes(s, d)' = Believes(s, d)
    BY <1>1, <2>1 DEF Believes, InFlight
  <2> QED BY <1>1, <1>3, <1>4, <2>2, QuietRosters, FollowsOn DEF InOrder
<1>8. InOrder(s)'
  BY <1>5, <1>6, <1>7 DEF InOrder
<1> QED BY <1>1, <1>2, <1>4, <1>8, StepOfOne

\* A handler that winds down has nothing to follow.
LEMMA WindingDownKeeps ==
  ASSUME EventsTypeOK, SubscriptionInv, StreamInv, NEW s \in Conns,
         \/ SnapshotFails(s) \/ Leave(s)
         \/ \E c \in Chans : Unlink(s, c) \/ CloseBuffer(s, c)
  PROVE  StreamInv'
<1>1. /\ Quiet
      /\ cpc[s] \in {"snapshot", "stream", "cancel"} /\ cpc'[s] \in {"cancel", "done"}
      /\ \A c \in Chans : s \in subscribers'[c] => s \in subscribers[c]
      /\ UNCHANGED <<buffer, wants, fan, held, merged, gone, view, lost>>
  <2>1. CASE SnapshotFails(s)
    BY <2>1 DEF SnapshotFails, MoveTo, RUnlock, EventsTypeOK, Quiet
  <2>2. CASE Leave(s)
    BY <2>2 DEF Leave, MoveTo, registry, EventsTypeOK, Quiet
  <2>3. CASE \E c \in Chans : Unlink(s, c)
    BY <2>3 DEF Unlink, MoveTo, registry, EventsTypeOK, Quiet
  <2>4. CASE \E c \in Chans : CloseBuffer(s, c)
    BY <2>4 DEF CloseBuffer, MoveTo, Visit, registry, EventsTypeOK, Quiet
  <2> QED BY <2>1, <2>2, <2>3, <2>4
<1>2. \A x \in Conns : x # s => Untouched(x)
  <2>1. CASE SnapshotFails(s) \/ Leave(s)
    BY <2>1 DEF SnapshotFails, Leave, MoveTo, EventsTypeOK, Untouched
  <2>2. ASSUME NEW c \in Chans, Unlink(s, c) \/ CloseBuffer(s, c)
        PROVE  \A x \in Conns : x # s => Untouched(x)
    BY <2>2 DEF Unlink, CloseBuffer, MoveTo, Visit, EventsTypeOK, Untouched
  <2> QED BY <2>1, <2>2
<1>3. InOrder(s)
  BY DEF StreamInv
<1>4. \A c \in Chans : (Unsubscribed(s, c)' => Unsubscribed(s, c)) /\ ~Subscribed(s, c)'
  BY <1>1 DEF Unsubscribed, Subscribed
<1>5. IsListed(s)'
  BY <1>1, <1>3, <1>4 DEF InOrder, IsListed
<1>6. StartsEmpty(s)' /\ KeepsChannels(s)'
  BY <1>1, <1>3, <1>4 DEF InOrder, StartsEmpty, KeepsChannels
<1>7. \A c \in Chans : Follows(s, c)'
  BY <1>4 DEF Follows
<1>8. InOrder(s)'
  BY <1>5, <1>6, <1>7 DEF InOrder
<1> QED BY <1>1, <1>2, <1>4, <1>8, StepOfOne

\* Nor has the stream of a client that hung up.
LEMMA HangUpKeeps ==
  ASSUME EventsTypeOK, StreamInv, NEW s \in Conns, HangUp(s)
  PROVE  StreamInv'
<1>1. /\ Quiet
      /\ s \in gone' /\ gone \subseteq gone'
      /\ UNCHANGED <<cpc, todo, subscribers, buffer, wants, fan, held, merged, lost>>
  BY DEF HangUp, registry, EventsTypeOK, Quiet
<1>2. \A x \in Conns : x # s => Untouched(x)
  BY DEF HangUp, EventsTypeOK, Untouched
<1>3. InOrder(s)
  BY DEF StreamInv
<1>4. \A c \in Chans : /\ Unsubscribed(s, c)' <=> Unsubscribed(s, c)
                       /\ Subscribed(s, c)' <=> Subscribed(s, c)
  BY <1>1 DEF Unsubscribed, Subscribed
<1>5. IsListed(s)' /\ StartsEmpty(s)' /\ KeepsChannels(s)'
  BY <1>1, <1>3, <1>4 DEF InOrder, IsListed, StartsEmpty, KeepsChannels
<1>6. \A c \in Chans : Follows(s, c)'
  BY <1>1 DEF Follows
<1>7. InOrder(s)'
  BY <1>5, <1>6 DEF InOrder
<1> QED BY <1>1, <1>2, <1>4, <1>7, StepOfOne

\* What is delivered was the first on its way.
LEMMA DeliverKeeps ==
  ASSUME EventsTypeOK, StreamInv, NEW s \in Conns, Deliver(s)
  PROVE  StreamInv'
<1> DEFINE e == Head(merged[s])
           rest == Tail(merged[s])
<1>1. /\ Quiet
      /\ cpc[s] = "stream" /\ cpc' = cpc
      /\ merged'[s] = rest
      /\ UNCHANGED <<todo, subscribers, buffer, wants, fan, held, gone, lost>>
  BY DEF Deliver, MoveTo, registry, EventsTypeOK, Quiet
<1>2. merged[s] \in Seq(Event) /\ merged[s] # <<>>
  BY DEF Deliver, EventsTypeOK
<1>3. e \in Event /\ rest \in Seq(Event) /\ merged[s] = <<e>> \o rest
  BY <1>2, HeadTailProperties
<1>4. view' = [view EXCEPT ![s][e.chan] = Applied(view[s][e.chan], e)]
  BY DEF Deliver
<1> HIDE DEF e, rest
<1>5. \A x \in Conns : x # s => Untouched(x)
  <2>1. \A x \in Conns : x # s => view'[x] = view[x]
    BY <1>4 DEF EventsTypeOK
  <2>2. \A x \in Conns : x # s => merged'[x] = merged[x]
    BY DEF Deliver, EventsTypeOK
  <2> QED BY <1>1, <2>1, <2>2 DEF Untouched
<1>6. InOrder(s)
  BY DEF StreamInv
<1>7. \A c \in Chans : /\ Unsubscribed(s, c)' <=> Unsubscribed(s, c)
                       /\ Subscribed(s, c)' <=> Subscribed(s, c)
  BY <1>1 DEF Unsubscribed, Subscribed
<1>8. IsListed(s)' /\ StartsEmpty(s)' /\ KeepsChannels(s)'
  BY <1>1, <1>6, <1>7 DEF InOrder, IsListed, StartsEmpty, KeepsChannels
<1>9. ASSUME NEW c \in Chans PROVE Follows(s, c)'
  <2> DEFINE shown == view[s][c]
             shownNext == view'[s][c]
             ahead == held[s][c] \o buffer[s][c]
  <2>1. shown \in SUBSET Users /\ ahead \in Seq(Event)
    BY ConcatProperties DEF EventsTypeOK
  <2>2. shownNext = IF e.chan = c THEN Applied(shown, e) ELSE shown
    BY <1>3, <1>4 DEF EventsTypeOK, Event
  <2>3. shownNext = Arrived(<<e>>, c, shown)
    BY <1>3, <2>1, <2>2, ArrivedOne
  <2>4. <<e>> \in Seq(Event)
    BY <1>3
  <2>5. Shown(s, c) = shown /\ Shown(s, c)' = shownNext
    BY <1>1 DEF Shown, Framed
  <2>6. InFlight(s, c) = (<<e>> \o rest) \o ahead /\ InFlight(s, c)' = rest \o ahead
    BY <1>1, <1>3 DEF InFlight
  <2> HIDE DEF shown, shownNext, ahead
  <2>7. Arrived((<<e>> \o rest) \o ahead, c, shown) = Arrived(rest \o ahead, c, shownNext)
    <3> DEFINE first == <<e>>
    <3>1. first \in Seq(Event) /\ shownNext = Arrived(first, c, shown)
      BY <2>3, <2>4
    <3> HIDE DEF first
    <3> DEFINE both == first \o rest
    <3>2. both \in Seq(Event)
      BY <1>3, <3>1, ConcatProperties
    <3>3. Arrived(both, c, shown) = Arrived(rest, c, shownNext)
      BY <1>3, <3>1, ArrivedConcat
    <3> HIDE DEF both
    <3>4. Arrived(both \o ahead, c, shown) = Arrived(ahead, c, Arrived(both, c, shown))
      BY <2>1, <3>2, ArrivedConcat
    <3>5. Arrived(rest \o ahead, c, shownNext) = Arrived(ahead, c, Arrived(rest, c, shownNext))
      BY <1>3, <2>1, ArrivedConcat
    <3> QED BY <3>3, <3>4, <3>5 DEF both, first
  <2>8. Believes(s, c)' = Believes(s, c)
    BY <2>5, <2>6, <2>7 DEF Believes
  <2> QED BY <1>1, <1>6, <1>7, <2>8, QuietRosters, FollowsOn DEF InOrder
<1>10. InOrder(s)'
  BY <1>8, <1>9 DEF InOrder
<1> QED BY <1>1, <1>5, <1>7, <1>10, StepOfOne

-----------------------------------------------------------------------------
(* The fan-in goroutines *)

\* A step of a fan-in goroutine leaves the handlers and the requests alone.
LEMMA FanInFrame ==
  ASSUME NEW s \in Conns, NEW c \in Chans, FanIn(s, c)
  PROVE  Quiet /\ UNCHANGED <<subscribers, closed, cpc, wants, todo, gone, view, lost>>
BY DEF FanIn, FanReceive, FanForward, FanEnds, FanMoves, registry, Quiet

\* Once a fan-in goroutine runs, its handler has sent the snapshots; when the
\* goroutine is not forwarding it holds nothing.
LEMMA FanInRuns ==
  ASSUME StreamInv, NEW s \in Conns, NEW c \in Chans, fan[s][c] \in {"receiving", "forwarding"}
  PROVE  /\ cpc[s] \notin {"new", "subscribe", "rlock", "snapshot"}
         /\ fan[s][c] = "receiving" => held[s][c] = <<>>
BY DEF StreamInv, InOrder, StartsEmpty

\* An event goes from the buffer to the goroutine ...
LEMMA FanReceiveKeeps ==
  ASSUME EventsTypeOK, StreamInv, NEW s \in Conns, NEW c \in Chans, FanReceive(s, c)
  PROVE  StreamInv'
<1> DEFINE e == Head(buffer[s][c])
           rest == Tail(buffer[s][c])
           first == <<e>>
<1>1. Quiet /\ UNCHANGED <<subscribers, closed, cpc, wants, todo, gone, view, lost>>
  BY FanInFrame DEF FanIn
<1>2. /\ held' = [held EXCEPT ![s][c] = first]
      /\ buffer' = [buffer EXCEPT ![s][c] = rest]
      /\ fan' = [fan EXCEPT ![s][c] = "forwarding"]
      /\ merged' = merged
      /\ fan[s][c] = "receiving"
  BY DEF FanReceive, FanMoves
<1>3. buffer[s][c] \in Seq(Event) /\ buffer[s][c] # <<>>
  BY DEF FanReceive, EventsTypeOK
<1>4. /\ e \in Event /\ rest \in Seq(Event) /\ first \in Seq(Event)
      /\ buffer[s][c] = first \o rest
  BY <1>3, HeadTailProperties
<1>5. /\ \A i \in DOMAIN first : first[i] = e
      /\ e = buffer[s][c][1] /\ 1 \in DOMAIN buffer[s][c]
      /\ \A i \in DOMAIN rest : i + 1 \in DOMAIN buffer[s][c] /\ rest[i] = buffer[s][c][i + 1]
  <2>1. \A i \in DOMAIN first : first[i] = e
    OBVIOUS
  <2>2. e = buffer[s][c][1] /\ 1 \in DOMAIN buffer[s][c]
    BY <1>3
  <2>3. ASSUME NEW i \in DOMAIN rest
        PROVE  i + 1 \in DOMAIN buffer[s][c] /\ rest[i] = buffer[s][c][i + 1]
    BY <1>3, HeadTailProperties, LenProperties
  <2> QED BY <2>1, <2>2, <2>3
<1> HIDE DEF e, rest, first
<1>6. \A x \in Conns : x # s => Untouched(x)
  BY <1>1, <1>2 DEF EventsTypeOK, Untouched
<1>7. InOrder(s) /\ cpc[s] \notin {"new", "subscribe", "rlock", "snapshot"} /\ held[s][c] = <<>>
  BY <1>2, FanInRuns DEF StreamInv
<1>8. \A d \in Chans : /\ Unsubscribed(s, d)' <=> Unsubscribed(s, d)
                       /\ Subscribed(s, d)' <=> Subscribed(s, d)
  BY <1>1 DEF Unsubscribed, Subscribed
<1>9. /\ held'[s][c] = first /\ buffer'[s][c] = rest /\ fan'[s][c] = "forwarding"
      /\ \A d \in Chans : d # c => held'[s][d] = held[s][d] /\ buffer'[s][d] = buffer[s][d]
                                   /\ fan'[s][d] = fan[s][d]
  BY <1>2 DEF EventsTypeOK
<1>10. IsListed(s)'
  BY <1>1, <1>7, <1>8 DEF InOrder, IsListed
<1>11. StartsEmpty(s)'
  BY <1>1, <1>3, <1>7, <1>8, <1>9 DEF InOrder, StartsEmpty
<1>12. KeepsChannels(s)'
  BY <1>5, <1>7, <1>9 DEF InOrder, KeepsChannels
<1>13. ASSUME NEW d \in Chans PROVE Follows(s, d)'
  <2>1. InFlight(s, d)' = InFlight(s, d)
    <3>1. CASE d # c
      BY <1>2, <1>9, <3>1 DEF InFlight
    <3>2. <<>> \o (first \o rest) = first \o rest
      BY <1>4, ConcatProperties, ConcatEmptySeq
    <3>3. CASE d = c
      BY <1>2, <1>4, <1>7, <1>9, <3>2, <3>3 DEF InFlight
    <3> QED BY <3>1, <3>3
  <2>2. Believes(s, d)' = Believes(s, d)
    BY <1>1, <2>1, QuietRosters DEF Believes, Shown, Framed
  <2> QED BY <1>1, <1>7, <1>8, <2>2, QuietRosters, FollowsOn DEF InOrder
<1>14. InOrder(s)'
  BY <1>10, <1>11, <1>12, <1>13 DEF InOrder
<1> QED BY <1>1, <1>6, <1>8, <1>14, StepOfOne

\* ... and from there to merged, behind the events of all channels.
LEMMA FanForwardKeeps ==
  ASSUME TypeOK, EventsTypeOK, StreamInv, NEW s \in Conns, NEW c \in Chans, FanForward(s, c)
  PROVE  StreamInv'
<1> DEFINE h == held[s][c]
           longer == merged[s] \o h
<1>1. Quiet /\ UNCHANGED <<subscribers, closed, cpc, wants, todo, gone, view, lost>>
  BY FanInFrame DEF FanIn
<1>2. /\ merged' = [merged EXCEPT ![s] = longer]
      /\ held' = [held EXCEPT ![s][c] = <<>>]
      /\ fan' = [fan EXCEPT ![s][c] = "receiving"]
      /\ buffer' = buffer
      /\ fan[s][c] = "forwarding"
  BY DEF FanForward, FanMoves
<1>3. merged[s] \in Seq(Event) /\ h \in Seq(Event) /\ longer \in Seq(Event)
  BY ConcatProperties DEF EventsTypeOK
<1>4. InOrder(s) /\ cpc[s] \notin {"new", "subscribe", "rlock", "snapshot"}
  BY <1>2, FanInRuns DEF StreamInv
<1>5. \A i \in DOMAIN h : h[i].chan = c
  BY <1>4 DEF InOrder, KeepsChannels
<1>6. \A x \in Conns : x # s => Untouched(x)
  BY <1>1, <1>2 DEF EventsTypeOK, Untouched
<1>7. merged'[s] = longer
  BY <1>2 DEF EventsTypeOK
<1>8. \A d \in Chans : /\ Unsubscribed(s, d)' <=> Unsubscribed(s, d)
                       /\ Subscribed(s, d)' <=> Subscribed(s, d)
  BY <1>1 DEF Unsubscribed, Subscribed
<1>9. /\ held'[s][c] = <<>> /\ fan'[s][c] = "receiving"
      /\ \A d \in Chans : d # c => held'[s][d] = held[s][d] /\ fan'[s][d] = fan[s][d]
  BY <1>2 DEF EventsTypeOK
<1>10. IsListed(s)'
  BY <1>1, <1>4, <1>8 DEF InOrder, IsListed
<1>11. StartsEmpty(s)'
  BY <1>1, <1>2, <1>4, <1>8, <1>9 DEF InOrder, StartsEmpty
<1>12. KeepsChannels(s)'
  BY <1>2, <1>4, <1>9 DEF InOrder, KeepsChannels
<1>13. ASSUME NEW d \in Chans PROVE Follows(s, d)'
  <2> DEFINE m == merged[s]
             shown == Shown(s, d)
             arrived == Arrived(m, d, shown)
             hd == held[s][d]
             bd == buffer[s][d]
  <2>1. hd \in Seq(Event) /\ bd \in Seq(Event) /\ m \in Seq(Event)
    BY DEF EventsTypeOK
  <2>2. arrived \in SUBSET Users
    BY ArrivedType
  <2>3. Believes(s, d) = Arrived(bd, d, Arrived(hd, d, arrived))
    BY BelievesInOrder
  <2>4. Shown(s, d)' = shown
    BY <1>1, QuietRosters DEF Shown, Framed
  <2>5. InFlight(s, d)' = longer \o (held'[s][d] \o bd)
    BY <1>2, <1>7 DEF InFlight
  <2> HIDE DEF h, longer, m, shown, arrived, hd, bd
  <2>6. Arrived(longer, d, shown) = Arrived(h, d, arrived)
    BY <1>3, <2>1, ArrivedConcat DEF longer, arrived, m
  <2>7. CASE d = c
    <3>1. InFlight(s, d)' = longer \o (<<>> \o bd)
      BY <1>9, <2>5, <2>7
    <3>2. <<>> \o bd = bd
      BY <2>1, ConcatEmptySeq
    <3>3. Arrived(longer \o bd, d, shown) = Arrived(bd, d, Arrived(longer, d, shown))
      BY <1>3, <2>1, ArrivedConcat
    <3>4. h = hd
      BY <2>7 DEF h, hd
    <3>5. Believes(s, d)' = Believes(s, d)
      BY <2>3, <2>4, <2>6, <3>1, <3>2, <3>3, <3>4 DEF Believes
    <3> QED BY <1>1, <1>4, <1>8, <3>5, QuietRosters, FollowsOn DEF InOrder
  <2>8. CASE d # c
    <3>1. InFlight(s, d)' = longer \o (hd \o bd)
      BY <1>9, <2>5, <2>8 DEF hd
    <3>2. Arrived(longer \o (hd \o bd), d, shown)
            = Arrived(bd, d, Arrived(hd, d, Arrived(longer, d, shown)))
      BY <1>3, <2>1, ArrivedInOrder
    <3>3. Arrived(h, d, arrived) = arrived
      BY <1>5, <2>2, <2>8, ArrivedElsewhere DEF h
    <3>4. Believes(s, d)' = Believes(s, d)
      BY <2>3, <2>4, <2>6, <3>1, <3>2, <3>3 DEF Believes
    <3> QED BY <1>1, <1>4, <1>8, <3>4, QuietRosters, FollowsOn DEF InOrder
  <2> QED BY <2>7, <2>8
<1>14. InOrder(s)'
  BY <1>10, <1>11, <1>12, <1>13 DEF InOrder
<1> QED BY <1>1, <1>6, <1>8, <1>14, StepOfOne

\* A goroutine ends, with what it holds, only when its handler winds down.
LEMMA FanEndsKeeps ==
  ASSUME EventsTypeOK, SubscriptionInv, StreamInv, NEW s \in Conns, NEW c \in Chans, FanEnds(s, c)
  PROVE  StreamInv'
<1>1. Quiet /\ UNCHANGED <<subscribers, closed, cpc, wants, todo, gone, view, lost>>
  BY FanInFrame DEF FanIn
<1>2. /\ held' = [held EXCEPT ![s][c] = <<>>]
      /\ fan' = [fan EXCEPT ![s][c] = "ended"]
      /\ buffer' = buffer /\ merged' = merged
  BY DEF FanEnds, FanMoves
<1>3. cpc[s] \in {"cancel", "done"}
  BY DEF FanEnds, StopFanIn, SubscriptionInv, ClosedAreCancelled
<1>4. InOrder(s)
  BY DEF StreamInv
<1>5. \A x \in Conns : x # s => Untouched(x)
  BY <1>1, <1>2 DEF EventsTypeOK, Untouched
<1>6. \A d \in Chans : /\ Unsubscribed(s, d)' <=> Unsubscribed(s, d)
                       /\ ~Subscribed(s, d)'
  BY <1>1, <1>3 DEF Unsubscribed, Subscribed
<1>7. \A d \in Chans : held'[s][d] = <<>> \/ (held'[s][d] = held[s][d] /\ fan'[s][d] = fan[s][d])
  BY <1>2 DEF EventsTypeOK
<1>8. IsListed(s)'
  BY <1>1, <1>4, <1>6 DEF InOrder, IsListed
<1>9. StartsEmpty(s)' /\ KeepsChannels(s)'
  BY <1>1, <1>2, <1>3, <1>4, <1>6, <1>7 DEF InOrder, StartsEmpty, KeepsChannels
<1>10. \A d \in Chans : Follows(s, d)'
  BY <1>6 DEF Follows
<1>11. InOrder(s)'
  BY <1>8, <1>9, <1>10 DEF InOrder
<1> QED BY <1>1, <1>5, <1>6, <1>11, StepOfOne

-----------------------------------------------------------------------------
(* Requests and their broadcasts *)

\* Connections are where they were.
Settled == UNCHANGED <<subscribers, cpc, wants, todo, fan, held, merged, gone, view>>

\* A step of a request that sends nothing, and after which no more is told of
\* what a connection did not miss, keeps the connections in order.
LEMMA NothingSent ==
  ASSUME StreamInv, Settled, buffer' = buffer, Channels' = Channels, lost \subseteq lost',
         \A s \in Conns, c \in Chans, u \in Users :
           Subscribed(s, c) /\ <<s, c>> \notin lost' /\ Told(s, c, u)' => Told(s, c, u)
  PROVE  \A s \in Conns : InOrder(s)'
<1>1. \A c \in Chans : Roster(c)' = Roster(c)
  BY DEF Roster
<1> QED BY <1>1, OthersInOrder DEF StreamInv, Settled

\* What one goroutine does with its request and its broadcast is true if it was.
LEMMA OthersAnnounce ==
  ASSUME EventsTypeOK, NewsAreTrue, CastsAreNews, NEW t \in Threads,
         UNCHANGED <<cpc, wants, todo, Channels>>,
         \A x \in Threads : x # t =>
           /\ pc'[x] = pc[x] /\ call'[x] = call[x] /\ news'[x] = news[x]
           /\ casting'[x] = casting[x] /\ targets'[x] = targets[x],
         /\ pc'[t] \notin {"mark", "publish"} => news'[t] = Silence
         /\ news'[t].join \cap news'[t].leave = {}
         /\ \A c \in news'[t].join : call'[t].user \in Roster(c)
         /\ \A c \in news'[t].leave : call'[t].user \notin Roster(c),
         /\ casting'[t] \subseteq news'[t][Stage(t)']
         /\ \A c \in casting'[t], s \in targets'[t] : ~Unsubscribed(s, c)
  PROVE  NewsAreTrue' /\ CastsAreNews'
<1>1. \A c : Roster(c)' = Roster(c)
  BY DEF Roster
<1>2. NewsAreTrue'
  BY <1>1 DEF NewsAreTrue
<1>3. \A x \in Threads : x # t => Stage(x)' = Stage(x)
  BY DEF Stage
<1>4. \A s, c : Unsubscribed(s, c)' <=> Unsubscribed(s, c)
  BY DEF Unsubscribed
<1>5. CastsAreNews'
  BY <1>3, <1>4 DEF CastsAreNews
<1> QED BY <1>2, <1>5

\* Outside the lock of the registry, requests begin and end without news.
LEMMA RequestKeeps ==
  ASSUME TypeOK, StreamInv, NEW t \in Threads, UNCHANGED streams,
         \/ \E r \in Request : PttConnect(t, r)
         \/ LookupUser(t) \/ ScanChannels(t) \/ StoreUser(t) \/ Lock(t) \/ MarkDirty(t) \/ Reply(t)
         \/ FatalMapRace(t)
  PROVE  StreamInv'
<1>1. UNCHANGED <<Channels, news>>
  BY DEF PttConnect, LookupUser, ScanChannels, StoreUser, Lock, MarkDirty, Reply, FatalMapRace
<1>2. ASSUME NEW x \in Threads
      PROVE  /\ call'[x] = call[x] \/ news[x] = Silence
             /\ pc'[x] \notin {"mark", "publish"} => news[x] = Silence
  <2>1. CASE \E r \in Request : PttConnect(t, r)
    BY <2>1 DEF PttConnect, Goto, TypeOK, StreamInv, NewsAreTrue
  <2>2. CASE LookupUser(t) \/ ScanChannels(t) \/ StoreUser(t) \/ Lock(t) \/ FatalMapRace(t)
    BY <2>2 DEF LookupUser, ScanChannels, StoreUser, Lock, FatalMapRace, Goto, TypeOK, StreamInv,
                NewsAreTrue
  <2>3. CASE MarkDirty(t)
    BY <2>3 DEF MarkDirty, Goto, TypeOK, StreamInv, NewsAreTrue
  <2>4. CASE Reply(t)
    BY <2>4 DEF Reply, Goto, TypeOK, StreamInv, NewsAreTrue
  <2> QED BY <2>1, <2>2, <2>3, <2>4
<1>3. NewsAreTrue'
  BY <1>1, <1>2 DEF StreamInv, NewsAreTrue, Silence, Roster
<1>4. CastsAreNews'
  BY <1>1 DEF StreamInv, CastsAreNews, Stage, Unsubscribed, streams
<1>5. ASSUME NEW s \in Conns, NEW c \in Chans, NEW u \in Users, Told(s, c, u)'
      PROVE  Told(s, c, u)
  <2>1. \A x \in Threads : c \in news[x].join \cup news[x].leave => call'[x] = call[x]
    BY <1>2 DEF Silence
  <2> QED BY <1>1, <1>5, <2>1 DEF Told, streams
<1>6. \A s \in Conns : InOrder(s)'
  BY <1>1, <1>5, NothingSent DEF streams, Settled
<1> QED BY <1>3, <1>4, <1>6 DEF StreamInv

\* A broadcast begins: from now on it is not told to its subscribers.
LEMMA CollectKeeps ==
  ASSUME TypeOK, EventsTypeOK, StreamInv, NEW t \in Threads, NEW c \in Chans, Collect(t, c)
  PROVE  StreamInv'
<1> USE DEF StreamInv
<1>1. UNCHANGED registry /\ Settled /\ UNCHANGED <<buffer, lost>>
  BY DEF Collect, Settled
<1>2. UNCHANGED <<pc, call, news, Channels>>
  BY <1>1 DEF registry
<1>3. /\ casting[t] = {} /\ casting'[t] = {c} /\ c \in news[t][Stage(t)]
      /\ targets'[t] = {s \in subscribers[c] : Stage(t) = "update" => owner[s] # call[t].user}
      /\ \A x \in Threads : x # t => casting'[x] = casting[x] /\ targets'[x] = targets[x]
  BY DEF Collect, EventsTypeOK
<1>4. Stage(t)' = Stage(t)
  BY <1>2 DEF Stage
<1>5. \A s \in targets'[t] : ~Unsubscribed(s, c)
  BY <1>3 DEF InOrder, IsListed, EventsTypeOK
<1>6. NewsAreTrue' /\ CastsAreNews'
  <2>1. /\ pc'[t] \notin {"mark", "publish"} => news'[t] = Silence
        /\ news'[t].join \cap news'[t].leave = {}
        /\ \A d \in news'[t].join : call'[t].user \in Roster(d)
        /\ \A d \in news'[t].leave : call'[t].user \notin Roster(d)
    BY <1>2 DEF NewsAreTrue
  <2>2. casting'[t] \subseteq news'[t][Stage(t)']
    BY <1>2, <1>3, <1>4
  <2>3. UNCHANGED <<cpc, wants, todo>>
    BY <1>1 DEF Settled
  <2> QED BY <1>2, <1>3, <1>5, <2>1, <2>2, <2>3, OthersAnnounce
<1>7. ASSUME NEW s \in Conns, NEW d \in Chans, NEW u \in Users, Subscribed(s, d), Told(s, d, u)'
      PROVE  Told(s, d, u)
  <2>1. d \in news[t].join \cup news[t].leave => ~(d \in casting'[t] /\ s \notin targets'[t])
    <3>1. SUFFICES ASSUME d \in news[t].join \cup news[t].leave, d = c
                   PROVE  s \in targets'[t]
      BY <1>3
    <3>2. Stage(t) # "update"
      BY <3>1 DEF Stage
    <3> QED BY <1>3, <1>7, <3>1, <3>2 DEF InOrder, IsListed
  <2> QED BY <1>2, <1>3, <1>7, <2>1 DEF Told
<1>8. \A s \in Conns : InOrder(s)'
  BY <1>1, <1>2, <1>7, NothingSent
<1> QED BY <1>6, <1>8

\* A broadcast returns when all its targets have been offered the event.
LEMMA ReturnKeeps ==
  ASSUME TypeOK, EventsTypeOK, StreamInv, NEW t \in Threads, NEW c \in Chans, Return(t, c)
  PROVE  StreamInv'
<1> USE DEF StreamInv
<1>1. Settled /\ UNCHANGED <<buffer, lost, Channels, call, targets>>
  BY DEF Return, Publish, Settled
<1>2. /\ casting[t] = {c} /\ targets[t] = {} /\ casting'[t] = {}
      /\ \A x \in Threads : x # t => casting'[x] = casting[x] /\ news'[x] = news[x]
      /\ pc[t] = "publish" /\ pc' = pc
  BY DEF Return, Publish, Goto, EventsTypeOK, TypeOK
<1>3. /\ news'[t].join \subseteq news[t].join /\ news[t].join \subseteq news'[t].join \cup {c}
      /\ news'[t].leave \subseteq news[t].leave /\ news[t].leave \subseteq news'[t].leave \cup {c}
  <2>1. news' = [news EXCEPT ![t][Stage(t)] = @ \ {c}]
    BY DEF Return, Publish
  <2>2. Stage(t) \in {"join", "leave", "update"} /\ news[t] \in News
    BY DEF Stage, TypeOK
  <2> QED BY <2>1, <2>2 DEF TypeOK, News
<1>4. NewsAreTrue' /\ CastsAreNews'
  <2>1. /\ news'[t].join \cap news'[t].leave = {}
        /\ \A d \in news'[t].join : call'[t].user \in Roster(d)
        /\ \A d \in news'[t].leave : call'[t].user \notin Roster(d)
    BY <1>1, <1>3 DEF NewsAreTrue
  <2>2. UNCHANGED <<cpc, wants, todo>>
    BY <1>1 DEF Settled
  <2> QED BY <1>1, <1>2, <2>1, <2>2, OthersAnnounce
<1>5. ASSUME NEW s \in Conns, NEW d \in Chans, NEW u \in Users, Told(s, d, u)'
      PROVE  Told(s, d, u)
  <2>1. d \in news[t].join \cup news[t].leave /\ call[t] # NoRequest /\ call[t].user = u =>
          d \in casting[t] /\ s \notin targets[t]
    BY <1>1, <1>2, <1>3, <1>5 DEF Told
  <2> QED BY <1>1, <1>2, <1>5, <2>1 DEF Told
<1>6. \A s \in Conns : InOrder(s)'
  BY <1>1, <1>5, NothingSent
<1> QED BY <1>4, <1>6

\* A panic ends a request with all it has not announced: who was still to be
\* offered that missed it.
LEMMA PanicKeeps ==
  ASSUME TypeOK, EventsTypeOK, StreamInv, NEW t \in Threads, NEW c \in Chans, NEW s \in Conns,
         Panic(t, s, c)
  PROVE  StreamInv'
<1> USE DEF StreamInv
<1>1. Settled /\ UNCHANGED <<buffer, Channels>>
  BY DEF Panic, AbortPublish, Settled
<1>2. /\ casting'[t] = {} /\ targets'[t] = {} /\ news'[t] = Silence /\ call'[t] = NoRequest
      /\ \A x \in Threads : x # t =>
           /\ pc'[x] = pc[x] /\ call'[x] = call[x] /\ news'[x] = news[x]
           /\ casting'[x] = casting[x] /\ targets'[x] = targets[x]
      /\ casting[t] = {c}
      /\ lost' = lost \cup Unoffered(t, c)
  BY DEF Panic, AbortPublish, Goto, EventsTypeOK, TypeOK
<1>3. NewsAreTrue' /\ CastsAreNews'
  <2>1. UNCHANGED <<cpc, wants, todo>>
    BY <1>1 DEF Settled
  <2> QED BY <1>1, <1>2, <2>1, OthersAnnounce DEF Silence
<1>4. ASSUME NEW x \in Conns, NEW d \in Chans, NEW u \in Users,
             Subscribed(x, d), <<x, d>> \notin lost', Told(x, d, u)'
      PROVE  Told(x, d, u)
  <2>1. <<x, d>> \notin Unoffered(t, c)
    BY <1>2, <1>4
  <2>2. x \in subscribers[d]
    BY <1>4 DEF InOrder, IsListed
  <2>3. d \in news[t].join \cup news[t].leave => d \in casting[t] /\ x \notin targets[t]
    BY <1>2, <2>1, <2>2 DEF Unoffered
  <2> QED BY <1>2, <1>4, <2>3 DEF Told
<1>5. \A x \in Conns : InOrder(x)'
  BY <1>1, <1>2, <1>4, NothingSent
<1> QED BY <1>3, <1>5

\* An event is offered to one subscriber: who has room for it comes to believe it,
\* and who has none missed it.
LEMMA OfferKeeps ==
  ASSUME TypeOK, EventsTypeOK, EventsTypeOK', CastersAnnounce, StreamInv,
         NEW t \in Threads, NEW c \in Chans, NEW s \in Conns, Offer(t, s, c)
  PROVE  StreamInv'
<1> USE DEF StreamInv
<1> DEFINE e == EventOf(t, c)
           U == call[t].user
           longer == Append(buffer[s][c], e)
<1>1. UNCHANGED registry /\ Settled /\ casting' = casting
  BY DEF Offer, Settled
<1>2. UNCHANGED <<pc, call, news, Channels>>
  BY <1>1 DEF registry
<1>3. /\ casting[t] = {c} /\ s \in targets[t] /\ targets'[t] = targets[t] \ {s}
      /\ \A x \in Threads : x # t => targets'[x] = targets[x]
  BY DEF Offer, EventsTypeOK
<1>4. /\ e \in Event /\ Stage(t) \in {"join", "leave", "update"}
      /\ e.kind = Stage(t) /\ e.user = U /\ e.chan = c
  BY <1>3, EventOfIsEvent DEF EventOf
<1>5. \/ buffer' = [buffer EXCEPT ![s][c] = longer] /\ lost' = lost
      \/ buffer' = buffer /\ lost' = (IF Stage(t) = "update" THEN lost ELSE lost \cup {<<s, c>>})
  BY DEF Offer
<1>6. buffer[s][c] \in Seq(Event) /\ <<e>> \in Seq(Event) /\ longer = buffer[s][c] \o <<e>>
  BY <1>4, AppendIsConcat DEF EventsTypeOK
<1>7. c \in news[t][Stage(t)] /\ ~Unsubscribed(s, c)
  BY <1>3 DEF CastsAreNews
<1>8. \A i \in DOMAIN longer : longer[i] = e \/ (i \in DOMAIN buffer[s][c] /\ longer[i] = buffer[s][c][i])
  BY <1>4, <1>6, AppendProperties, LenProperties
<1>9. \A d \in Chans : Roster(d)' = Roster(d)
  BY <1>2 DEF Roster
<1> HIDE DEF e, longer
<1>10. NewsAreTrue' /\ CastsAreNews'
  <2>1. Stage(t)' = Stage(t)
    BY <1>2 DEF Stage
  <2>2. UNCHANGED <<cpc, wants, todo>>
    BY <1>1 DEF Settled
  <2>3. /\ pc'[t] \notin {"mark", "publish"} => news'[t] = Silence
        /\ news'[t].join \cap news'[t].leave = {}
        /\ \A d \in news'[t].join : call'[t].user \in Roster(d)
        /\ \A d \in news'[t].leave : call'[t].user \notin Roster(d)
    BY <1>2 DEF NewsAreTrue
  <2>4. /\ casting'[t] \subseteq news'[t][Stage(t)']
        /\ \A d \in casting'[t], x \in targets'[t] : ~Unsubscribed(x, d)
    BY <1>1, <1>2, <1>3, <2>1 DEF CastsAreNews
  <2> QED BY <1>1, <1>2, <1>3, <2>2, <2>3, <2>4, OthersAnnounce
<1>11. ASSUME NEW x \in Conns, NEW d \in Chans, NEW u \in Users, Told(x, d, u)',
              x # s \/ d # c \/ u # U
       PROVE  Told(x, d, u)
  BY <1>1, <1>2, <1>3, <1>11 DEF Told
<1>12. ASSUME NEW x \in Conns, x # s
       PROVE  InOrder(x)'
  <2>1. buffer'[x] = buffer[x]
    BY <1>5, <1>12 DEF EventsTypeOK
  <2>2. /\ cpc'[x] = cpc[x] /\ wants'[x] = wants[x] /\ todo'[x] = todo[x]
        /\ held'[x] = held[x] /\ merged'[x] = merged[x]
        /\ fan'[x] = fan[x] /\ view'[x] = view[x]
        /\ \A d \in Chans : x \in subscribers'[d] <=> x \in subscribers[d]
        /\ gone \subseteq gone' /\ lost \subseteq lost'
    BY <1>1, <1>5 DEF Settled
  <2> QED BY <1>9, <1>11, <1>12, <2>1, <2>2, OthersInOrder
<1>13. InOrder(s)'
  <2> USE DEF InOrder
  <2>1. \A d \in Chans : /\ Unsubscribed(s, d)' <=> Unsubscribed(s, d)
                         /\ Subscribed(s, d)' <=> Subscribed(s, d)
                         /\ Shown(s, d)' = Shown(s, d)
    BY <1>1, <1>9 DEF Unsubscribed, Subscribed, Shown, Framed, Settled
  <2>2. \A d \in Chans : d # c => buffer'[s][d] = buffer[s][d]
    BY <1>5 DEF EventsTypeOK
  <2>3. buffer'[s][c] = longer \/ buffer'[s][c] = buffer[s][c]
    BY <1>5 DEF EventsTypeOK
  <2>4. IsListed(s)'
    BY <1>1, <2>1 DEF IsListed, Settled
  <2>5. StartsEmpty(s)'
    BY <1>1, <1>7, <2>1, <2>2 DEF StartsEmpty, Settled
  <2>6. KeepsChannels(s)'
    <3>1. \A i \in DOMAIN longer : longer[i].chan = c
      BY <1>4, <1>8 DEF KeepsChannels
    <3> QED BY <1>1, <2>2, <2>3, <3>1 DEF KeepsChannels, Settled
  <2>7. ASSUME NEW d \in Chans, buffer'[s][d] = buffer[s][d]
        PROVE  Believes(s, d)' = Believes(s, d)
    BY <1>1, <2>1, <2>7 DEF Believes, InFlight, Settled
  <2>8. ASSUME NEW d \in Chans, d # c
        PROVE  Follows(s, d)'
    <3>1. <<s, d>> \notin lost' => <<s, d>> \notin lost
      BY <1>5
    <3> QED BY <1>1, <1>9, <1>11, <2>1, <2>2, <2>7, <2>8, <3>1, FollowsOn DEF Settled
  <2>9. ASSUME Stage(t) = "update", NEW u \in Users, Told(s, c, u)'
        PROVE  Told(s, c, u)
    BY <1>1, <1>2, <1>3, <2>9 DEF Told, Stage
  <2>10. CASE buffer' = buffer /\ Stage(t) = "update" /\ lost' = lost
    <3>1. Follows(s, c)'
      BY <1>1, <1>9, <2>1, <2>7, <2>9, <2>10, FollowsOn DEF Settled
    <3> QED BY <2>4, <2>5, <2>6, <2>8, <3>1
  <2>11. CASE <<s, c>> \in lost'
    <3>1. Follows(s, c)'
      BY <2>11 DEF Follows
    <3> QED BY <2>4, <2>5, <2>6, <2>8, <3>1
  <2>12. CASE buffer' = [buffer EXCEPT ![s][c] = longer] /\ lost' = lost
    <3> DEFINE b == buffer[s][c]
               h == held[s][c]
               m == merged[s]
               shown == Shown(s, c)
               before == Arrived(h, c, Arrived(m, c, shown))
               believed == Believes(s, c)
    <3>1. b \in Seq(Event) /\ h \in Seq(Event) /\ m \in Seq(Event)
      BY DEF EventsTypeOK
    <3>2. believed = Arrived(b, c, before) /\ believed \in SUBSET Users
      BY BelievesInOrder, ArrivedType DEF Believes
    <3>3. buffer'[s][c] = longer
      BY <2>12 DEF EventsTypeOK
    <3> DEFINE one == <<e>>
    <3>a. longer = b \o one /\ one \in Seq(Event)
      BY <1>6
    <3>b. longer \in Seq(Event)
      BY <1>4, <1>6, AppendProperties DEF longer
    <3>4. InFlight(s, c)' = m \o (h \o longer)
      BY <1>1, <3>3 DEF InFlight, Settled
    <3> HIDE DEF b, h, m, shown, before, believed, one
    <3>5. Arrived(m \o (h \o longer), c, shown) = Arrived(longer, c, before)
      BY <3>1, <3>b, ArrivedInOrder DEF before
    <3>6. Arrived(b \o one, c, before) = Arrived(one, c, believed)
      BY <3>1, <3>2, <3>a, ArrivedConcat
    <3>7. Arrived(one, c, believed) = Applied(believed, e)
      BY <1>4, <3>2, ArrivedOne DEF one
    <3>8. Believes(s, c)' = Applied(believed, e)
      BY <2>1, <3>4, <3>5, <3>6, <3>7, <3>a DEF Believes, shown
    <3>9. /\ Stage(t) = "join" => Applied(believed, e) = believed \cup {U}
          /\ Stage(t) = "leave" => Applied(believed, e) = believed \ {U}
          /\ Stage(t) = "update" => Applied(believed, e) = believed
      BY <1>4, AppliedCases
    <3>10. ASSUME NEW u \in Users, u # U
           PROVE  u \in Believes(s, c)' <=> u \in believed
      BY <1>4, <3>8, <3>9, <3>10
    <3>11. CASE Stage(t) = "update"
      <4>1. Believes(s, c)' = Believes(s, c)
        BY <3>8, <3>9, <3>11 DEF believed
      <4>2. Follows(s, c)'
        BY <1>1, <1>9, <2>1, <2>9, <2>12, <3>11, <4>1, FollowsOn DEF Settled
      <4> QED BY <2>4, <2>5, <2>6, <2>8, <4>2
    <3>12. CASE Stage(t) # "update"
      <4>1. U \in Believes(s, c)' <=> U \in Roster(c)
        BY <1>4, <1>7, <3>8, <3>9, <3>12 DEF NewsAreTrue
      <4>2. ASSUME NEW u \in Users, Told(s, c, u)', Subscribed(s, c)', s \notin gone', <<s, c>> \notin lost'
            PROVE  u \in Believes(s, c)' <=> u \in Roster(c)
        <5>1. CASE u = U
          BY <4>1, <5>1
        <5>2. CASE u # U
          <6>1. Told(s, c, u)
            BY <1>11, <4>2, <5>2
          <6>2. Subscribed(s, c) /\ s \notin gone /\ <<s, c>> \notin lost
            BY <1>1, <2>1, <2>12, <4>2 DEF Settled
          <6> QED BY <3>10, <5>2, <6>1, <6>2 DEF Follows, believed
        <5> QED BY <5>1, <5>2
      <4>3. Follows(s, c)'
        BY <1>9, <4>2 DEF Follows
      <4> QED BY <2>4, <2>5, <2>6, <2>8, <4>3
    <3> QED BY <3>11, <3>12
  <2> QED BY <1>5, <2>10, <2>11, <2>12
<1> QED BY <1>10, <1>12, <1>13

\* The registry changes for one user, and everyone has still to be told.
LEMMA CommitKeeps ==
  ASSUME TypeOK, EventsTypeOK, SerialInv, CastersAnnounce, StreamInv, NEW t \in Threads,
         Commit(t), UNCHANGED streams
  PROVE  StreamInv'
<1> USE DEF StreamInv
<1> DEFINE U == call[t].user
           L == ChannelsOf(U) \ target[t]
           J == target[t] \ ChannelsOf(U)
<1>1. call[t] \in Request /\ U \in Users /\ pc[t] = "commit" /\ call[t] # NoRequest
  BY ServedRequest, RequestFields DEF Commit, Goto
<1>2. L \in SUBSET Chans /\ J \in SUBSET Chans /\ target[t] \in SUBSET Chans
  BY <1>1, TypesOfMaps DEF TypeOK
<1>3. MoveUser(U, L, J) /\ RecordChannels(U, target[t]) /\ call' = call
  BY DEF Commit
<1>4. \A c \in Chans : Roster(c)' = NewRoster(c, U, L, J)
  BY <1>1, <1>2, <1>3, CommitMaps
<1>5. /\ news'[t].join = J /\ news'[t].leave = L
      /\ pc'[t] \in {"mark", "publish"}
      /\ \A x \in Threads : x # t => news'[x] = news[x] /\ pc'[x] = pc[x]
  BY DEF Commit, AfterUnlock, Goto, TypeOK
<1>6. UNCHANGED <<casting, targets>> /\ casting[t] = {} /\ news[t] = Silence
  BY <1>1 DEF streams, CastersAnnounce, NewsAreTrue
<1>7. \A x \in Threads : x # t /\ call[x] # NoRequest => call[x].user # U
  BY <1>1 DEF SerialInv
<1> HIDE DEF U, L, J
<1>8. J \cap L = {}
  BY DEF J, L
<1>9. \A c \in Chans, u \in Users :
        u # U \/ c \notin J \cup L => (u \in Roster(c)' <=> u \in Roster(c))
  BY <1>4 DEF NewRoster
<1>10. NewsAreTrue'
  <2>1. ASSUME NEW x \in Threads, x # t
        PROVE  /\ \A c \in news[x].join : call[x].user \in Roster(c)'
               /\ \A c \in news[x].leave : call[x].user \notin Roster(c)'
    <3>1. news[x].join \subseteq Chans /\ news[x].leave \subseteq Chans
      BY DEF TypeOK, News
    <3>2. CASE news[x] = Silence
      BY <3>2 DEF Silence
    <3>3. CASE news[x] # Silence
      <4>1. pc[x] # "idle"
        BY <3>3 DEF NewsAreTrue
      <4>2. call[x].user \in Users /\ call[x].user # U
        BY <1>7, <2>1, <4>1, ServedRequest, RequestFields
      <4> QED BY <1>9, <3>1, <4>2 DEF NewsAreTrue
    <3> QED BY <3>2, <3>3
  <2>2. /\ \A c \in J : U \in Roster(c)'
        /\ \A c \in L : U \notin Roster(c)'
    BY <1>2, <1>4, <1>8 DEF NewRoster
  <2>3. call'[t].user = U
    BY <1>3 DEF U
  <2> QED BY <1>3, <1>5, <1>8, <2>1, <2>2, <2>3 DEF NewsAreTrue
<1>11. CastsAreNews'
  <2>1. \A x \in Threads : x # t => Stage(x)' = Stage(x)
    BY <1>5 DEF Stage
  <2>2. \A s, c : Unsubscribed(s, c)' <=> Unsubscribed(s, c)
    BY DEF Unsubscribed, streams
  <2> QED BY <1>5, <1>6, <2>1, <2>2 DEF CastsAreNews
<1>12. ASSUME NEW s \in Conns
       PROVE  InOrder(s)'
  <2> USE DEF InOrder
  <2>1. \A c \in Chans : /\ Unsubscribed(s, c)' <=> Unsubscribed(s, c)
                         /\ Subscribed(s, c)' <=> Subscribed(s, c)
                         /\ Framed(s, c)' <=> Framed(s, c)
    BY DEF Unsubscribed, Subscribed, Framed, streams
  <2>2. IsListed(s)' /\ StartsEmpty(s)' /\ KeepsChannels(s)'
    BY <2>1 DEF IsListed, StartsEmpty, KeepsChannels, streams
  <2>3. ASSUME NEW c \in Chans
        PROVE  Follows(s, c)'
    <3>1. ASSUME NEW u \in Users, Told(s, c, u)'
          PROVE  Told(s, c, u) /\ (u # U \/ c \notin J \cup L)
      <4>1. u # U \/ c \notin J \cup L
        BY <1>1, <1>3, <1>5, <1>6, <3>1 DEF Told, U
      <4>2. Told(s, c, u)
        BY <1>3, <1>5, <1>6, <3>1 DEF Told, Silence
      <4> QED BY <4>1, <4>2
    <3>2. ASSUME NEW u \in Users, u \in Roster(c)' <=> u \in Roster(c)
          PROVE  u \in Believes(s, c)' <=> u \in Believes(s, c)
      <4>1. u \in Shown(s, c)' <=> u \in Shown(s, c)
        BY <2>1, <3>2 DEF Shown, streams
      <4>2. InFlight(s, c)' = InFlight(s, c)
        BY DEF InFlight, streams
      <4> DEFINE q == InFlight(s, c)
                 b1 == Shown(s, c)
      <4>3. Believes(s, c)' = Arrived(q, c, Shown(s, c)')
        BY <4>2 DEF Believes
      <4> QED BY <4>1, <4>3, ArrivedOfUser DEF Believes
    <3>3. UNCHANGED <<gone, lost>>
      BY DEF streams
    <3> QED BY <1>9, <2>1, <3>1, <3>2, <3>3, FollowsOn
  <2> QED BY <2>2, <2>3
<1> QED BY <1>10, <1>11, <1>12

-----------------------------------------------------------------------------
(* The theorem *)

LEMMA StreamNextKeeps ==
  TypeOK /\ EventsTypeOK /\ EventsTypeOK' /\ SerialInv /\ CastersAnnounce /\ SubscriptionInv
    /\ StreamInv /\ [EventsNext]_vars => StreamInv'
<1> SUFFICES ASSUME TypeOK, EventsTypeOK, EventsTypeOK', SerialInv, CastersAnnounce,
                    SubscriptionInv, StreamInv, [EventsNext]_vars
             PROVE  StreamInv'
  OBVIOUS
<1>1. ASSUME NEW t \in Threads, Requested(t) \/ Serving(t) \/ MapRace(t)
      PROVE  StreamInv'
  <2>1. CASE Commit(t) /\ UNCHANGED streams
    BY <2>1, CommitKeeps
  <2>2. CASE ~(Commit(t) /\ UNCHANGED streams)
    BY <1>1, <2>2, RequestKeeps DEF Requested, Serving, MapRace, Serve
  <2> QED BY <2>1, <2>2
<1>2. ASSUME NEW t \in Threads, Broadcasting(t)
      PROVE  StreamInv'
  BY <1>2, CollectKeeps, OfferKeeps, PanicKeeps, ReturnKeeps DEF Broadcasting
<1>3. ASSUME NEW s \in Conns, Handler(s)
      PROVE  StreamInv'
  BY <1>3, SubscribeKeeps, SnapshotLockKeeps, WindingDownKeeps DEF Handler
<1>4. ASSUME NEW s \in Conns, Client(s)
      PROVE  StreamInv'
  BY <1>4, OpenKeeps, SnapshotFrameKeeps, DeliverKeeps, HangUpKeeps DEF Client
<1>5. ASSUME NEW s \in Conns, NEW c \in Chans, FanIn(s, c)
      PROVE  StreamInv'
  BY <1>5, FanReceiveKeeps, FanForwardKeeps, FanEndsKeeps DEF FanIn
<1>6. CASE UNCHANGED vars
  <2>1. UNCHANGED <<Channels, news, call, pc>> /\ UNCHANGED streams
    BY <1>6 DEF vars, registry
  <2>2. Quiet /\ \A x \in Conns : Untouched(x)
    BY <2>1 DEF Quiet, Untouched, streams
  <2>3. ASSUME NEW x \in Conns PROVE InOrder(x)'
    <3>1. gone \subseteq gone' /\ lost \subseteq lost'
      BY <2>1 DEF streams
    <3> QED BY <2>2, <3>1, QuietRosters, OthersInOrder DEF Untouched, StreamInv
  <2>4. NewsAreTrue' /\ CastsAreNews'
    BY <2>2, QuietRequests DEF StreamInv, Untouched, Unsubscribed
  <2> QED BY <2>3, <2>4 DEF StreamInv
<1> QED BY <1>1, <1>2, <1>3, <1>4, <1>5, <1>6 DEF EventsNext

LEMMA StreamInit == EventsInit => StreamInv
<1> SUFFICES ASSUME EventsInit PROVE StreamInv
  OBVIOUS
<1>1. NewsAreTrue /\ CastsAreNews
  BY DEF EventsInit, RegistryInit, NewsAreTrue, CastsAreNews, Silence
<1>2. \A s \in Conns, c \in Chans : Unsubscribed(s, c) /\ ~Subscribed(s, c)
  BY DEF EventsInit, Unsubscribed, Subscribed
<1>3. ASSUME NEW s \in Conns PROVE InOrder(s)
  <2>1. IsListed(s) /\ StartsEmpty(s) /\ KeepsChannels(s)
    BY <1>2 DEF EventsInit, IsListed, StartsEmpty, KeepsChannels
  <2>2. \A c \in Chans : Follows(s, c)
    BY <1>2 DEF Follows
  <2> QED BY <2>1, <2>2 DEF InOrder
<1> QED BY <1>1, <1>3 DEF StreamInv

\* A client that streams is shown what it was told, and follows the rosters in
\* all that nobody has still to announce.
LEMMA FollowingSuffices ==
  ASSUME EventsTypeOK, StreamInv, NEW s \in Conns, NEW c \in Chans, NEW u \in Users,
         cpc[s] = "stream", s \notin gone, c \in wants[s], <<s, c>> \notin lost,
         ~Unannounced(c, u)
  PROVE  u \in Arrived(InFlight(s, c), c, view[s][c]) <=> u \in Roster(c)
<1>1. Subscribed(s, c) /\ Shown(s, c) = view[s][c]
  BY DEF Subscribed, Unsubscribed, Shown, Framed
<1>2. Told(s, c, u)
  BY DEF Told, Unannounced
<1> QED BY <1>1, <1>2 DEF StreamInv, InOrder, Follows, Believes

\* Whatever steps of requests, broadcasts, handlers, fan-in goroutines and clients
\* come between one another, a client that was sent its snapshots and missed no
\* event comes to believe the rosters of its channels.
THEOREM StreamsStayTrue == EventsSpec => []StreamsFollowRosters
<1>1. CASE SerialPerUser
  <2>1. EventsSpec => []TypeOK /\ []SerialInv
    BY <1>1, StreamsRunTheRegistry, TypeCorrect, SerialInvIsInvariant, PTL
  <2>2. EventsSpec => []CastersAnnounce
    BY <2>1, EventsInitTypes, EventsNextTypes, PTL DEF EventsSpec
  <2>3. EventsSpec => []StreamInv
    BY <2>1, <2>2, EventsTypeCorrect, SubscriptionInvIsInvariant, StreamInit, StreamNextKeeps, PTL
       DEF EventsSpec
  <2>4. EventsTypeOK /\ StreamInv => StreamsFollowRosters
    BY FollowingSuffices DEF StreamsFollowRosters
  <2> QED BY <2>3, <2>4, EventsTypeCorrect, PTL
<1>2. CASE ~SerialPerUser
  <2>1. StreamsFollowRosters
    BY <1>2 DEF StreamsFollowRosters
  <2> QED BY <2>1, PTL
<1> QED BY <1>1, <1>2, RegistryAssumption
=============================================================================
