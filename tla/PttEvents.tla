----------------------------- MODULE PttEvents -----------------------------
(***************************************************************************)
(* The event streams of the push-to-talk service: events.go (Subscribe,    *)
(* cancel, Broadcast) and the SSE handler PttSubscribe, running beside the *)
(* requests of PttRegistry.                                                *)
(*                                                                         *)
(* A connection subscribes to each of its channels, writes a snapshot of   *)
(* every channel under ChannelLock.RLock, and then forwards events: one    *)
(* goroutine per subscription moves them from the subscriber's buffer to   *)
(* "merged", and the handler writes what it finds there to the client.     *)
(*                                                                         *)
(* A broadcast first collects its targets under subscriberLock and then,   *)
(* without the lock, offers the event to each of them.  A send to a full   *)
(* buffer drops the event; a send to a closed one panics, and the recovery *)
(* middleware ends the request that was broadcasting.                      *)
(***************************************************************************)
EXTENDS PttRegistry, Sequences, Naturals, SequencesExt

CONSTANTS
  Conns,        \* the connections that are ever opened, each of them once
  BufferSize,   \* subscriberBuffer, 256 in the code
  MergedSize    \* len(subs)*8+8 in the code

ASSUME EventsAssumption ==
  /\ Conns = Readers
  /\ BufferSize \in Nat \ {0}
  /\ MergedSize \in Nat \ {0}

VARIABLES
  subscribers,  \* channel -> connections registered on it
  buffer,       \* the buffer of each subscription
  closed,       \* the subscriptions whose buffer is closed
  casting,      \* the channel a goroutine broadcasts on, if it is inside Broadcast
  targets,      \* the subscribers it collected and has not offered the event to
  cpc,          \* where the handler of each connection is
  owner,        \* the user of a connection
  wants,        \* its channels
  todo,         \* the channels its current loop has still to visit
  closing,      \* the channel whose cancel function has unlinked but not closed
  fan,          \* its fan-in goroutines
  held,         \* the event each of them received and has not passed on
  merged,       \* the channel its fan-in goroutines write to
  gone,         \* connections whose client hung up
  view,         \* the rosters its client reconstructs from the stream
  lost,         \* subscriptions that missed a join or a leave
  skipped       \* subscriptions a broadcast collected and never offered its event

streams == <<subscribers, buffer, closed, casting, targets, cpc, owner, wants,
             todo, closing, fan, held, merged, gone, view, lost, skipped>>

vars == <<registry, streams>>

Event == [kind : {"join", "leave", "update"}, user : Users, chan : Chans]

\* What a fan-in goroutine does: nothing yet, either of its selects, nothing more.
Fan == {"unborn", "receiving", "forwarding", "ended"}

EventsTypeOK ==
  /\ subscribers \in [Chans -> SUBSET Conns]
  /\ buffer \in [Conns -> [Chans -> Seq(Event)]]
  /\ \A s \in Conns, c \in Chans : Len(buffer[s][c]) <= BufferSize
  /\ closed \subseteq Conns \X Chans
  /\ casting \in [Threads -> SUBSET Chans]
  /\ targets \in [Threads -> SUBSET Conns]
  /\ cpc \in [Conns -> {"new", "subscribe", "rlock", "snapshot", "stream", "cancel", "done"}]
  /\ owner \in [Conns -> Users]
  /\ wants \in [Conns -> SUBSET Chans]
  /\ todo \in [Conns -> SUBSET Chans]
  /\ closing \in [Conns -> SUBSET Chans]
  /\ fan \in [Conns -> [Chans -> Fan]]
  /\ held \in [Conns -> [Chans -> Seq(Event)]]
  /\ \A s \in Conns, c \in Chans : Len(held[s][c]) <= 1
  /\ merged \in [Conns -> Seq(Event)]
  /\ \A s \in Conns : Len(merged[s]) <= MergedSize
  /\ gone \subseteq Conns
  /\ view \in [Conns -> [Chans -> SUBSET Users]]
  /\ lost \subseteq Conns \X Chans
  /\ skipped \subseteq Conns \X Chans

EventsInit ==
  /\ RegistryInit
  /\ subscribers = [c \in Chans |-> {}]
  /\ buffer = [s \in Conns |-> [c \in Chans |-> <<>>]]
  /\ closed = {}
  /\ casting = [t \in Threads |-> {}]
  /\ targets = [t \in Threads |-> {}]
  /\ cpc = [s \in Conns |-> "new"]
  /\ owner \in [Conns -> Users]
  /\ wants = [s \in Conns |-> {}]
  /\ todo = [s \in Conns |-> {}]
  /\ closing = [s \in Conns |-> {}]
  /\ fan = [s \in Conns |-> [c \in Chans |-> "unborn"]]
  /\ held = [s \in Conns |-> [c \in Chans |-> <<>>]]
  /\ merged = [s \in Conns |-> <<>>]
  /\ gone = {}
  /\ view = [s \in Conns |-> [c \in Chans |-> {}]]
  /\ lost = {}
  /\ skipped = {}

-----------------------------------------------------------------------------
(* Broadcast, called by SyncChannels *)

EventOf(t, c) == [kind |-> Stage(t), user |-> call[t].user, chan |-> c]

\* Mutated form of Collect: no event is sent to the user it is about.
CollectExcluding(t, c) ==
  /\ up
  /\ pc[t] = "publish"
  /\ casting[t] = {}
  /\ c \in news[t][Stage(t)]
  /\ casting' = [casting EXCEPT ![t] = {c}]
  /\ targets' = [targets EXCEPT ![t] = {s \in subscribers[c] : owner[s] # call[t].user}]
  /\ UNCHANGED <<registry, subscribers, buffer, closed, cpc, owner, wants, todo,
                 closing, fan, held, merged, gone, view, lost, skipped>>

\* The targets are copied under subscriberLock.RLock; an update is not sent to
\* the user it is about.
Collect(t, c) ==
  /\ up
  /\ pc[t] = "publish"
  /\ casting[t] = {}
  /\ c \in news[t][Stage(t)]
  /\ casting' = [casting EXCEPT ![t] = {c}]
  /\ targets' = [targets EXCEPT ![t] =
                   {s \in subscribers[c] : Stage(t) = "update" => owner[s] # call[t].user}]
  /\ UNCHANGED <<registry, subscribers, buffer, closed, cpc, owner, wants,
                 todo, closing, fan, held, merged, gone, view, lost, skipped>>

\* Mutated form of Offer: the send waits for room in the buffer.
OfferBlocking(t, s, c) ==
  /\ up
  /\ casting[t] = {c}
  /\ s \in targets[t]
  /\ <<s, c>> \notin closed
  /\ targets' = [targets EXCEPT ![t] = @ \ {s}]
  /\ Len(buffer[s][c]) < BufferSize
  /\ buffer' = [buffer EXCEPT ![s][c] = Append(@, EventOf(t, c))]
  /\ UNCHANGED <<registry, subscribers, closed, casting, cpc, owner, wants, todo,
                 closing, fan, held, merged, gone, view, lost, skipped>>

\* select { case s.ch <- evt: default: }
Offer(t, s, c) ==
  /\ up
  /\ casting[t] = {c}
  /\ s \in targets[t]
  /\ <<s, c>> \notin closed
  /\ targets' = [targets EXCEPT ![t] = @ \ {s}]
  /\ \/ /\ Len(buffer[s][c]) < BufferSize
        /\ buffer' = [buffer EXCEPT ![s][c] = Append(@, EventOf(t, c))]
        /\ UNCHANGED lost
     \/ /\ Len(buffer[s][c]) = BufferSize
        /\ lost' = IF Stage(t) = "update" THEN lost ELSE lost \cup {<<s, c>>}
        /\ UNCHANGED buffer
  /\ UNCHANGED <<registry, subscribers, closed, casting, cpc, owner, wants,
                 todo, closing, fan, held, merged, gone, view, skipped>>

Return(t, c) ==
  /\ casting[t] = {c}
  /\ targets[t] = {}
  /\ Publish(t, c)
  /\ casting' = [casting EXCEPT ![t] = {}]
  /\ UNCHANGED <<subscribers, buffer, closed, targets, cpc, owner, wants, todo,
                 closing, fan, held, merged, gone, view, lost, skipped>>

\* Who has not been offered a join or a leave of t, while t broadcasts on c.
Unoffered(t, c) ==
  {sub \in Conns \X (news[t].join \cup news[t].leave) :
     sub[1] \in IF sub[2] = c THEN targets[t] ELSE subscribers[sub[2]]}

\* A send on a closed channel panics even inside a select with a default.  The
\* rest of this broadcast, and of the broadcasts after it, is lost.
Panic(t, s, c) ==
  /\ casting[t] = {c}
  /\ s \in targets[t]
  /\ <<s, c>> \in closed
  /\ AbortPublish(t)
  /\ casting' = [casting EXCEPT ![t] = {}]
  /\ targets' = [targets EXCEPT ![t] = {}]
  /\ skipped' = skipped \cup ((targets[t] \ {s}) \X {c})
  /\ lost' = lost \cup Unoffered(t, c)
  /\ UNCHANGED <<subscribers, buffer, closed, cpc, owner, wants, todo, closing,
                 fan, held, merged, gone, view>>

-----------------------------------------------------------------------------
(* PttSubscribe *)

MoveTo(s, from, to) ==
  /\ up
  /\ cpc[s] = from
  /\ cpc' = [cpc EXCEPT ![s] = to]

\* A client asks for at least one channel.
Open(s, C) ==
  /\ C # {}
  /\ MoveTo(s, "new", "subscribe")
  /\ wants' = [wants EXCEPT ![s] = C]
  /\ todo' = [todo EXCEPT ![s] = C]
  /\ UNCHANGED <<registry, subscribers, buffer, closed, casting, targets,
                 owner, closing, fan, held, merged, gone, view, lost, skipped>>

\* One round of the loop over req.Channels.
Visit(s, c) == c \in todo[s] /\ todo' = [todo EXCEPT ![s] = @ \ {c}]

Subscribe(s, c) ==
  /\ Visit(s, c)
  /\ MoveTo(s, "subscribe", IF todo[s] = {c} THEN "rlock" ELSE "subscribe")
  /\ subscribers' = [subscribers EXCEPT ![c] = @ \cup {s}]
  /\ UNCHANGED <<registry, buffer, closed, casting, targets, owner, wants,
                 closing, fan, held, merged, gone, view, lost, skipped>>

SnapshotLock(s) ==
  /\ MoveTo(s, "rlock", "snapshot")
  /\ RLock(s)
  /\ todo' = [todo EXCEPT ![s] = wants[s]]
  /\ UNCHANGED <<subscribers, buffer, closed, casting, targets, owner, wants,
                 closing, fan, held, merged, gone, view, lost, skipped>>

\* One snapshot frame, written with the lock held.  The write ends when the
\* client takes the bytes: the handler has cleared the write deadline.
SnapshotFrame(s, c) ==
  /\ Visit(s, c)
  /\ MoveTo(s, "snapshot", "snapshot")
  /\ s \notin gone
  /\ view' = [view EXCEPT ![s][c] = Roster(c)]
  /\ UNCHANGED <<registry, subscribers, buffer, closed, casting, targets,
                 owner, wants, closing, fan, held, merged, gone, lost,
                 skipped>>

\* The lock is released and the fan-in goroutines start.
SnapshotDone(s) ==
  /\ todo[s] = {}
  /\ MoveTo(s, "snapshot", "stream")
  /\ RUnlock(s)
  /\ fan' = [fan EXCEPT ![s] = [c \in Chans |-> IF c \in wants[s] THEN "receiving" ELSE @[c]]]
  /\ UNCHANGED <<subscribers, buffer, closed, casting, targets, owner, wants,
                 todo, closing, held, merged, gone, view, lost, skipped>>

\* Mutated form of SnapshotFails: the early return forgets RUnlock.
SnapshotFailsLocked(s) ==
  /\ s \in gone
  /\ todo[s] # {}
  /\ MoveTo(s, "snapshot", "cancel")
  /\ todo' = [todo EXCEPT ![s] = wants[s]]
  /\ UNCHANGED <<registry, subscribers, buffer, closed, casting, targets, owner,
                 wants, closing, fan, held, merged, gone, view, lost, skipped>>

\* A frame cannot be written: the lock is released, the deferred cancels run.
SnapshotFails(s) ==
  /\ s \in gone
  /\ todo[s] # {}
  /\ MoveTo(s, "snapshot", "cancel")
  /\ RUnlock(s)
  /\ todo' = [todo EXCEPT ![s] = wants[s]]
  /\ UNCHANGED <<subscribers, buffer, closed, casting, targets, owner, wants,
                 closing, fan, held, merged, gone, view, lost, skipped>>

\* What a client does with an event of its stream.
Applied(members, e) ==
  CASE e.kind = "join" -> members \cup {e.user}
    [] e.kind = "leave" -> members \ {e.user}
    [] e.kind = "update" -> members

\* case evt := <-merged
Deliver(s) ==
  /\ MoveTo(s, "stream", "stream")
  /\ s \notin gone
  /\ merged[s] # <<>>
  /\ LET e == Head(merged[s])
     IN  view' = [view EXCEPT ![s][e.chan] = Applied(@, e)]
  /\ merged' = [merged EXCEPT ![s] = Tail(@)]
  /\ UNCHANGED <<registry, subscribers, buffer, closed, casting, targets,
                 owner, wants, todo, closing, fan, held, gone, lost, skipped>>

\* The client goes away; the handler learns of it from its context or from a
\* failed write, and its defers run: stopFanIn is closed first.
HangUp(s) ==
  /\ up
  /\ cpc[s] \notin {"new", "cancel", "done"}
  /\ s \notin gone
  /\ gone' = gone \cup {s}
  /\ view' = [view EXCEPT ![s] = [c \in Chans |-> {}]]
  /\ UNCHANGED <<registry, subscribers, buffer, closed, casting, targets, cpc,
                 owner, wants, todo, closing, fan, held, merged, lost, skipped>>

Leave(s) ==
  /\ s \in gone
  /\ MoveTo(s, "stream", "cancel")
  /\ todo' = [todo EXCEPT ![s] = wants[s]]
  /\ UNCHANGED <<registry, subscribers, buffer, closed, casting, targets,
                 owner, wants, closing, fan, held, merged, gone, view, lost,
                 skipped>>

\* Mutated form of Unlink: cancel does not delete the subscriber.
UnlinkForgotten(s, c) ==
  /\ MoveTo(s, "cancel", "cancel")
  /\ closing[s] = {}
  /\ c \in todo[s]
  /\ closing' = [closing EXCEPT ![s] = {c}]
  /\ UNCHANGED <<registry, subscribers, buffer, closed, casting, targets, owner,
                 wants, todo, fan, held, merged, gone, view, lost, skipped>>

\* cancel(), the part under subscriberLock ...
Unlink(s, c) ==
  /\ MoveTo(s, "cancel", "cancel")
  /\ closing[s] = {}
  /\ c \in todo[s]
  /\ subscribers' = [subscribers EXCEPT ![c] = @ \ {s}]
  /\ closing' = [closing EXCEPT ![s] = {c}]
  /\ UNCHANGED <<registry, buffer, closed, casting, targets, owner, wants,
                 todo, fan, held, merged, gone, view, lost, skipped>>

\* ... and close(sub.ch), after it.
CloseBuffer(s, c) ==
  /\ closing[s] = {c}
  /\ Visit(s, c)
  /\ MoveTo(s, "cancel", IF todo[s] = {c} THEN "done" ELSE "cancel")
  /\ closed' = closed \cup {<<s, c>>}
  /\ closing' = [closing EXCEPT ![s] = {}]
  /\ UNCHANGED <<registry, subscribers, buffer, casting, targets, owner, wants,
                 fan, held, merged, gone, view, lost, skipped>>

-----------------------------------------------------------------------------
(* The fan-in goroutines of PttSubscribe *)

StopFanIn(s) == cpc[s] \in {"cancel", "done"}

FanMoves(s, c, state) ==
  /\ up
  /\ fan' = [fan EXCEPT ![s][c] = state]
  /\ UNCHANGED <<registry, subscribers, closed, casting, targets, cpc, owner,
                 wants, todo, closing, gone, view, lost, skipped>>

\* case evt, ok := <-s.ch
FanReceive(s, c) ==
  /\ fan[s][c] = "receiving"
  /\ buffer[s][c] # <<>>
  /\ held' = [held EXCEPT ![s][c] = <<Head(buffer[s][c])>>]
  /\ buffer' = [buffer EXCEPT ![s][c] = Tail(@)]
  /\ FanMoves(s, c, "forwarding")
  /\ UNCHANGED merged

\* Mutated form of FanForward: merged has no bound.
FanForwardUnbounded(s, c) ==
  /\ fan[s][c] = "forwarding"
  /\ merged' = [merged EXCEPT ![s] = @ \o held[s][c]]
  /\ held' = [held EXCEPT ![s][c] = <<>>]
  /\ FanMoves(s, c, "receiving")
  /\ UNCHANGED buffer

\* case merged <- evt
FanForward(s, c) ==
  /\ fan[s][c] = "forwarding"
  /\ Len(merged[s]) < MergedSize
  /\ merged' = [merged EXCEPT ![s] = @ \o held[s][c]]
  /\ held' = [held EXCEPT ![s][c] = <<>>]
  /\ FanMoves(s, c, "receiving")
  /\ UNCHANGED buffer

\* Mutated form of FanEnds: the select that writes to merged ignores stopFanIn.
FanEndsReceiving(s, c) ==
  /\ fan[s][c] = "receiving"
  /\ StopFanIn(s) \/ (buffer[s][c] = <<>> /\ <<s, c>> \in closed)
  /\ held' = [held EXCEPT ![s][c] = <<>>]
  /\ FanMoves(s, c, "ended")
  /\ UNCHANGED <<buffer, merged>>

\* case <-stopFanIn, in either select; or the buffer is closed and empty.
FanEnds(s, c) ==
  /\ fan[s][c] \in {"receiving", "forwarding"}
  /\ \/ StopFanIn(s)
     \/ fan[s][c] = "receiving" /\ buffer[s][c] = <<>> /\ <<s, c>> \in closed
  /\ held' = [held EXCEPT ![s][c] = <<>>]
  /\ FanMoves(s, c, "ended")
  /\ UNCHANGED <<buffer, merged>>

-----------------------------------------------------------------------------
Handler(s) ==
  \/ \E c \in Chans : Subscribe(s, c) \/ Unlink(s, c) \/ CloseBuffer(s, c)
  \/ SnapshotLock(s)
  \/ SnapshotDone(s)
  \/ SnapshotFails(s)
  \/ Leave(s)

Client(s) ==
  \/ \E C \in Lists : Open(s, C)
  \/ \E c \in Chans : SnapshotFrame(s, c)
  \/ Deliver(s)
  \/ HangUp(s)

FanIn(s, c) == FanReceive(s, c) \/ FanForward(s, c) \/ FanEnds(s, c)

\* The steps of a request: those of PttRegistry, with the broadcasts in detail.
Broadcasting(t) ==
  \E c \in Chans :
    \/ Collect(t, c)
    \/ \E s \in Conns : Offer(t, s, c) \/ Panic(t, s, c)
    \/ Return(t, c)

Serving(t) == Serve(t) /\ UNCHANGED streams

Requested(t) == \E r \in Request : PttConnect(t, r) /\ UNCHANGED streams

MapRace(t) == FatalMapRace(t) /\ UNCHANGED streams

EventsNext ==
  \/ \E t \in Threads : Requested(t) \/ Serving(t) \/ Broadcasting(t) \/ MapRace(t)
  \/ \E s \in Conns :
       \/ Handler(s)
       \/ Client(s)
       \/ \E c \in Chans : FanIn(s, c)

EventsSpec == EventsInit /\ [][EventsNext]_vars

-----------------------------------------------------------------------------
(* Safety *)

\* An event that says whether u is on c.
About(e, c, u) == e.chan = c /\ e.user = u /\ e.kind # "update"

\* Nothing after place i of q says whether u is on c.
FinalAt(q, i, c, u) == \A j \in DOMAIN q : About(q[j], c, u) => j <= i

\* The users a client believes to be on c once the events of q have arrived: of
\* each user the last event counts, if there is one.
Arrived(q, c, believed) ==
  {u \in Users :
     \/ u \in believed /\ FinalAt(q, 0, c, u)
     \/ \E i \in DOMAIN q : About(q[i], c, u) /\ q[i].kind = "join" /\ FinalAt(q, i, c, u)}

\* What is still on its way to the client of s from its subscription to c, and
\* what is already merged, the next to arrive first.
InFlight(s, c) == merged[s] \o (held[s][c] \o buffer[s][c])

\* A request of u has changed its membership of c and not finished announcing it.
Unannounced(c, u) ==
  \E t \in Threads :
    call[t] # NoRequest /\ call[t].user = u /\ c \in news[t].join \cup news[t].leave

\* A client that was sent its snapshots, that missed no event, and whose
\* pending events are delivered, has the roster of each of its channels: no
\* interleaving of subscribing, snapshots and concurrent requests makes the
\* stream diverge from the registry for good.  (Requests of one user are
\* serial: SyncChannels announces outside the lock, so two requests of the
\* same user may announce in the other order.)
StreamsFollowRosters ==
  SerialPerUser =>
    \A s \in Conns, c \in Chans, u \in Users :
      /\ cpc[s] = "stream" /\ s \notin gone
      /\ c \in wants[s]
      /\ <<s, c>> \notin lost
      /\ ~Unannounced(c, u)
      => (u \in Arrived(InFlight(s, c), c, view[s][c]) <=> u \in Roster(c))

\* A broadcast that begins now meets no closed buffer: cancel unlinks a
\* subscription before it closes it.
SubscribersAreOpen ==
  \A c \in Chans : \A s \in subscribers[c] : <<s, c>> \notin closed

\* A handler that returned left nothing behind in the table of subscribers,
\* nor does it still hold the lock of the registry.
HandlersCleanUp ==
  \A s \in Conns :
    cpc[s] = "done" => s \notin readers /\ \A c \in Chans : s \notin subscribers[c]

\* events.go:73: Broadcast pushes the event to all subscribers of the channel,
\* and only a slow consumer, whose buffer is full, misses it.
BroadcastOffersToAll == skipped = {}

-----------------------------------------------------------------------------
(* Liveness.  Go runs every runnable goroutine (weak fairness).  ChannelLock   *)
(* passes to whoever asked for it even if others keep asking, since RWMutex    *)
(* hands it over at Unlock (strong fairness).  A client opens, reads and hangs *)
(* up when it likes.                                                           *)

RequestFairness(t) ==
  /\ WF_vars((LookupUser(t) \/ ScanChannels(t) \/ StoreUser(t)) /\ UNCHANGED streams)
  /\ SF_vars(Lock(t) /\ UNCHANGED streams)
  /\ WF_vars((Commit(t) \/ MarkDirty(t)) /\ UNCHANGED streams)
  /\ WF_vars(Broadcasting(t))
  /\ SF_vars(Reply(t) /\ UNCHANGED streams)

HandlerFairness(s) ==
  /\ SF_vars(SnapshotLock(s))
  /\ WF_vars(Handler(s))
  /\ \A c \in Chans : WF_vars(FanIn(s, c))

ServerFairness ==
  /\ \A t \in Threads : RequestFairness(t)
  /\ \A s \in Conns : HandlerFairness(s)

\* A client that is still there takes the bytes of its snapshots.
SnapshotsAreRead == \A s \in Conns : WF_vars(\E c \in Chans : SnapshotFrame(s, c))

\* Clients may stall wherever they like.
StallingClientsSpec == EventsSpec /\ ServerFairness

\* Clients read their snapshots and may stall afterwards.
ReadingClientsSpec == EventsSpec /\ ServerFairness /\ SnapshotsAreRead

\* events.go:28: a slow client does not hold up the broadcasts, nor does it
\* hold up the requests that make them.
RequestsAreAnswered ==
  \A t \in Threads : pc[t] # "idle" ~> (pc[t] = "idle" \/ ~up)

\* A connection whose client hung up is wound down: its handler returns and
\* every goroutine it started ends, also one that waits to write to merged.
HungUpConnectionsEnd ==
  \A s \in Conns :
    s \in gone ~> (~up \/ /\ cpc[s] = "done"
                          /\ \A c \in Chans : fan[s][c] \in {"unborn", "ended"})
=============================================================================
