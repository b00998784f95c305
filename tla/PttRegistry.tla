---------------------------- MODULE PttRegistry ----------------------------
(***************************************************************************)
(* The push-to-talk registry: SyncChannels and its caller PttConnect       *)
(* (controller/PushToTalk/main.go, PushToTalk.go), at the grain of its     *)
(* locks.  Every HTTP request is served by a goroutine of its own; the     *)
(* goroutines share GlobalUsers, Channels and UserChannels.                *)
(*                                                                         *)
(* The two maps are written under ChannelLock, but the leave path of       *)
(* PttConnect reads UserChannels and walks the user's set without it.  Go  *)
(* gives such a read no meaning: the runtime may stop the process ("fatal  *)
(* error: concurrent map iteration and map write"), or the walk may see    *)
(* any part of the write.  Both outcomes are steps of this model.          *)
(*                                                                         *)
(* A map is a partial function: the keys it holds are its DOMAIN, so an    *)
(* entry that is present but empty differs from an entry that is absent.   *)
(***************************************************************************)
EXTENDS PttRequests

CONSTANTS
  NoThread,       \* nobody holds, or waits first in line for, ChannelLock
  Readers,        \* goroutines that keep ChannelLock.RLock across steps
  SerialPerUser   \* TRUE: an app has one request of a user in flight at a time

ASSUME RegistryAssumption ==
  /\ NoThread \notin Threads
  /\ SerialPerUser \in BOOLEAN

VARIABLES
  GlobalUsers,    \* last stored PttUser of an id: unknown, silent (no token), reachable
  Channels,       \* channel name -> set of user ids
  UserChannels,   \* user id -> set of channel names
  persistDirty,   \* the maps changed since the last save
  writer,         \* who holds ChannelLock, or is first in line and waits for readers
  readers,        \* who holds ChannelLock.RLock
  pc,             \* where each serving goroutine is
  call,           \* the request it serves
  target,         \* newChannels, the argument of its SyncChannels
  orphans,        \* goroutines walking a set that UserChannels no longer holds
  news,           \* the broadcasts its SyncChannels still has to make
  up              \* the process is running

registry == <<GlobalUsers, Channels, UserChannels, persistDirty, writer,
              readers, pc, call, target, orphans, news, up>>

-----------------------------------------------------------------------------
(* The maps *)

Roster(c) == IF c \in DOMAIN Channels THEN Channels[c] ELSE {}

ChannelsOf(u) == IF u \in DOMAIN UserChannels THEN UserChannels[u] ELSE {}

\* make(map...), the map without entries.
NoEntries == [k \in {} |-> {}]

PartialFunctions(S, T) == UNION {[D -> T] : D \in SUBSET S}

\* The stages of the broadcasts, in the order SyncChannels makes them.
News == [join : SUBSET Chans, leave : SUBSET Chans, update : SUBSET Chans]

Silence == [join |-> {}, leave |-> {}, update |-> {}]

PcOfCall == {"lookup", "scan", "store", "lock", "commit", "mark", "publish"}

TypeOK ==
  /\ GlobalUsers \in [Users -> {"unknown", "silent", "reachable"}]
  /\ Channels \in PartialFunctions(Chans, SUBSET Users)
  /\ UserChannels \in PartialFunctions(Users, SUBSET Chans)
  /\ persistDirty \in BOOLEAN
  /\ writer \in Threads \cup {NoThread}
  /\ readers \subseteq Readers
  /\ pc \in [Threads -> PcOfCall \cup {"idle"}]
  /\ call \in [Threads -> Request \cup {NoRequest}]
  /\ target \in [Threads -> SUBSET Chans]
  /\ orphans \subseteq Threads
  /\ news \in [Threads -> News]
  /\ up \in BOOLEAN
  /\ \A t \in Threads : pc[t] = "idle" <=> call[t] = NoRequest

RegistryInit ==
  /\ GlobalUsers = [u \in Users |-> "unknown"]
  /\ Channels = NoEntries
  /\ UserChannels = NoEntries
  /\ persistDirty = FALSE
  /\ writer = NoThread
  /\ readers = {}
  /\ pc = [t \in Threads |-> "idle"]
  /\ call = [t \in Threads |-> NoRequest]
  /\ target = [t \in Threads |-> {}]
  /\ orphans = {}
  /\ news = [t \in Threads |-> Silence]
  /\ up = TRUE

Goto(t, from, to) ==
  /\ up
  /\ pc[t] = from
  /\ pc' = [pc EXCEPT ![t] = to]

-----------------------------------------------------------------------------
(* ChannelLock, a sync.RWMutex: once a writer is in line no reader enters.  *)

NoWriterInLine == writer = NoThread

WriterInside == writer # NoThread /\ readers = {} /\ pc[writer] = "commit"

RLock(r) ==
  /\ up
  /\ NoWriterInLine
  /\ r \notin readers
  /\ readers' = readers \cup {r}
  /\ UNCHANGED <<GlobalUsers, Channels, UserChannels, persistDirty, writer,
                 pc, call, target, orphans, news, up>>

RUnlock(r) ==
  /\ up
  /\ r \in readers
  /\ readers' = readers \ {r}
  /\ UNCHANGED <<GlobalUsers, Channels, UserChannels, persistDirty, writer,
                 pc, call, target, orphans, news, up>>

\* Lock() is called and no other writer is in line.
Lock(t) ==
  /\ Goto(t, "lock", "commit")
  /\ NoWriterInLine
  /\ writer' = t
  /\ UNCHANGED <<GlobalUsers, Channels, UserChannels, persistDirty, readers,
                 call, target, orphans, news, up>>

-----------------------------------------------------------------------------
(* PttConnect *)

UserIdle(u) == \A t \in Threads : call[t] # NoRequest => call[t].user # u

\* Mutated form of PttConnect: SyncChannels no longer stores the user of a connect.
PttConnectUnstored(t, r) ==
  /\ SerialPerUser => UserIdle(r.user)
  /\ Goto(t, "idle", IF r.kind = "leave" THEN "lookup" ELSE "lock")
  /\ call' = [call EXCEPT ![t] = r]
  /\ target' = [target EXCEPT ![t] = IF r.kind = "leave" THEN {} ELSE r.chans]
  /\ UNCHANGED <<GlobalUsers, Channels, UserChannels, persistDirty, writer,
                 readers, orphans, news, up>>

\* Mutated form of PttConnect: a connect adds its channels to those of the user.
PttConnectAdding(t, r) ==
  /\ SerialPerUser => UserIdle(r.user)
  /\ Goto(t, "idle", IF r.kind = "leave" THEN "lookup" ELSE "store")
  /\ call' = [call EXCEPT ![t] = r]
  /\ target' = [target EXCEPT ![t] =
                  IF r.kind = "leave" THEN {} ELSE r.chans \cup ChannelsOf(r.user)]
  /\ UNCHANGED <<GlobalUsers, Channels, UserChannels, persistDirty, writer,
                 readers, orphans, news, up>>

\* A request arrives.  An empty token makes it a leave; a connect stamps the
\* user and passes its channels on to SyncChannels unchanged.
PttConnect(t, r) ==
  /\ SerialPerUser => UserIdle(r.user)
  /\ Goto(t, "idle", IF r.kind = "leave" THEN "lookup" ELSE "store")
  /\ call' = [call EXCEPT ![t] = r]
  /\ target' = [target EXCEPT ![t] = IF r.kind = "leave" THEN {} ELSE r.chans]
  /\ UNCHANGED <<GlobalUsers, Channels, UserChannels, persistDirty, writer,
                 readers, orphans, news, up>>

\* Whether an unlocked look-up of the user's entry can find one.  Inside the lock,
\* SyncChannels for the same user begins by putting an empty set where there is
\* none, and ends by dropping the entry when the user is left without channels.
Lookups(t) ==
  {call[t].user \in DOMAIN UserChannels} \cup
    IF WriterInside /\ call[writer].user = call[t].user
      THEN {TRUE, target[writer] # {}}
      ELSE {}

\* old, ok := UserChannels[req.ID], without the lock.
LookupUser(t) ==
  /\ pc[t] = "lookup"
  /\ \E ok \in Lookups(t) : Goto(t, "lookup", IF ok THEN "scan" ELSE "publish")
  /\ UNCHANGED <<GlobalUsers, Channels, UserChannels, persistDirty, writer,
                 readers, call, target, orphans, news, up>>

\* Another goroutine is inside the lock and writes the set t is walking.
SetRace(t) ==
  /\ WriterInside
  /\ call[writer].user = call[t].user
  /\ t \notin orphans
  /\ target[writer] # ChannelsOf(call[t].user)

\* What a walk over the user's set can find: the set; nothing, once the set
\* was emptied and dropped from UserChannels; any part of a write in progress.
Sightings(t) ==
  LET old == ChannelsOf(call[t].user)
      new == target[writer]
  IN  IF t \in orphans THEN {{}}
      ELSE IF SetRace(t)
           THEN {S \in SUBSET Chans : old \cap new \subseteq S /\ S \subseteq old \cup new}
           ELSE {old}

\* Mutated form of ScanChannels: a leave drops all channels of its user.
ScanChannelsDroppingAll(t) ==
  /\ Goto(t, "scan", "store")
  /\ target' = [target EXCEPT ![t] = {}]
  /\ orphans' = orphans \ {t}
  /\ UNCHANGED <<GlobalUsers, Channels, UserChannels, persistDirty, writer,
                 readers, call, news, up>>

\* for ch := range old { if !drop[ch] { remaining = append(remaining, ch) } }
ScanChannels(t) ==
  /\ Goto(t, "scan", "store")
  /\ \E seen \in Sightings(t) :
       target' = [target EXCEPT ![t] = seen \ call[t].chans]
  /\ orphans' = orphans \ {t}
  /\ UNCHANGED <<GlobalUsers, Channels, UserChannels, persistDirty, writer,
                 readers, call, news, up>>

\* Another goroutine is inside the lock and adds or deletes a key of UserChannels.
\* A look-up the runtime does not catch finds each entry as it was before or after
\* a write: Go 1.27 maps grow into new tables and leave the old ones whole.
KeyRace ==
  /\ WriterInside
  /\ \/ call[writer].user \notin DOMAIN UserChannels
     \/ target[writer] = {}

\* The Go runtime detects the race and stops the process; no recover catches it.
FatalMapRace(t) ==
  /\ up
  /\ \/ pc[t] = "lookup" /\ KeyRace
     \/ pc[t] = "scan" /\ SetRace(t)
  /\ up' = FALSE
  /\ UNCHANGED <<GlobalUsers, Channels, UserChannels, persistDirty, writer,
                 readers, pc, call, target, orphans, news>>

-----------------------------------------------------------------------------
(* SyncChannels *)

\* GlobalUsers.Store(user.ID, user), before and outside the lock.
StoreUser(t) ==
  /\ Goto(t, "store", "lock")
  /\ GlobalUsers' = [GlobalUsers EXCEPT ![call[t].user] =
                       IF call[t].kind = "leave" THEN "silent" ELSE "reachable"]
  /\ UNCHANGED <<Channels, UserChannels, persistDirty, writer, readers, call,
                 target, orphans, news, up>>

\* Mutated form of NewRoster: the user is not deleted from the channels it leaves.
NewRosterKeepingLeavers(c, u, L, J) == Roster(c) \cup (IF c \in J THEN {u} ELSE {})

\* The members of c once u left the channels of L and joined those of J.
NewRoster(c, u, L, J) ==
  (Roster(c) \ (IF c \in L THEN {u} ELSE {})) \cup (IF c \in J THEN {u} ELSE {})

\* A channel that loses its last member is deleted, one that gains its first
\* is created.
MoveUser(u, L, J) ==
  Channels' = [c \in {d \in DOMAIN Channels \cup J :
                        d \in L => NewRoster(d, u, L, J) # {}}
                 |-> NewRoster(c, u, L, J)]

\* Mutated form of RecordChannels: the entry of a user without channels stays.
RecordChannelsEvenEmpty(u, S) ==
  UserChannels' = [w \in DOMAIN UserChannels \cup {u} |-> IF w = u THEN S ELSE UserChannels[w]]

\* A user without channels has no entry.
RecordChannels(u, S) ==
  UserChannels' = [w \in (DOMAIN UserChannels \ {u}) \cup (IF S = {} THEN {} ELSE {u})
                     |-> IF w = u THEN S ELSE UserChannels[w]]

\* Mutated form of AfterUnlock: only joins mark the registry dirty.
AfterUnlockOfJoins(L, J) == IF J # {} THEN "mark" ELSE "publish"

\* if len(joined) > 0 || len(left) > 0 { markDirty() }
AfterUnlock(L, J) == IF L \cup J # {} THEN "mark" ELSE "publish"

\* Mutated form of Commit: a request that changes nothing returns early, without
\* Unlock.
CommitKeepingLock(t) ==
  LET u == call[t].user
      left == ChannelsOf(u) \ target[t]
      joined == target[t] \ ChannelsOf(u)
      changed == left \cup joined # {}
  IN  /\ writer = t /\ readers = {}
      /\ Goto(t, "commit", AfterUnlock(left, joined))
      /\ MoveUser(u, left, joined)
      /\ RecordChannels(u, target[t])
      /\ news' = [news EXCEPT ![t] =
                    [join |-> joined, leave |-> left,
                     update |-> IF changed THEN {} ELSE target[t]]]
      /\ writer' = IF changed THEN NoThread ELSE t
      /\ UNCHANGED <<GlobalUsers, persistDirty, readers, call, target, orphans, up>>

\* The critical section, from Lock() granted to Unlock(): compare the old and
\* the new channels of the user, leave and join the difference, and remember
\* what has to be announced.
Commit(t) ==
  LET u == call[t].user
      left == ChannelsOf(u) \ target[t]
      joined == target[t] \ ChannelsOf(u)
      changed == left \cup joined # {}
  IN  /\ writer = t /\ readers = {}
      /\ Goto(t, "commit", AfterUnlock(left, joined))
      /\ MoveUser(u, left, joined)
      /\ RecordChannels(u, target[t])
      /\ news' = [news EXCEPT ![t] =
                    [join |-> joined, leave |-> left,
                     update |-> IF changed THEN {} ELSE target[t]]]
      /\ orphans' = orphans \cup
                      {s \in Threads : target[t] = {} /\ pc[s] = "scan" /\ call[s].user = u}
      /\ writer' = NoThread
      /\ UNCHANGED <<GlobalUsers, persistDirty, readers, call, target, up>>

\* markDirty(), after the lock is released.
MarkDirty(t) ==
  /\ Goto(t, "mark", "publish")
  /\ persistDirty' = TRUE
  /\ UNCHANGED <<GlobalUsers, Channels, UserChannels, writer, readers, call,
                 target, orphans, news, up>>

\* The event t broadcasts next: every join before any leave; an update only
\* when the request changed nothing.
Stage(t) == IF news[t].join # {} THEN "join"
            ELSE IF news[t].leave # {} THEN "leave" ELSE "update"

\* One call of Broadcast; who receives it is the matter of PttEvents.
Publish(t, c) ==
  /\ Goto(t, "publish", "publish")
  /\ c \in news[t][Stage(t)]
  /\ news' = [news EXCEPT ![t][Stage(t)] = @ \ {c}]
  /\ UNCHANGED <<GlobalUsers, Channels, UserChannels, persistDirty, writer,
                 readers, call, target, orphans, up>>

\* Mutated form of Reply: the goroutine keeps its request.
ReplyKeepingCall(t) ==
  /\ Goto(t, "publish", "idle")
  /\ news[t] = Silence
  /\ UNCHANGED <<GlobalUsers, Channels, UserChannels, persistDirty, writer,
                 readers, call, target, orphans, news, up>>

\* The answer: a connect lists the rosters of its channels under RLock.
Reply(t) ==
  /\ Goto(t, "publish", "idle")
  /\ news[t] = Silence
  /\ call[t].kind = "connect" => NoWriterInLine
  /\ call' = [call EXCEPT ![t] = NoRequest]
  /\ target' = [target EXCEPT ![t] = {}]
  /\ UNCHANGED <<GlobalUsers, Channels, UserChannels, persistDirty, writer,
                 readers, orphans, news, up>>

\* Broadcast panics; the recovery middleware ends the request, and what
\* SyncChannels had not announced is never announced.
AbortPublish(t) ==
  /\ Goto(t, "publish", "idle")
  /\ news[t] # Silence
  /\ news' = [news EXCEPT ![t] = Silence]
  /\ call' = [call EXCEPT ![t] = NoRequest]
  /\ target' = [target EXCEPT ![t] = {}]
  /\ UNCHANGED <<GlobalUsers, Channels, UserChannels, persistDirty, writer,
                 readers, orphans, up>>

-----------------------------------------------------------------------------
\* The steps of one goroutine inside SyncChannels and PttConnect.
Serve(t) ==
  \/ LookupUser(t)
  \/ ScanChannels(t)
  \/ StoreUser(t)
  \/ Lock(t)
  \/ Commit(t)
  \/ MarkDirty(t)
  \/ Reply(t)

RegistryNext ==
  \/ \E t \in Threads :
       \/ \E r \in Request : PttConnect(t, r)
       \/ Serve(t)
       \/ \E c \in Chans : Publish(t, c)
       \/ AbortPublish(t)
       \/ FatalMapRace(t)
  \/ \E r \in Readers : RLock(r) \/ RUnlock(r)

RegistrySpec == RegistryInit /\ [][RegistryNext]_registry

-----------------------------------------------------------------------------
(* What the registry promises *)

\* UserChannels is the inverse of Channels: a user is on the roster of exactly
\* the channels recorded for that user.
MapsAreInverse ==
  \A u \in Users, c \in Chans : u \in Roster(c) <=> c \in ChannelsOf(u)

\* SyncChannels never leaves an empty entry behind in either map.
NoEmptyEntries ==
  /\ \A c \in DOMAIN Channels : Channels[c] # {}
  /\ \A u \in DOMAIN UserChannels : UserChannels[u] # {}

\* Every member of a channel is in GlobalUsers: UserList and UserListResp skip
\* ids they cannot load, so an unknown member would be in the channel and yet
\* never be listed or pushed to.
MembersAreKnown ==
  \A c \in DOMAIN Channels : \A u \in Channels[c] : GlobalUsers[u] # "unknown"

\* Once a change of the maps is being announced, the next periodic save knows
\* of it (nothing clears persistDirty here; PttPersist adds the saves).
ChangesAreDirty ==
  \A t \in Threads :
    pc[t] = "publish" /\ news[t].join \cup news[t].leave # {} => persistDirty

\* With one request of a user in flight at a time, a connect that is about to
\* be answered finds its user reachable, and on the roster of every channel it
\* asked for and of no other, whatever the requests of other users did meanwhile.
ConnectSettles ==
  SerialPerUser =>
    \A t \in Threads :
      pc[t] = "publish" /\ call[t].kind = "connect" =>
        /\ GlobalUsers[call[t].user] = "reachable"
        /\ \A c \in Chans : call[t].user \in Roster(c) <=> c \in call[t].chans

\* With one request of a user in flight at a time, the registry implements
\* PttMembership: each request takes effect once, at the Unlock of its
\* SyncChannels or, for a leave of a user without channels, at its lookup.
Membership == INSTANCE PttMembership WITH
  member <- [u \in Users |-> ChannelsOf(u)],
  serving <- call,
  applied <- {t \in Threads : pc[t] \in {"mark", "publish"}}

ImplementsMembership == Membership!MembershipSpec

-----------------------------------------------------------------------------
(* Liveness.  Go runs every runnable goroutine (weak fairness).  sync.RWMutex  *)
(* hands the lock over when it is released, so whoever asks for it, to write   *)
(* or to list the rosters of an answer, gets it although others keep asking    *)
(* (strong fairness).  Of those who hold it to read nothing is assumed: one of *)
(* them is PttSubscribe, which writes to its client meanwhile and has cleared  *)
(* the write deadline, so that the client decides when it is released.         *)

Fairness ==
  \A t \in Threads :
    /\ WF_registry(LookupUser(t) \/ ScanChannels(t) \/ StoreUser(t))
    /\ SF_registry(Lock(t))
    /\ WF_registry(Commit(t) \/ MarkDirty(t))
    /\ WF_registry(\E c \in Chans : Publish(t, c))
    /\ SF_registry(Reply(t))

FairRegistrySpec == RegistrySpec /\ Fairness

\* Requests never hold up one another for good: a request is answered or ended
\* by a panic unless the runtime stopped the process, or unless a reader of
\* ChannelLock keeps it for ever.
EveryRequestEnds ==
  \A t \in Threads :
    pc[t] # "idle" ~> \/ pc[t] = "idle" \/ ~up
                      \/ \E r \in Readers : [](r \in readers)
=============================================================================
