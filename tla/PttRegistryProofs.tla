------------------------- MODULE PttRegistryProofs -------------------------
(***************************************************************************)
(* Proofs about PttRegistry, for any sets of users, channels, goroutines   *)
(* and readers.                                                            *)
(***************************************************************************)
EXTENDS PttRegistry, TLAPS

-----------------------------------------------------------------------------
(* Partial functions and the maps *)

LEMMA PartialFunctionIntro ==
  ASSUME NEW S, NEW T, NEW D \in SUBSET S, NEW f \in [D -> T]
  PROVE  f \in PartialFunctions(S, T)
BY DEF PartialFunctions

LEMMA PartialFunctionElim ==
  ASSUME NEW S, NEW T, NEW f \in PartialFunctions(S, T)
  PROVE  /\ DOMAIN f \subseteq S
         /\ f \in [DOMAIN f -> T]
BY DEF PartialFunctions

LEMMA RequestFields ==
  ASSUME NEW r \in Request
  PROVE  /\ r.kind \in {"connect", "leave"}
         /\ r.user \in Users
         /\ r.chans \in SUBSET Chans
         /\ r # NoRequest
BY RequestAssumption DEF Request

\* A goroutine that is not idle serves a request.
LEMMA ServedRequest ==
  ASSUME TypeOK, NEW t \in Threads, pc[t] # "idle"
  PROVE  call[t] \in Request
BY DEF TypeOK

LEMMA TypesOfMaps ==
  ASSUME TypeOK
  PROVE  /\ \A c \in Chans : Roster(c) \in SUBSET Users
         /\ \A u \in Users : ChannelsOf(u) \in SUBSET Chans
<1>1. /\ DOMAIN Channels \subseteq Chans
      /\ Channels \in [DOMAIN Channels -> SUBSET Users]
  BY PartialFunctionElim DEF TypeOK
<1>2. /\ DOMAIN UserChannels \subseteq Users
      /\ UserChannels \in [DOMAIN UserChannels -> SUBSET Chans]
  BY PartialFunctionElim DEF TypeOK
<1>3. QED
  BY <1>1, <1>2 DEF Roster, ChannelsOf

-----------------------------------------------------------------------------
(* The critical section of SyncChannels *)

\* The maps after Commit have the type of maps.
LEMMA CommitTypes ==
  ASSUME TypeOK, NEW u \in Users, NEW L \in SUBSET Chans, NEW J \in SUBSET Chans,
         NEW S \in SUBSET Chans, MoveUser(u, L, J), RecordChannels(u, S)
  PROVE  /\ Channels' \in PartialFunctions(Chans, SUBSET Users)
         /\ UserChannels' \in PartialFunctions(Users, SUBSET Chans)
<1>1. /\ DOMAIN Channels \subseteq Chans
      /\ Channels \in [DOMAIN Channels -> SUBSET Users]
      /\ DOMAIN UserChannels \subseteq Users
      /\ UserChannels \in [DOMAIN UserChannels -> SUBSET Chans]
  BY PartialFunctionElim DEF TypeOK
<1>2. Channels' \in PartialFunctions(Chans, SUBSET Users)
  <2> DEFINE D == {d \in DOMAIN Channels \cup J : d \in L => NewRoster(d, u, L, J) # {}}
  <2>1. D \in SUBSET Chans
    BY <1>1
  <2>2. \A c \in D : NewRoster(c, u, L, J) \in SUBSET Users
    BY <1>1, TypesOfMaps DEF NewRoster
  <2>3. Channels' \in [D -> SUBSET Users]
    BY <2>2 DEF MoveUser
  <2> QED
    BY <2>1, <2>3, PartialFunctionIntro
<1>3. UserChannels' \in PartialFunctions(Users, SUBSET Chans)
  <2> DEFINE D == (DOMAIN UserChannels \ {u}) \cup (IF S = {} THEN {} ELSE {u})
  <2>1. D \in SUBSET Users
    BY <1>1
  <2>2. UserChannels' \in [D -> SUBSET Chans]
    BY <1>1 DEF RecordChannels
  <2> QED
    BY <2>1, <2>2, PartialFunctionIntro
<1>4. QED
  BY <1>2, <1>3

\* Commit gives every channel its new roster, whether or not the channel
\* survives, and gives the user its new channels.
LEMMA CommitMaps ==
  ASSUME NEW u \in Users, NEW L \in SUBSET Chans, NEW J \in SUBSET Chans,
         NEW S \in SUBSET Chans, MoveUser(u, L, J), RecordChannels(u, S)
  PROVE  /\ \A c \in Chans : Roster(c)' = NewRoster(c, u, L, J)
         /\ \A w \in Users : ChannelsOf(w)' = IF w = u THEN S ELSE ChannelsOf(w)
<1>1. ASSUME NEW c \in Chans
      PROVE  Roster(c)' = NewRoster(c, u, L, J)
  <2> DEFINE D == {d \in DOMAIN Channels \cup J : d \in L => NewRoster(d, u, L, J) # {}}
  <2>1. DOMAIN Channels' = D /\ \A d \in D : Channels'[d] = NewRoster(d, u, L, J)
    BY DEF MoveUser
  <2>2. c \notin D => NewRoster(c, u, L, J) = {}
    BY DEF NewRoster, Roster
  <2>3. Roster(c)' = IF c \in D THEN NewRoster(c, u, L, J) ELSE {}
    BY <2>1 DEF Roster
  <2> QED
    BY <2>2, <2>3
<1>2. ASSUME NEW w \in Users
      PROVE  ChannelsOf(w)' = IF w = u THEN S ELSE ChannelsOf(w)
  <2> DEFINE D == (DOMAIN UserChannels \ {u}) \cup (IF S = {} THEN {} ELSE {u})
  <2>1. /\ DOMAIN UserChannels' = D
        /\ \A x \in D : UserChannels'[x] = IF x = u THEN S ELSE UserChannels[x]
    BY DEF RecordChannels
  <2>2. ChannelsOf(w)' = IF w \in D THEN UserChannels'[w] ELSE {}
    BY <2>1 DEF ChannelsOf
  <2> QED
    BY <2>1, <2>2 DEF ChannelsOf
<1>3. QED
  BY <1>1, <1>2

-----------------------------------------------------------------------------
(* Type correctness *)

LEMMA InitTypes == RegistryInit => TypeOK
<1> SUFFICES ASSUME RegistryInit PROVE TypeOK
  OBVIOUS
<1>1. NoEntries \in [{} -> SUBSET Users] /\ NoEntries \in [{} -> SUBSET Chans]
  BY DEF NoEntries
<1>2. /\ NoEntries \in PartialFunctions(Chans, SUBSET Users)
      /\ NoEntries \in PartialFunctions(Users, SUBSET Chans)
  BY <1>1, PartialFunctionIntro
<1>3. QED
  BY <1>2 DEF RegistryInit, TypeOK, News, Silence, PcOfCall

LEMMA NextTypes == TypeOK /\ [RegistryNext]_registry => TypeOK'
<1> SUFFICES ASSUME TypeOK, [RegistryNext]_registry PROVE TypeOK'
  OBVIOUS
<1> USE DEF Goto, PcOfCall
<1>1. ASSUME NEW t \in Threads, NEW r \in Request, PttConnect(t, r)
      PROVE  TypeOK'
  BY <1>1, RequestFields DEF PttConnect, TypeOK
<1>2. ASSUME NEW t \in Threads, LookupUser(t)
      PROVE  TypeOK'
  <2>1. PICK ok \in Lookups(t) : Goto(t, "lookup", IF ok THEN "scan" ELSE "publish")
    BY <1>2 DEF LookupUser
  <2>2. pc' = [pc EXCEPT ![t] = "scan"] \/ pc' = [pc EXCEPT ![t] = "publish"]
    BY <2>1
  <2> QED
    BY <1>2, <2>1, <2>2, ServedRequest DEF LookupUser, TypeOK
<1>3. ASSUME NEW t \in Threads, ScanChannels(t)
      PROVE  TypeOK'
  <2>1. call[t] \in Request
    BY <1>3, ServedRequest DEF ScanChannels
  <2>2. Sightings(t) \subseteq SUBSET Chans
    BY <2>1, TypesOfMaps, RequestFields DEF Sightings
  <2> QED
    BY <1>3, <2>1, <2>2, RequestFields DEF ScanChannels, TypeOK
<1>4. ASSUME NEW t \in Threads, StoreUser(t)
      PROVE  TypeOK'
  BY <1>4 DEF StoreUser, TypeOK
<1>5. ASSUME NEW t \in Threads, Lock(t)
      PROVE  TypeOK'
  BY <1>5 DEF Lock, TypeOK
<1>6. ASSUME NEW t \in Threads, Commit(t)
      PROVE  TypeOK'
  <2> DEFINE u == call[t].user
             L == ChannelsOf(u) \ target[t]
             J == target[t] \ ChannelsOf(u)
  <2>1. call[t] \in Request /\ u \in Users
    BY <1>6, ServedRequest, RequestFields DEF Commit
  <2>2. L \in SUBSET Chans /\ J \in SUBSET Chans /\ target[t] \in SUBSET Chans
    BY <2>1, TypesOfMaps DEF TypeOK
  <2>3. MoveUser(u, L, J) /\ RecordChannels(u, target[t])
    BY <1>6 DEF Commit
  <2>4. /\ Channels' \in PartialFunctions(Chans, SUBSET Users)
        /\ UserChannels' \in PartialFunctions(Users, SUBSET Chans)
    BY <2>1, <2>2, <2>3, CommitTypes
  <2>5. news' \in [Threads -> News]
    BY <1>6, <2>2 DEF Commit, TypeOK, News
  <2> QED
    BY <1>6, <2>4, <2>5 DEF Commit, AfterUnlock, TypeOK
<1>7. ASSUME NEW t \in Threads, MarkDirty(t)
      PROVE  TypeOK'
  BY <1>7 DEF MarkDirty, TypeOK
<1>8. ASSUME NEW t \in Threads, Reply(t)
      PROVE  TypeOK'
  BY <1>8 DEF Reply, TypeOK
<1>9. ASSUME NEW t \in Threads, NEW c \in Chans, Publish(t, c)
      PROVE  TypeOK'
  <2>1. news' \in [Threads -> News]
    BY <1>9 DEF Publish, TypeOK, News, Stage
  <2> QED
    BY <1>9, <2>1 DEF Publish, TypeOK
<1>10. ASSUME NEW t \in Threads, AbortPublish(t)
       PROVE  TypeOK'
  BY <1>10 DEF AbortPublish, TypeOK, News, Silence
<1>11. ASSUME NEW t \in Threads, FatalMapRace(t)
       PROVE  TypeOK'
  BY <1>11 DEF FatalMapRace, TypeOK
<1>12. ASSUME NEW r \in Readers, RLock(r) \/ RUnlock(r)
       PROVE  TypeOK'
  BY <1>12 DEF RLock, RUnlock, TypeOK
<1>13. CASE UNCHANGED registry
  BY <1>13 DEF registry, TypeOK
<1>14. QED
  BY <1>1, <1>2, <1>3, <1>4, <1>5, <1>6, <1>7, <1>8, <1>9, <1>10, <1>11, <1>12, <1>13
     DEF RegistryNext, Serve

\* Every state of the registry is well typed.
THEOREM TypeCorrect == RegistrySpec => []TypeOK
<1>1. RegistryInit => TypeOK
  BY InitTypes
<1>2. TypeOK /\ [RegistryNext]_registry => TypeOK'
  BY NextTypes
<1>3. QED
  BY <1>1, <1>2, PTL DEF RegistrySpec

-----------------------------------------------------------------------------
(* The maps stay inverse and without empty entries, also in states that the    *)
(* unlocked reads of overlapping requests of one user lead to: whatever set    *)
(* SyncChannels is asked to install, it installs in both maps.                 *)

MapsInv == MapsAreInverse /\ NoEmptyEntries

LEMMA CommitKeepsMaps ==
  ASSUME TypeOK, MapsInv, NEW t \in Threads, Commit(t)
  PROVE  MapsInv'
<1> DEFINE u == call[t].user
           L == ChannelsOf(u) \ target[t]
           J == target[t] \ ChannelsOf(u)
<1>1. u \in Users
  BY ServedRequest, RequestFields DEF Commit, Goto
<1>2. L \in SUBSET Chans /\ J \in SUBSET Chans /\ target[t] \in SUBSET Chans
  BY <1>1, TypesOfMaps DEF TypeOK
<1>3. MoveUser(u, L, J) /\ RecordChannels(u, target[t])
  BY DEF Commit
<1>4. /\ \A c \in Chans : Roster(c)' = NewRoster(c, u, L, J)
      /\ \A w \in Users : ChannelsOf(w)' = IF w = u THEN target[t] ELSE ChannelsOf(w)
  BY <1>1, <1>2, <1>3, CommitMaps
<1>5. MapsAreInverse'
  <2> SUFFICES ASSUME NEW w \in Users, NEW c \in Chans
               PROVE  w \in Roster(c)' <=> c \in ChannelsOf(w)'
    BY DEF MapsAreInverse
  <2>1. w \in Roster(c) <=> c \in ChannelsOf(w)
    BY DEF MapsInv, MapsAreInverse
  <2>2. CASE w = u
    BY <1>4, <2>1, <2>2 DEF NewRoster
  <2>3. CASE w # u
    BY <1>4, <2>1, <2>3 DEF NewRoster
  <2> QED
    BY <2>2, <2>3
<1>6. ASSUME NEW c \in DOMAIN Channels'
      PROVE  Channels'[c] # {}
  <2>1. /\ c \in DOMAIN Channels \cup J
        /\ c \in L => NewRoster(c, u, L, J) # {}
        /\ Channels'[c] = NewRoster(c, u, L, J)
    BY <1>3, <1>6 DEF MoveUser
  <2>2. CASE c \in J
    BY <2>1, <2>2 DEF NewRoster
  <2>3. CASE c \notin J /\ c \notin L
    BY <2>1, <2>3 DEF NewRoster, Roster, MapsInv, NoEmptyEntries
  <2> QED
    BY <2>1, <2>2, <2>3
<1>7. ASSUME NEW w \in DOMAIN UserChannels'
      PROVE  UserChannels'[w] # {}
  BY <1>3, <1>7 DEF RecordChannels, MapsInv, NoEmptyEntries
<1>8. QED
  BY <1>5, <1>6, <1>7 DEF MapsInv, NoEmptyEntries

\* Only Commit writes the maps.
LEMMA OnlyCommitMoves ==
  ASSUME [RegistryNext]_registry, \A t \in Threads : ~Commit(t)
  PROVE  UNCHANGED <<Channels, UserChannels>>
BY DEF RegistryNext, Serve, PttConnect, LookupUser, ScanChannels, StoreUser, Lock,
       MarkDirty, Reply, Publish, AbortPublish, FatalMapRace, RLock, RUnlock, registry

\* Every step keeps the maps.
LEMMA NextKeepsMaps == TypeOK /\ MapsInv /\ [RegistryNext]_registry => MapsInv'
<1> SUFFICES ASSUME TypeOK, MapsInv, [RegistryNext]_registry
             PROVE  MapsInv'
  OBVIOUS
<1>1. ASSUME NEW t \in Threads, Commit(t)
      PROVE  MapsInv'
  BY <1>1, CommitKeepsMaps
<1>2. CASE \A t \in Threads : ~Commit(t)
  BY <1>2, OnlyCommitMoves
     DEF MapsInv, MapsAreInverse, NoEmptyEntries, Roster, ChannelsOf
<1> QED
  BY <1>1, <1>2

LEMMA MapsInvIsInvariant == RegistrySpec => []MapsInv
<1>1. RegistryInit => MapsInv
  BY DEF RegistryInit, MapsInv, MapsAreInverse, NoEmptyEntries, Roster, ChannelsOf, NoEntries
<1>2. QED
  BY <1>1, NextKeepsMaps, TypeCorrect, PTL DEF RegistrySpec

\* Channels and UserChannels are inverse in every state, however many requests
\* of one user overlap.
THEOREM MapsStayInverse == RegistrySpec => []MapsAreInverse
<1>1. MapsInv => MapsAreInverse
  BY DEF MapsInv
<1>2. QED
  BY <1>1, MapsInvIsInvariant, PTL

\* Neither map keeps an empty entry: channels and users without the other do
\* not accumulate.
THEOREM MapsStayTrim == RegistrySpec => []NoEmptyEntries
<1>1. MapsInv => NoEmptyEntries
  BY DEF MapsInv
<1>2. QED
  BY <1>1, MapsInvIsInvariant, PTL

-----------------------------------------------------------------------------
(* Members are known: GlobalUsers is written first, and never shrinks.         *)

KnownInv ==
  /\ MembersAreKnown
  /\ \A t \in Threads :
       pc[t] \in {"lock", "commit"} => GlobalUsers[call[t].user] # "unknown"

LEMMA CommitKeepsKnown ==
  ASSUME TypeOK, KnownInv, NEW t \in Threads, Commit(t)
  PROVE  KnownInv'
<1> DEFINE u == call[t].user
           L == ChannelsOf(u) \ target[t]
           J == target[t] \ ChannelsOf(u)
<1>1. pc[t] = "commit" /\ MoveUser(u, L, J) /\ UNCHANGED <<GlobalUsers, call>>
  BY DEF Commit, Goto
<1>2. ASSUME NEW c \in DOMAIN Channels', NEW w \in Channels'[c]
      PROVE  GlobalUsers[w] # "unknown"
  <2>1. Channels'[c] = NewRoster(c, u, L, J)
    BY <1>1 DEF MoveUser
  <2>2. w = u \/ w \in Roster(c)
    BY <2>1 DEF NewRoster
  <2> QED
    BY <1>1, <2>2 DEF KnownInv, MembersAreKnown, Roster
<1>3. ASSUME NEW s \in Threads, pc'[s] \in {"lock", "commit"}
      PROVE  pc[s] \in {"lock", "commit"}
  BY <1>3 DEF Commit, Goto, TypeOK
<1>4. QED
  BY <1>1, <1>2, <1>3 DEF KnownInv, MembersAreKnown

LEMMA StoreKeepsKnown ==
  ASSUME TypeOK, KnownInv, NEW t \in Threads, StoreUser(t)
  PROVE  KnownInv'
<1>1. call[t].user \in Users
  BY ServedRequest, RequestFields DEF StoreUser, Goto
<1>2. \A w \in Users : GlobalUsers[w] # "unknown" => GlobalUsers'[w] # "unknown"
  BY <1>1 DEF StoreUser, TypeOK
<1>3. GlobalUsers'[call[t].user] # "unknown"
  BY <1>1 DEF StoreUser, TypeOK
<1>4. \A c \in DOMAIN Channels : Channels[c] \subseteq Users
  BY PartialFunctionElim DEF TypeOK
<1>5. \A s \in Threads : pc[s] # "idle" => call[s].user \in Users
  BY ServedRequest, RequestFields
<1>6. QED
  BY <1>2, <1>3, <1>4, <1>5 DEF StoreUser, Goto, TypeOK, KnownInv, MembersAreKnown

\* Every step keeps the members known.
LEMMA NextKeepsKnown == TypeOK /\ KnownInv /\ [RegistryNext]_registry => KnownInv'
<1> SUFFICES ASSUME TypeOK, KnownInv, [RegistryNext]_registry
             PROVE  KnownInv'
  OBVIOUS
<1>1. ASSUME NEW t \in Threads, Commit(t)
      PROVE  KnownInv'
  BY <1>1, CommitKeepsKnown
<1>2. ASSUME NEW t \in Threads, StoreUser(t)
      PROVE  KnownInv'
  BY <1>2, StoreKeepsKnown
<1>3. CASE \A t \in Threads : ~Commit(t) /\ ~StoreUser(t)
  <2>1. UNCHANGED <<Channels, GlobalUsers>>
    BY <1>3, OnlyCommitMoves
       DEF RegistryNext, Serve, PttConnect, LookupUser, ScanChannels, Lock, MarkDirty,
           Reply, Publish, AbortPublish, FatalMapRace, RLock, RUnlock, registry
  <2>2. ASSUME NEW s \in Threads, pc'[s] \in {"lock", "commit"}
        PROVE  pc[s] \in {"lock", "commit"} /\ call'[s] = call[s]
    BY <1>3, <2>2
       DEF RegistryNext, Serve, PttConnect, LookupUser, ScanChannels, Lock, MarkDirty,
           Reply, Publish, AbortPublish, FatalMapRace, RLock, RUnlock, registry, Goto,
           TypeOK
  <2> QED
    BY <2>1, <2>2 DEF KnownInv, MembersAreKnown
<1> QED
  BY <1>1, <1>2, <1>3

\* Every member of a channel can be loaded from GlobalUsers.
THEOREM MembersStayKnown == RegistrySpec => []MembersAreKnown
<1>1. RegistryInit => KnownInv
  BY DEF RegistryInit, KnownInv, MembersAreKnown, NoEntries
<1>2. KnownInv => MembersAreKnown
  BY DEF KnownInv
<1>3. QED
  BY <1>1, <1>2, NextKeepsKnown, TypeCorrect, PTL DEF RegistrySpec

-----------------------------------------------------------------------------
(* Changes are dirty.  What a goroutine has to announce it first reports to    *)
(* markDirty.                                                                  *)

DirtyInv ==
  \A t \in Threads :
    /\ pc[t] \in {"idle", "lookup", "scan", "store", "lock", "commit"} => news[t] = Silence
    /\ pc[t] = "publish" => news[t].join \cup news[t].leave = {} \/ persistDirty

LEMMA NextKeepsDirty == TypeOK /\ DirtyInv /\ [RegistryNext]_registry => DirtyInv'
<1> SUFFICES ASSUME TypeOK, DirtyInv, [RegistryNext]_registry PROVE DirtyInv'
  OBVIOUS
<1> USE DEF Goto, DirtyInv
<1>1. ASSUME NEW t \in Threads, NEW r \in Request, PttConnect(t, r)
      PROVE  DirtyInv'
  BY <1>1 DEF PttConnect, TypeOK
<1>2. ASSUME NEW t \in Threads, LookupUser(t)
      PROVE  DirtyInv'
  BY <1>2 DEF LookupUser, TypeOK, Silence
<1>3. ASSUME NEW t \in Threads, ScanChannels(t) \/ StoreUser(t) \/ Lock(t)
      PROVE  DirtyInv'
  BY <1>3 DEF ScanChannels, StoreUser, Lock, TypeOK
<1>4. ASSUME NEW t \in Threads, Commit(t)
      PROVE  DirtyInv'
  BY <1>4 DEF Commit, AfterUnlock, TypeOK, Silence, News
<1>5. ASSUME NEW t \in Threads, MarkDirty(t)
      PROVE  DirtyInv'
  BY <1>5 DEF MarkDirty, TypeOK
<1>6. ASSUME NEW t \in Threads, Reply(t) \/ AbortPublish(t)
      PROVE  DirtyInv'
  BY <1>6 DEF Reply, AbortPublish, TypeOK
<1>7. ASSUME NEW t \in Threads, NEW c \in Chans, Publish(t, c)
      PROVE  DirtyInv'
  BY <1>7 DEF Publish, TypeOK, News, Stage
<1>8. ASSUME NEW t \in Threads, FatalMapRace(t)
      PROVE  DirtyInv'
  BY <1>8 DEF FatalMapRace
<1>9. ASSUME NEW r \in Readers, RLock(r) \/ RUnlock(r)
      PROVE  DirtyInv'
  BY <1>9 DEF RLock, RUnlock
<1>10. CASE UNCHANGED registry
  BY <1>10 DEF registry
<1>11. QED
  BY <1>1, <1>2, <1>3, <1>4, <1>5, <1>6, <1>7, <1>8, <1>9, <1>10 DEF RegistryNext, Serve

\* No change of the maps is announced before the periodic save knows of it.
THEOREM ChangesStayDirty == RegistrySpec => []ChangesAreDirty
<1>1. RegistryInit => DirtyInv
  BY DEF RegistryInit, DirtyInv
<1>2. TypeOK /\ DirtyInv => ChangesAreDirty
  BY DEF TypeOK, DirtyInv, ChangesAreDirty, News
<1>3. QED
  BY <1>1, <1>2, NextKeepsDirty, TypeCorrect, PTL DEF RegistrySpec

-----------------------------------------------------------------------------
(* Serial requests.  When the requests of a user follow one another, the       *)
(* unlocked reads see what they would see under the lock, and each request     *)
(* installs what it was asked for.                                             *)

\* The channels the request of t leaves its user with.
Wanted(t) ==
  IF call[t].kind = "connect" THEN call[t].chans ELSE ChannelsOf(call[t].user) \ call[t].chans

SerialInv ==
  /\ \A s, t \in Threads :
       s # t /\ call[s] # NoRequest /\ call[t] # NoRequest => call[s].user # call[t].user
  /\ writer # NoThread => pc[writer] = "commit"
  /\ orphans = {}
  /\ \A t \in Threads :
       /\ pc[t] \in {"lookup", "scan"} => call[t].kind = "leave"
       /\ pc[t] \in {"store", "lock", "commit"} => target[t] = Wanted(t)
       /\ pc[t] \in {"lock", "commit", "mark", "publish"} /\ call[t].kind = "connect" =>
            GlobalUsers[call[t].user] = "reachable"
       /\ pc[t] \in {"mark", "publish"} /\ call[t].kind = "connect" =>
            ChannelsOf(call[t].user) = call[t].chans

\* Nobody inside the lock writes the entry of a serial leave's user.
LEMMA SerialEntry ==
  ASSUME TypeOK, SerialInv, NEW t \in Threads, pc[t] \in {"lookup", "scan"}
  PROVE  ~(WriterInside /\ call[writer].user = call[t].user)
<1> SUFFICES ASSUME WriterInside, call[writer].user = call[t].user
             PROVE  FALSE
  OBVIOUS
<1>1. writer \in Threads /\ pc[writer] = "commit"
  BY RegistryAssumption DEF WriterInside, SerialInv, TypeOK
<1>2. writer # t /\ call[writer] # NoRequest /\ call[t] # NoRequest
  BY <1>1 DEF TypeOK
<1> QED
  BY <1>1, <1>2 DEF SerialInv

\* The walk of a serial leave sees the channels of its user.
LEMMA SerialSightings ==
  ASSUME TypeOK, SerialInv, NEW t \in Threads, pc[t] = "scan"
  PROVE  Sightings(t) = {ChannelsOf(call[t].user)}
<1>1. t \notin orphans
  BY DEF SerialInv
<1>2. ~SetRace(t)
  BY SerialEntry DEF SetRace
<1>3. QED
  BY <1>1, <1>2 DEF Sightings

LEMMA SerialInit == RegistryInit => SerialInv
BY DEF RegistryInit, SerialInv

\* A goroutine that keeps its request, its place and its user's entries keeps
\* its part of the invariant; only Commit and StoreUser touch those entries.
LEMMA SerialCommit ==
  ASSUME TypeOK, SerialInv, NEW t \in Threads, Commit(t)
  PROVE  SerialInv'
<1> DEFINE u == call[t].user
           L == ChannelsOf(u) \ target[t]
           J == target[t] \ ChannelsOf(u)
<1>1. call[t] \in Request /\ u \in Users /\ pc[t] = "commit"
  BY ServedRequest, RequestFields DEF Commit, Goto
<1>2. L \in SUBSET Chans /\ J \in SUBSET Chans /\ target[t] \in SUBSET Chans
  BY <1>1, TypesOfMaps DEF TypeOK
<1>3. \A w \in Users : ChannelsOf(w)' = IF w = u THEN target[t] ELSE ChannelsOf(w)
  BY <1>1, <1>2, CommitMaps DEF Commit
<1>4. \A s \in Threads : s # t /\ pc[s] # "idle" => call[s].user \in Users \ {u}
  BY <1>1, ServedRequest, RequestFields DEF SerialInv, TypeOK
<1>5. /\ UNCHANGED <<GlobalUsers, call, target>>
      /\ writer' = NoThread
      /\ pc' = [pc EXCEPT ![t] = pc'[t]]
      /\ pc'[t] \in {"mark", "publish"}
  BY <1>1 DEF Commit, AfterUnlock, Goto, TypeOK
<1>6. orphans' = {}
  BY <1>1, <1>4 DEF Commit, SerialInv
<1>7. ASSUME NEW s \in Threads, s # t
      PROVE  /\ pc'[s] = pc[s]
             /\ pc[s] # "idle" => ChannelsOf(call[s].user)' = ChannelsOf(call[s].user)
             /\ pc[s] # "idle" => Wanted(s)' = Wanted(s)
  <2>1. pc'[s] = pc[s]
    BY <1>5, <1>7 DEF TypeOK
  <2>2. pc[s] # "idle" => ChannelsOf(call[s].user)' = ChannelsOf(call[s].user)
    BY <1>3, <1>4, <1>5, <1>7 DEF ChannelsOf
  <2> QED
    BY <2>1, <2>2, <1>5 DEF Wanted, ChannelsOf
<1>8. call[t].kind = "connect" => ChannelsOf(call[t].user)' = call[t].chans
  BY <1>1, <1>3, <1>5 DEF SerialInv, Wanted
<1>9. QED
  BY <1>1, <1>5, <1>6, <1>7, <1>8 DEF SerialInv, TypeOK

\* A user whose request arrives has no other: nothing that is known of the others
\* changes, and little is said of the new one yet.
LEMMA SerialConnect ==
  ASSUME SerialPerUser, TypeOK, SerialInv, NEW t \in Threads, NEW r \in Request, PttConnect(t, r)
  PROVE  SerialInv'
<1>1. /\ UNCHANGED <<GlobalUsers, UserChannels, writer, orphans>>
      /\ pc[t] = "idle"
      /\ \A s \in Threads : s # t => pc'[s] = pc[s] /\ call'[s] = call[s] /\ target'[s] = target[s]
      /\ pc'[t] = IF r.kind = "leave" THEN "lookup" ELSE "store"
      /\ call'[t] = r /\ target'[t] = IF r.kind = "leave" THEN {} ELSE r.chans
  BY DEF PttConnect, Goto, TypeOK
<1>2. r.kind \in {"connect", "leave"} /\ r # NoRequest
  BY RequestFields
<1>3. \A s \in Threads : s # t /\ call[s] # NoRequest => call[s].user # r.user
  BY DEF PttConnect, UserIdle
<1>4. \A s, v \in Threads :
        s # v /\ call'[s] # NoRequest /\ call'[v] # NoRequest => call'[s].user # call'[v].user
  BY <1>1, <1>3 DEF SerialInv
<1>5. (writer' # NoThread => pc'[writer'] = "commit") /\ orphans' = {}
  BY <1>1, RegistryAssumption DEF SerialInv, TypeOK
<1>6. ASSUME NEW s \in Threads
      PROVE  /\ pc'[s] \in {"lookup", "scan"} => call'[s].kind = "leave"
             /\ pc'[s] \in {"store", "lock", "commit"} => target'[s] = Wanted(s)'
             /\ pc'[s] \in {"lock", "commit", "mark", "publish"} /\ call'[s].kind = "connect" =>
                  GlobalUsers'[call'[s].user] = "reachable"
             /\ pc'[s] \in {"mark", "publish"} /\ call'[s].kind = "connect" =>
                  ChannelsOf(call[s].user)' = call'[s].chans
  <2>1. CASE s = t
    BY <1>1, <1>2, <2>1 DEF Wanted
  <2>2. CASE s # t
    BY <1>1, <2>2 DEF SerialInv, Wanted, ChannelsOf
  <2> QED BY <2>1, <2>2
<1> QED BY <1>4, <1>5, <1>6 DEF SerialInv

LEMMA SerialStore ==
  ASSUME TypeOK, SerialInv, NEW t \in Threads, StoreUser(t)
  PROVE  SerialInv'
<1>1. call[t] \in Request /\ call[t].user \in Users
  BY ServedRequest, RequestFields DEF StoreUser, Goto
<1>2. \A s \in Threads : s # t /\ pc[s] # "idle" => call[s].user \in Users \ {call[t].user}
  BY <1>1, ServedRequest, RequestFields DEF SerialInv, TypeOK, StoreUser, Goto
<1>3. \A s \in Threads : s # t /\ pc[s] # "idle" =>
        GlobalUsers'[call[s].user] = GlobalUsers[call[s].user]
  BY <1>1, <1>2 DEF StoreUser, TypeOK
<1>4. call[t].kind = "connect" => GlobalUsers'[call[t].user] = "reachable"
  BY <1>1 DEF StoreUser, TypeOK
<1>5. /\ UNCHANGED <<UserChannels, writer, call, target, orphans>>
      /\ pc[t] = "store" /\ call[t] # NoRequest
      /\ \A s \in Threads : pc'[s] = IF s = t THEN "lock" ELSE pc[s]
  BY DEF StoreUser, Goto, TypeOK
<1>6. \A s \in Threads : Wanted(s)' = Wanted(s)
  BY <1>5 DEF Wanted, ChannelsOf
<1>7. \A s, u \in Threads :
        s # u /\ call'[s] # NoRequest /\ call'[u] # NoRequest => call'[s].user # call'[u].user
  BY <1>5 DEF SerialInv
<1>8. (writer' # NoThread => pc'[writer'] = "commit") /\ orphans' = {}
  BY <1>5, RegistryAssumption DEF SerialInv, TypeOK
<1>9. ASSUME NEW s \in Threads
      PROVE  /\ pc'[s] \in {"lookup", "scan"} => call'[s].kind = "leave"
             /\ pc'[s] \in {"store", "lock", "commit"} => target'[s] = Wanted(s)'
             /\ pc'[s] \in {"lock", "commit", "mark", "publish"} /\ call'[s].kind = "connect" =>
                  GlobalUsers'[call'[s].user] = "reachable"
             /\ pc'[s] \in {"mark", "publish"} /\ call'[s].kind = "connect" =>
                  ChannelsOf(call[s].user)' = call'[s].chans
  <2>1. CASE s = t
    BY <1>4, <1>5, <1>6, <2>1 DEF SerialInv
  <2>2. CASE s # t
    BY <1>3, <1>5, <1>6, <2>2 DEF SerialInv, ChannelsOf
  <2> QED BY <2>1, <2>2
<1> QED BY <1>7, <1>8, <1>9 DEF SerialInv

LEMMA NextKeepsSerial ==
  SerialPerUser /\ TypeOK /\ SerialInv /\ [RegistryNext]_registry => SerialInv'
<1> SUFFICES ASSUME SerialPerUser, TypeOK, SerialInv, [RegistryNext]_registry
             PROVE  SerialInv'
  OBVIOUS
<1> USE RegistryAssumption DEF Goto, SerialInv, Wanted, ChannelsOf
<1>1. ASSUME NEW t \in Threads, NEW r \in Request, PttConnect(t, r)
      PROVE  SerialInv'
  BY <1>1, SerialConnect
<1>2. ASSUME NEW t \in Threads, LookupUser(t)
      PROVE  SerialInv'
  <2>1. PICK ok \in Lookups(t) : Goto(t, "lookup", IF ok THEN "scan" ELSE "publish")
    BY <1>2 DEF LookupUser
  <2>2. call[t].kind = "leave"
    BY <2>1
  <2>3. pc' = [pc EXCEPT ![t] = "scan"] \/ pc' = [pc EXCEPT ![t] = "publish"]
    BY <2>1
  <2> QED
    BY <1>2, <2>2, <2>3 DEF LookupUser, TypeOK
<1>3. ASSUME NEW t \in Threads, ScanChannels(t)
      PROVE  SerialInv'
  <2>1. Sightings(t) = {ChannelsOf(call[t].user)}
    BY <1>3, SerialSightings DEF ScanChannels
  <2>2. target' = [target EXCEPT ![t] = ChannelsOf(call[t].user) \ call[t].chans]
    BY <1>3, <2>1 DEF ScanChannels
  <2> QED
    BY <1>3, <2>2 DEF ScanChannels, TypeOK
<1>4. ASSUME NEW t \in Threads, StoreUser(t)
      PROVE  SerialInv'
  BY <1>4, SerialStore
<1>5. ASSUME NEW t \in Threads, Lock(t)
      PROVE  SerialInv'
  BY <1>5 DEF Lock, TypeOK
<1>6. ASSUME NEW t \in Threads, Commit(t)
      PROVE  SerialInv'
  BY <1>6, SerialCommit
<1>7. ASSUME NEW t \in Threads, MarkDirty(t)
      PROVE  SerialInv'
  BY <1>7 DEF MarkDirty, TypeOK
<1>8. ASSUME NEW t \in Threads, Reply(t) \/ AbortPublish(t)
      PROVE  SerialInv'
  <2>1. /\ pc[t] = "publish"
        /\ pc' = [pc EXCEPT ![t] = "idle"]
        /\ call' = [call EXCEPT ![t] = NoRequest]
        /\ target' = [target EXCEPT ![t] = {}]
        /\ UNCHANGED <<GlobalUsers, UserChannels, writer, orphans>>
    BY <1>8 DEF Reply, AbortPublish
  <2> QED
    BY <2>1 DEF TypeOK
<1>9. ASSUME NEW t \in Threads, NEW c \in Chans, Publish(t, c)
      PROVE  SerialInv'
  BY <1>9 DEF Publish, TypeOK
<1>10. ASSUME NEW t \in Threads, FatalMapRace(t)
       PROVE  SerialInv'
  BY <1>10 DEF FatalMapRace
<1>11. ASSUME NEW r \in Readers, RLock(r) \/ RUnlock(r)
       PROVE  SerialInv'
  BY <1>11 DEF RLock, RUnlock
<1>12. CASE UNCHANGED registry
  BY <1>12 DEF registry
<1>13. QED
  BY <1>1, <1>2, <1>3, <1>4, <1>5, <1>6, <1>7, <1>8, <1>9, <1>10, <1>11, <1>12
     DEF RegistryNext, Serve

LEMMA SerialInvIsInvariant == SerialPerUser /\ RegistrySpec => []SerialInv
<1>1. CASE SerialPerUser
  BY <1>1, SerialInit, NextKeepsSerial, TypeCorrect, PTL DEF RegistrySpec
<1>2. CASE ~SerialPerUser
  BY <1>2
<1>3. QED
  BY <1>1, <1>2, RegistryAssumption

\* A connect of serial requests ends with its user reachable, and on the rosters
\* it asked for and no others.
THEOREM ConnectsSettle == RegistrySpec => []ConnectSettles
<1>1. SerialInv /\ TypeOK /\ MapsInv => ConnectSettles
  <2> SUFFICES ASSUME SerialInv, TypeOK, MapsInv, NEW t \in Threads,
                      pc[t] = "publish", call[t].kind = "connect"
               PROVE  /\ GlobalUsers[call[t].user] = "reachable"
                      /\ \A c \in Chans : call[t].user \in Roster(c) <=> c \in call[t].chans
    BY DEF ConnectSettles
  <2>1. call[t].user \in Users
    BY ServedRequest, RequestFields
  <2> QED
    BY <2>1 DEF SerialInv, MapsInv, MapsAreInverse
<1>2. ~SerialPerUser => ConnectSettles
  BY DEF ConnectSettles
<1>3. CASE SerialPerUser
  BY <1>1, <1>3, SerialInvIsInvariant, TypeCorrect, MapsInvIsInvariant, PTL
<1>4. CASE ~SerialPerUser
  BY <1>2, <1>4, PTL
<1>5. QED
  BY <1>3, <1>4, RegistryAssumption

-----------------------------------------------------------------------------
(* Refinement: serial requests take effect atomically, at the lookup of a      *)
(* leave that finds no channels, and else at the Unlock of SyncChannels.       *)

members == [u \in Users |-> ChannelsOf(u)]

done == {t \in Threads : pc[t] \in {"mark", "publish"}}

LEMMA LookupTakesEffect ==
  ASSUME TypeOK, SerialInv, NEW t \in Threads, LookupUser(t)
  PROVE  Membership!TakeEffect(t) \/ UNCHANGED <<members, call, done>>
<1>1. call[t] \in Request /\ call[t].user \in Users /\ call[t].kind = "leave" /\ call[t] # NoRequest
  BY ServedRequest, RequestFields DEF LookupUser, Goto, SerialInv
<1>2. pc[t] = "lookup" /\ UNCHANGED <<UserChannels, call>>
  BY DEF LookupUser, Goto
<1>3. members' = members
  BY <1>2 DEF members, ChannelsOf
<1>7. Lookups(t) = {call[t].user \in DOMAIN UserChannels}
  BY <1>2, SerialEntry DEF Lookups
<1>8. pc' = [pc EXCEPT ![t] = IF call[t].user \in DOMAIN UserChannels THEN "scan" ELSE "publish"]
  BY <1>7 DEF LookupUser, Goto
<1>4. CASE call[t].user \in DOMAIN UserChannels
  <2>1. pc' = [pc EXCEPT ![t] = "scan"]
    BY <1>4, <1>8
  <2>2. done' = done
    BY <1>2, <2>1 DEF done, TypeOK
  <2> QED
    BY <1>2, <1>3, <2>2
<1>5. CASE call[t].user \notin DOMAIN UserChannels
  <2>1. pc' = [pc EXCEPT ![t] = "publish"]
    BY <1>5, <1>8
  <2>2. t \notin done /\ done' = done \cup {t}
    BY <1>2, <2>1 DEF done, TypeOK
  <2>3. members[call[t].user] = {}
    BY <1>1, <1>5 DEF members, ChannelsOf
  <2>4. members' = [members EXCEPT ![call[t].user] = {} \ call[t].chans]
    BY <1>1, <1>3, <2>3 DEF members
  <2> QED
    BY <1>1, <1>2, <2>2, <2>3, <2>4
       DEF Membership!TakeEffect, Membership!Outcome, members, done
<1>6. QED
  BY <1>4, <1>5

LEMMA CommitTakesEffect ==
  ASSUME TypeOK, SerialInv, NEW t \in Threads, Commit(t)
  PROVE  Membership!TakeEffect(t)
<1> DEFINE u == call[t].user
           L == ChannelsOf(u) \ target[t]
           J == target[t] \ ChannelsOf(u)
<1>1. call[t] \in Request /\ u \in Users /\ call[t] # NoRequest /\ pc[t] = "commit"
  BY ServedRequest, RequestFields DEF Commit, Goto
<1>2. L \in SUBSET Chans /\ J \in SUBSET Chans /\ target[t] \in SUBSET Chans
  BY <1>1, TypesOfMaps DEF TypeOK
<1>3. \A w \in Users : ChannelsOf(w)' = IF w = u THEN target[t] ELSE ChannelsOf(w)
  BY <1>1, <1>2, CommitMaps DEF Commit
<1>4. members' = [members EXCEPT ![u] = target[t]]
  BY <1>1, <1>3 DEF members
<1>5. target[t] = IF call[t].kind = "connect" THEN call[t].chans ELSE members[u] \ call[t].chans
  BY <1>1 DEF SerialInv, Wanted, members
<1>6. t \notin done /\ done' = done \cup {t}
  BY <1>1 DEF Commit, AfterUnlock, Goto, done, TypeOK
<1>7. call' = call
  BY DEF Commit
<1>8. QED
  BY <1>1, <1>4, <1>5, <1>6, <1>7
     DEF Membership!TakeEffect, Membership!Outcome, members, done

LEMMA StepsImplement ==
  SerialPerUser /\ TypeOK /\ SerialInv /\ [RegistryNext]_registry
    => [Membership!MembershipNext]_(Membership!mvars)
<1> SUFFICES ASSUME SerialPerUser, TypeOK, SerialInv, [RegistryNext]_registry
             PROVE  Membership!MembershipNext \/ UNCHANGED <<members, call, done>>
  BY DEF Membership!mvars, members, done
<1> USE DEF Goto
<1>1. ASSUME NEW t \in Threads, NEW r \in Request, PttConnect(t, r)
      PROVE  Membership!Accept(t, r)
  <2>1. call[t] = NoRequest /\ call' = [call EXCEPT ![t] = r]
    BY <1>1 DEF PttConnect, TypeOK
  <2>2. members' = members
    BY <1>1 DEF PttConnect, members, ChannelsOf
  <2>3. done' = done
    BY <1>1 DEF PttConnect, done, TypeOK
  <2> QED
    BY <2>1, <2>2, <2>3 DEF Membership!Accept, members, done
<1>2. ASSUME NEW t \in Threads, ScanChannels(t) \/ StoreUser(t) \/ Lock(t) \/ MarkDirty(t)
      PROVE  UNCHANGED <<members, call, done>>
  BY <1>2 DEF ScanChannels, StoreUser, Lock, MarkDirty, members, ChannelsOf, done, TypeOK
<1>3. ASSUME NEW t \in Threads, Reply(t) \/ AbortPublish(t)
      PROVE  Membership!Answer(t)
  <2>1. /\ pc[t] = "publish"
        /\ pc' = [pc EXCEPT ![t] = "idle"]
        /\ call' = [call EXCEPT ![t] = NoRequest]
        /\ UserChannels' = UserChannels
    BY <1>3 DEF Reply, AbortPublish
  <2>2. members' = members
    BY <2>1 DEF members, ChannelsOf
  <2>3. t \in done /\ done' = done \ {t}
    BY <2>1 DEF done, TypeOK
  <2> QED
    BY <2>1, <2>2, <2>3 DEF Membership!Answer, members, done
<1>4. ASSUME NEW t \in Threads, NEW c \in Chans, Publish(t, c)
      PROVE  UNCHANGED <<members, call, done>>
  BY <1>4 DEF Publish, members, ChannelsOf, done, TypeOK
<1>5. ASSUME NEW t \in Threads, FatalMapRace(t)
      PROVE  UNCHANGED <<members, call, done>>
  BY <1>5 DEF FatalMapRace, members, ChannelsOf, done
<1>6. ASSUME NEW r \in Readers, RLock(r) \/ RUnlock(r)
      PROVE  UNCHANGED <<members, call, done>>
  BY <1>6 DEF RLock, RUnlock, members, ChannelsOf, done
<1>7. CASE UNCHANGED registry
  BY <1>7 DEF registry, members, ChannelsOf, done
<1>8. Membership!Request = Request
  BY DEF Membership!Request, Request
<1>9. QED
  BY <1>1, <1>2, <1>3, <1>4, <1>5, <1>6, <1>7, <1>8, LookupTakesEffect, CommitTakesEffect
     DEF RegistryNext, Serve, Membership!MembershipNext

\* When the requests of each user are serial, the registry implements the
\* atomic membership service of PttMembership.
THEOREM SerialRegistryImplementsMembership ==
  SerialPerUser /\ RegistrySpec => ImplementsMembership
<1>1. RegistryInit => Membership!MembershipInit
  BY DEF RegistryInit, Membership!MembershipInit, ChannelsOf, NoEntries
<1>2. CASE SerialPerUser
  BY <1>1, <1>2, SerialInvIsInvariant, TypeCorrect, StepsImplement, PTL
     DEF RegistrySpec, ImplementsMembership, Membership!MembershipSpec
<1>3. CASE ~SerialPerUser
  BY <1>3
<1>4. QED
  BY <1>2, <1>3, RegistryAssumption
=============================================================================
