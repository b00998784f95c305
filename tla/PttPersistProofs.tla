-------------------------- MODULE PttPersistProofs --------------------------
(***************************************************************************)
(* Theorems about the persistence of the registry, PttPersist, for any     *)
(* users, channels and goroutines, and any number of crashes and starts.   *)
(***************************************************************************)
EXTENDS PttPersist, PttRegistryProofs

-----------------------------------------------------------------------------
(* Types *)

SpcTypes == {"off", "maps", "users", "open", "write", "rename", "clean", "over", "failed"}

\* The image of maps of users who are not known yet.
LEMMA ImageOfMaps ==
  ASSUME NEW ch \in PartialFunctions(Chans, SUBSET Users),
         NEW uc \in PartialFunctions(Users, SUBSET Chans),
         NEW g \in [Users -> {"unknown", "silent", "reachable"}]
  PROVE  [channels |-> ch, userChannels |-> uc, users |-> g] \in Image
BY DEF Image

\* The parts of an image.
LEMMA ImageParts ==
  ASSUME NEW i \in Image
  PROVE  /\ i.channels \in PartialFunctions(Chans, SUBSET Users)
         /\ i.userChannels \in PartialFunctions(Users, SUBSET Chans)
         /\ i.users \in [Users -> {"unknown", "silent", "reachable"}]
BY DEF Image

LEMMA EmptyImageType == EmptyImage \in Image /\ EmptyImage.users \in [Users -> {"unknown"}]
<1>1. NoEntries \in [{} -> SUBSET Users] /\ NoEntries \in [{} -> SUBSET Chans]
  BY DEF NoEntries
<1>2. /\ NoEntries \in PartialFunctions(Chans, SUBSET Users)
      /\ NoEntries \in PartialFunctions(Users, SUBSET Chans)
  BY <1>1, PartialFunctionIntro
<1> QED BY <1>2 DEF EmptyImage, Image

\* What may be in a file.
LEMMA ContentTypes ==
  /\ Empty \in Contents /\ Torn \in Contents
  /\ \A i \in Image : Whole(i) \in Contents /\ Whole(i).form = "whole" /\ Whole(i).image = i
  /\ Empty.form = "empty" /\ Torn.form = "torn"
BY EmptyImageType DEF Empty, Torn, Whole, Contents

\* When a saver is about to open a file that has no name yet, there is one to spare.
LEMMA SpareType ==
  ASSUME PersistTypeOK, OpenToWrite, NEW v \in Savers, spc[v] # "write", tmp = NoFile
  PROVE  /\ Spare \in Files /\ Spare \notin {tmp, state}
         /\ \A w \in Savers : fd[w] # Spare
<1>1. fd[v] = NoFile /\ NoFile \notin Files
  BY PersistAssumption DEF OpenToWrite
<1>2. PICK w \in Savers : \A x \in Savers : x = v \/ x = w
  BY DEF Savers
<1>3. \E f \in Files : f # state /\ f # fd[w]
  <2>1. 1 \in Files /\ 2 \in Files /\ 3 \in Files
    BY DEF Files
  <2>2. 1 # 2 /\ 1 # 3 /\ 2 # 3
    OBVIOUS
  <2> QED BY <2>1, <2>2
<1>4. PICK f \in Files : f # state /\ f # fd[w]
  BY <1>3
<1>5. f \notin {tmp, state} /\ \A x \in Savers : fd[x] # f
  BY <1>1, <1>2, <1>4
<1>6. \E g \in Files : g \notin {tmp, state} /\ \A x \in Savers : fd[x] # g
  BY <1>4, <1>5
<1> QED BY <1>6 DEF Spare

\* What a process has in memory when it begins.
LEMMA FreshTypes ==
  ASSUME NEW i \in Image, FreshMemory(i), up' \in BOOLEAN
  PROVE  /\ TypeOK'
         /\ spc' \in [Savers -> SpcTypes]
         /\ image' \in [Savers -> Image]
         /\ fd' \in [Savers -> Files \cup {NoFile}]
         /\ tickerOn' \in {"on", "stopping", "off"}
         /\ accepting' \in BOOLEAN
         /\ missed' \in SUBSET Savers /\ slipped' \in BOOLEAN
         /\ OpenToWrite'
<1>1. /\ Channels' \in PartialFunctions(Chans, SUBSET Users)
      /\ UserChannels' \in PartialFunctions(Users, SUBSET Chans)
      /\ GlobalUsers' \in [Users -> {"unknown", "silent", "reachable"}]
  BY ImageParts DEF FreshMemory
<1>2. news' \in [Threads -> News]
  BY DEF FreshMemory, News, Silence
<1>3. TypeOK'
  BY <1>1, <1>2 DEF FreshMemory, TypeOK, PcOfCall
<1> QED BY <1>3, EmptyImageType DEF FreshMemory, SpcTypes, OpenToWrite

\* The image that is restored is one.
LEMMA RestoredType ==
  ASSUME PersistTypeOK, NEW young \in BOOLEAN
  PROVE  Restored(young) \in Image
<1>1. CASE state # NoFile /\ IsWhole(state) /\ young
  <2>1. file[state] \in Contents
    BY <1>1 DEF PersistTypeOK
  <2>2. file[state].image \in Image
    BY <2>1 DEF Contents
  <2> QED BY <1>1, <2>2 DEF Restored
<1>2. CASE ~(state # NoFile /\ IsWhole(state) /\ young)
  BY <1>2, EmptyImageType DEF Restored
<1> QED BY <1>1, <1>2

\* The types at first.
LEMMA PersistInitTypes == PersistInit => PersistTypeOK /\ OpenToWrite
<1> SUFFICES ASSUME PersistInit PROVE PersistTypeOK /\ OpenToWrite
  OBVIOUS
<1>1. TypeOK
  BY InitTypes DEF PersistInit
<1>2. 1 \in 1..MaxBoots
  BY PersistAssumption
<1> QED BY <1>1, <1>2, EmptyImageType, ContentTypes DEF PersistInit, PersistTypeOK, OpenToWrite

\* A step of the registry is one of PttRegistry.
LEMMA RegistryStepIsNext == RegistryStep => RegistryNext
BY DEF RegistryStep, RegistryNext

\* A save keeps the types.
LEMMA SaveTypes ==
  ASSUME PersistTypeOK, OpenToWrite, NEW v \in Savers, Save(v)
  PROVE  PersistTypeOK' /\ OpenToWrite'
<1> USE DEF Step
<1>t. /\ spc \in [Savers -> SpcTypes] /\ fd \in [Savers -> Files \cup {NoFile}]
      /\ image \in [Savers -> Image] /\ file \in [Files -> Contents]
      /\ NoFile \notin Files
      /\ TypeOK
  BY PersistAssumption DEF PersistTypeOK, SpcTypes
<1>r. Returns(v) => missed' \in SUBSET Savers /\ image' \in [Savers -> Image]
  BY <1>t, EmptyImageType DEF Returns, PersistTypeOK
<1>1. CASE CopyMaps(v)
  <2>1. [channels |-> Channels, userChannels |-> UserChannels, users |-> EmptyImage.users] \in Image
    BY <1>t, EmptyImageType, ImageOfMaps DEF TypeOK
  <2>2. image' \in [Savers -> Image]
    BY <1>t, <1>1, <2>1 DEF CopyMaps
  <2>3. TypeOK'
    BY <1>t, <1>1 DEF CopyMaps, registry, TypeOK
  <2>4. OpenToWrite'
    BY <1>t, <1>1 DEF CopyMaps, OpenToWrite
  <2> QED BY <1>1, <2>2, <2>3, <2>4 DEF CopyMaps, PersistTypeOK, history
<1>2. CASE CopyUsers(v)
  <2> DEFINE i == [channels |-> image[v].channels, userChannels |-> image[v].userChannels,
                   users |-> GlobalUsers]
  <2>1. i \in Image
    BY <1>t, ImageParts, ImageOfMaps DEF TypeOK
  <2>2. image' = [image EXCEPT ![v] = i]
    BY <1>2 DEF CopyUsers
  <2>3. image' \in [Savers -> Image]
    BY <1>t, <2>1, <2>2
  <2>4. TypeOK'
    BY <1>t, <1>2 DEF CopyUsers, registry, TypeOK
  <2>5. OpenToWrite'
    BY <1>t, <1>2 DEF CopyUsers, OpenToWrite
  <2> QED BY <1>2, <2>3, <2>4, <2>5 DEF CopyUsers, PersistTypeOK, history
<1>3. CASE OpenTmp(v)
  <2>1. tmp' \in Files
    BY <1>3, SpareType DEF OpenTmp, PersistTypeOK
  <2>2. file' \in [Files -> Contents]
    BY <1>t, <1>3, ContentTypes DEF OpenTmp
  <2>3. fd' \in [Savers -> Files \cup {NoFile}]
    BY <1>t, <1>3, <2>1 DEF OpenTmp
  <2>4. TypeOK'
    BY <1>t, <1>3 DEF OpenTmp, registry, TypeOK
  <2>5. OpenToWrite'
    BY <1>t, <1>3, <2>1 DEF OpenTmp, OpenToWrite
  <2> QED BY <1>3, <2>1, <2>2, <2>3, <2>4, <2>5 DEF OpenTmp, PersistTypeOK, history
<1>4. CASE WriteTmp(v) \/ WriteFails(v)
  <2>1. PICK c \in Contents : file' = [file EXCEPT ![fd[v]] = c]
    BY <1>t, <1>4, ContentTypes DEF WriteTmp, WriteFails
  <2>2. file' \in [Files -> Contents]
    BY <1>t, <2>1
  <2>3. fd' = [fd EXCEPT ![v] = NoFile]
    BY <1>4 DEF WriteTmp, WriteFails
  <2>4. fd' \in [Savers -> Files \cup {NoFile}]
    BY <1>t, <2>3
  <2>5. /\ spc' \in [Savers -> SpcTypes] /\ \A w \in Savers : w # v => spc'[w] = spc[w]
        /\ spc'[v] # "write"
    BY <1>t, <1>4 DEF WriteTmp, WriteFails, Abandoned, SpcTypes
  <2>6. OpenToWrite'
    BY <1>t, <2>3, <2>5 DEF OpenToWrite
  <2>7. TypeOK'
    BY <1>t, <1>4 DEF WriteTmp, WriteFails, registry, TypeOK
  <2>8. /\ image' \in [Savers -> Image]
        /\ missed' \in SUBSET Savers /\ UNCHANGED <<overlapped, slipped, discarded>>
    BY <1>t, <1>r, <1>4 DEF WriteTmp, WriteFails, history, PersistTypeOK
  <2>9. UNCHANGED <<tmp, state, tickerOn, accepting, boots>>
    BY <1>4 DEF WriteTmp, WriteFails
  <2> QED BY <2>2, <2>4, <2>5, <2>6, <2>7, <2>8, <2>9 DEF PersistTypeOK, SpcTypes
<1>5. CASE RenameTmp(v)
  <2>1. \A f \in Files : file'[f] = file[f] \/ file'[f] = Empty
    BY <1>t, <1>5 DEF RenameTmp
  <2>2. file' \in [Files -> Contents]
    BY <1>t, <1>5, ContentTypes DEF RenameTmp
  <2>3. TypeOK'
    BY <1>t, <1>5 DEF RenameTmp, registry, TypeOK
  <2>4. spc' \in [Savers -> SpcTypes]
    BY <1>t, <1>5 DEF RenameTmp, SpcTypes
  <2>5. OpenToWrite'
    BY <1>t, <1>5 DEF RenameTmp, OpenToWrite
  <2> QED BY <1>5, <2>2, <2>3, <2>4, <2>5 DEF RenameTmp, PersistTypeOK, SpcTypes
<1>6. CASE ClearDirty(v)
  <2>1. TypeOK'
    BY <1>t, <1>6 DEF ClearDirty, TypeOK
  <2>2. spc' \in [Savers -> SpcTypes]
    BY <1>t, <1>6 DEF ClearDirty, Rest, SpcTypes
  <2>3. OpenToWrite'
    BY <1>t, <1>6 DEF ClearDirty, Rest, OpenToWrite
  <2> QED BY <1>r, <1>6, <2>1, <2>2, <2>3 DEF ClearDirty, PersistTypeOK, SpcTypes
<1>7. CASE SaveFails(v)
  <2>1. TypeOK'
    BY <1>t, <1>7 DEF SaveFails, registry, TypeOK
  <2>2. spc' \in [Savers -> SpcTypes]
    BY <1>t, <1>7 DEF SaveFails, Abandoned, SpcTypes
  <2>3. OpenToWrite'
    BY <1>t, <1>7 DEF SaveFails, Abandoned, OpenToWrite
  <2> QED BY <1>r, <1>7, <2>1, <2>2, <2>3 DEF SaveFails, PersistTypeOK, SpcTypes
<1> QED BY <1>1, <1>2, <1>3, <1>4, <1>5, <1>6, <1>7 DEF Save

\* Every step keeps the types.
LEMMA PersistNextTypes ==
  PersistTypeOK /\ OpenToWrite /\ [PersistNext]_vars => PersistTypeOK' /\ OpenToWrite'
<1> SUFFICES ASSUME PersistTypeOK, OpenToWrite, [PersistNext]_vars
             PROVE  PersistTypeOK' /\ OpenToWrite'
  OBVIOUS
<1>1. CASE RegistryStep
  <2>1. TypeOK'
    BY <1>1, RegistryStepIsNext, NextTypes DEF PersistTypeOK
  <2>2. missed' \in SUBSET Savers
    BY <1>1 DEF RegistryStep, PersistTypeOK
  <2> QED BY <1>1, <2>1, <2>2 DEF RegistryStep, PersistTypeOK, OpenToWrite
<1>2. CASE Tick \/ ShutdownPttSystem
  <2>1. PICK v \in Savers : Begin(v)
    BY <1>2 DEF Tick, ShutdownPttSystem, Savers
  <2>2. overlapped' \in BOOLEAN /\ missed' \in SUBSET Savers /\ UNCHANGED <<slipped, discarded>>
    BY <2>1 DEF Begin, PersistTypeOK
  <2>3. /\ spc' \in [Savers -> SpcTypes] /\ spc[v] = "off" /\ spc'[v] = "maps"
        /\ \A w \in Savers : w # v => spc'[w] = spc[w]
    BY <2>1 DEF Begin, Step, PersistTypeOK, SpcTypes
  <2>4. UNCHANGED <<registry, file, tmp, state, image, fd, accepting, boots>>
        /\ tickerOn' \in {"on", "stopping", "off"}
    BY <1>2 DEF Tick, ShutdownPttSystem, PersistTypeOK
  <2>5. TypeOK'
    BY <2>4 DEF registry, TypeOK, PersistTypeOK
  <2>6. OpenToWrite'
    BY <2>3, <2>4 DEF OpenToWrite
  <2> QED BY <2>2, <2>3, <2>4, <2>5, <2>6 DEF PersistTypeOK, SpcTypes
<1>3. CASE TickerStops \/ CloseServer \/ UNCHANGED vars
  <2>1. TypeOK'
    BY <1>3 DEF TickerStops, CloseServer, vars, registry, TypeOK, PersistTypeOK
  <2> QED BY <1>3, <2>1 DEF TickerStops, CloseServer, vars, storage, history, PersistTypeOK, OpenToWrite
<1>4. CASE Stop
  <2>1. FreshMemory(EmptyImage) /\ up' \in BOOLEAN
    BY <1>4 DEF Stop
  <2> QED BY <1>4, <2>1, FreshTypes, EmptyImageType DEF Stop, PersistTypeOK, SpcTypes
<1>5. ASSUME NEW young \in BOOLEAN, Boot(young)
      PROVE  PersistTypeOK' /\ OpenToWrite'
  <2>1. FreshMemory(Restored(young)) /\ up' \in BOOLEAN /\ Restored(young) \in Image
    BY <1>5, RestoredType DEF Boot
  <2>2. boots' \in 1..MaxBoots
    BY <1>5, PersistAssumption DEF Boot, PersistTypeOK
  <2>3. discarded' \in Files \cup {NoFile}
    BY <1>5 DEF Boot, PersistTypeOK
  <2> QED BY <1>5, <2>1, <2>2, <2>3, FreshTypes DEF Boot, PersistTypeOK, SpcTypes
<1> QED BY <1>1, <1>2, <1>3, <1>4, <1>5, SaveTypes DEF PersistNext

\* However the savers, the requests and crashes interleave, every variable has
\* its type: among others there is always a file for a saver to open.
THEOREM PersistTypeCorrect == PersistSpec => []PersistTypeOK
BY PersistInitTypes, PersistNextTypes, PTL DEF PersistSpec

-----------------------------------------------------------------------------
(* The state file is whole.  While no two saves overlap, one saver at most has *)
(* the .tmp name, the state file is another file than the .tmp file, and what  *)
(* is renamed was written to a file that was empty and that nobody shares.     *)

SaversAlternate == \A v, w \in Savers : Saving(v) /\ Saving(w) => v = w

StateIsApart == state # NoFile => state # tmp /\ IsWhole(state)

WritersOwnTmp ==
  \A v \in Savers : spc[v] = "write" =>
    tmp # NoFile /\ fd[v] = tmp /\ file[tmp].form = "empty"

RenamersHaveAll == \A v \in Savers : spc[v] = "rename" => tmp # NoFile /\ IsWhole(tmp)

WholeInv ==
  ~overlapped => SaversAlternate /\ StateIsApart /\ WritersOwnTmp /\ RenamersHaveAll

\* A save keeps the state file whole.
LEMMA SaveKeepsWhole ==
  ASSUME PersistTypeOK, OpenToWrite, WholeInv, NEW v \in Savers, Save(v)
  PROVE  WholeInv'
<1> SUFFICES ASSUME ~overlapped
             PROVE  (SaversAlternate /\ StateIsApart /\ WritersOwnTmp /\ RenamersHaveAll)'
  BY DEF Save, CopyMaps, CopyUsers, OpenTmp, WriteTmp, WriteFails, RenameTmp, SaveFails,
         ClearDirty, history, WholeInv
<1>i. SaversAlternate /\ StateIsApart /\ WritersOwnTmp /\ RenamersHaveAll
  BY DEF WholeInv
<1>t. /\ spc \in [Savers -> SpcTypes] /\ fd \in [Savers -> Files \cup {NoFile}]
      /\ file \in [Files -> Contents]
      /\ tmp \in Files \cup {NoFile} /\ state \in Files \cup {NoFile} /\ NoFile \notin Files
  BY PersistAssumption DEF PersistTypeOK, SpcTypes
<1>s. /\ Saving(v) /\ \A w \in Savers : w = v \/ spc'[w] = spc[w]
      /\ spc[v] \in {"maps", "users", "open", "write", "rename", "clean"}
  BY <1>t DEF Save, CopyMaps, CopyUsers, OpenTmp, WriteTmp, WriteFails, RenameTmp, SaveFails,
              ClearDirty, Step, Saving
<1>o. \A w \in Savers : w = v \/ ~Saving(w)
  BY <1>i, <1>s DEF SaversAlternate
<1>1. SaversAlternate'
  BY <1>s, <1>o DEF SaversAlternate, Saving
<1>n. \A w \in Savers : w = v \/ (spc'[w] # "write" /\ spc'[w] # "rename")
  BY <1>s, <1>o DEF Saving
<1>2. CASE CopyMaps(v) \/ CopyUsers(v) \/ SaveFails(v) \/ ClearDirty(v)
  <2>1. spc'[v] \notin {"write", "rename"} /\ UNCHANGED <<file, tmp, state, fd>>
    BY <1>2, <1>t DEF CopyMaps, CopyUsers, SaveFails, Abandoned, ClearDirty, Step, Rest
  <2> QED BY <1>1, <1>i, <1>n, <2>1 DEF StateIsApart, WritersOwnTmp, RenamersHaveAll, IsWhole
<1>3. CASE OpenTmp(v)
  <2>1. spc[v] = "open" /\ spc'[v] = "write" /\ state' = state
    BY <1>3, <1>t DEF OpenTmp, Step
  <2>2. tmp' \in Files /\ tmp' # state
    BY <1>3, <1>i, <1>t, <2>1, SpareType DEF OpenTmp, StateIsApart
  <2>3. file'[tmp'] = Empty /\ \A f \in Files : f = tmp' \/ file'[f] = file[f]
    BY <1>3, <1>t, <2>2 DEF OpenTmp
  <2>4. fd'[v] = tmp'
    BY <1>3, <1>t DEF OpenTmp
  <2>5. StateIsApart'
    BY <1>i, <1>t, <2>1, <2>2, <2>3 DEF StateIsApart, IsWhole
  <2> QED BY <1>1, <1>n, <1>t, <2>1, <2>2, <2>3, <2>4, <2>5, ContentTypes DEF WritersOwnTmp, RenamersHaveAll
<1>4. CASE WriteTmp(v) \/ WriteFails(v)
  <2>1. spc[v] = "write" /\ UNCHANGED <<tmp, state>> /\ spc'[v] # "write"
    BY <1>4, <1>t DEF WriteTmp, WriteFails, Abandoned, Step
  <2>2. tmp \in Files /\ fd[v] = tmp /\ file[tmp].form = "empty"
    BY <1>i, <1>t, <2>1 DEF WritersOwnTmp
  <2>3. \A f \in Files : f = tmp \/ file'[f] = file[f]
    BY <1>4, <1>t, <2>2 DEF WriteTmp, WriteFails
  <2>4. StateIsApart'
    BY <1>i, <1>t, <2>1, <2>3 DEF StateIsApart, IsWhole
  <2>5. spc'[v] = "rename" => IsWhole(tmp)'
    <3>1. CASE WriteTmp(v)
      <4>1. ~Shared(v)
        BY <1>o, <1>t, <2>2 DEF Shared, OpenToWrite, Saving
      <4>2. file'[tmp] = Whole(image[v])
        BY <1>t, <2>2, <3>1, <4>1 DEF WriteTmp
      <4>3. image[v] \in Image
        BY DEF PersistTypeOK
      <4> QED BY <2>1, <4>2, <4>3, ContentTypes DEF IsWhole
    <3>2. CASE WriteFails(v)
      BY <1>t, <3>2 DEF WriteFails, Abandoned, Step
    <3> QED BY <1>4, <3>1, <3>2
  <2> QED BY <1>1, <1>n, <1>t, <2>1, <2>2, <2>4, <2>5 DEF WritersOwnTmp, RenamersHaveAll, IsWhole
<1>5. CASE RenameTmp(v)
  <2>1. spc[v] = "rename" /\ tmp' = NoFile /\ spc'[v] \notin {"write", "rename"}
    BY <1>5, <1>t DEF RenameTmp, Step
  <2>2. tmp \in Files /\ IsWhole(tmp)
    BY <1>i, <1>t, <2>1 DEF RenamersHaveAll
  <2>3. state' = tmp
    BY <1>5, <1>t, <2>2 DEF RenameTmp
  <2>4. file'[tmp] = file[tmp]
    BY <1>5, <1>t, <2>2, <2>3 DEF RenameTmp
  <2> QED BY <1>1, <1>n, <1>t, <2>1, <2>2, <2>3, <2>4
          DEF StateIsApart, WritersOwnTmp, RenamersHaveAll, IsWhole
<1> QED BY <1>2, <1>3, <1>4, <1>5 DEF Save

\* A saver that begins alone keeps it, one that joins another records the overlap.
LEMMA BeginKeepsWhole ==
  ASSUME PersistTypeOK, WholeInv, NEW v \in Savers, Begin(v), UNCHANGED <<file, tmp, state, fd>>
  PROVE  WholeInv'
<1> SUFFICES ASSUME ~overlapped'
             PROVE  (SaversAlternate /\ StateIsApart /\ WritersOwnTmp /\ RenamersHaveAll)'
  BY DEF WholeInv
<1>1. SaversAlternate /\ StateIsApart /\ WritersOwnTmp /\ RenamersHaveAll
  BY DEF WholeInv, Begin
<1>2. \A w \in Savers : w = v \/ ~Saving(w)
  BY DEF Begin
<1>3. spc'[v] = "maps" /\ \A w \in Savers : w = v \/ spc'[w] = spc[w]
  BY DEF Begin, Step, PersistTypeOK
<1> QED BY <1>1, <1>2, <1>3 DEF SaversAlternate, Saving, StateIsApart, WritersOwnTmp,
                                RenamersHaveAll, IsWhole

\* Nothing else touches what the savers use; a crash only ends them.
LEMMA NextKeepsWhole ==
  PersistTypeOK /\ OpenToWrite /\ WholeInv /\ [PersistNext]_vars => WholeInv'
<1> SUFFICES ASSUME PersistTypeOK, OpenToWrite, WholeInv, [PersistNext]_vars
             PROVE  WholeInv'
  OBVIOUS
<1>1. CASE Tick \/ ShutdownPttSystem
  BY <1>1, BeginKeepsWhole DEF Tick, ShutdownPttSystem, Savers
<1>2. CASE RegistryStep \/ TickerStops \/ CloseServer \/ UNCHANGED vars
  <2>1. UNCHANGED <<file, tmp, state, spc, fd, overlapped>>
    BY <1>2 DEF RegistryStep, TickerStops, CloseServer, vars, storage, history
  <2> QED BY <2>1 DEF WholeInv, SaversAlternate, Saving, StateIsApart, WritersOwnTmp,
                      RenamersHaveAll, IsWhole
<1>3. CASE Stop \/ \E young \in BOOLEAN : Boot(young)
  <2>1. UNCHANGED <<file, tmp, state, overlapped>> /\ spc' = [v \in Savers |-> "off"]
    BY <1>3 DEF Stop, Boot, FreshMemory
  <2> QED BY <2>1 DEF WholeInv, SaversAlternate, Saving, StateIsApart, WritersOwnTmp,
                      RenamersHaveAll, IsWhole
<1> QED BY <1>1, <1>2, <1>3, SaveKeepsWhole DEF PersistNext

LEMMA WholeInvIsInvariant == PersistSpec => []WholeInv
<1>1. PersistInit => WholeInv
  BY DEF PersistInit, WholeInv, SaversAlternate, Saving, StateIsApart, WritersOwnTmp,
         RenamersHaveAll
<1> QED BY <1>1, PersistInitTypes, PersistNextTypes, NextKeepsWhole, PTL DEF PersistSpec

\* A crash between any two steps of a save leaves a state file that can be read,
\* in this life and every later one, as long as no two saves have overlapped.
THEOREM StateFileStaysWhole == PersistSpec => []StateFileIsWhole
<1>1. WholeInv => StateFileIsWhole
  BY DEF WholeInv, StateIsApart, StateFileIsWhole
<1> QED BY <1>1, WholeInvIsInvariant, PTL

-----------------------------------------------------------------------------
(* Images are consistent.  The two maps of an image are copied under one lock; *)
(* the users are copied later, from a GlobalUsers that only grows meanwhile.   *)

RosterIn(i, c) == IF c \in DOMAIN i.channels THEN i.channels[c] ELSE {}

ChannelsIn(i, u) == IF u \in DOMAIN i.userChannels THEN i.userChannels[u] ELSE {}

\* The maps of i are inverse, hold no empty entry, and their members are in users.
GoodMaps(i, users) ==
  /\ \A c \in Chans, u \in Users :
       /\ u \in RosterIn(i, c) <=> c \in ChannelsIn(i, u)
       /\ u \in RosterIn(i, c) => users[u] # "unknown"
  /\ \A c \in DOMAIN i.channels : i.channels[c] # {}
  /\ \A u \in DOMAIN i.userChannels : i.userChannels[u] # {}

FilesAreGood == \A f \in Files : IsWhole(f) => GoodMaps(file[f].image, file[f].image.users)

CopiesAreGood ==
  \A v \in Savers :
    /\ spc[v] = "users" => GoodMaps(image[v], GlobalUsers)
    /\ spc[v] \in {"open", "write"} => GoodMaps(image[v], image[v].users)

DiskInv == MapsInv /\ KnownInv /\ FilesAreGood /\ CopiesAreGood

\* A user that became known stays known.
KnownGrows == \A u \in Users : GlobalUsers[u] # "unknown" => GlobalUsers'[u] # "unknown"

LEMMA UsersStayKnown == TypeOK /\ RegistryNext => KnownGrows
<1> SUFFICES ASSUME TypeOK, RegistryNext PROVE KnownGrows
  OBVIOUS
<1>1. ASSUME NEW t \in Threads, StoreUser(t)
      PROVE  KnownGrows
  BY <1>1 DEF StoreUser, TypeOK, KnownGrows
<1>2. CASE \A t \in Threads : ~StoreUser(t)
  <2>1. UNCHANGED GlobalUsers
    BY <1>2 DEF RegistryNext, Serve, PttConnect, LookupUser, ScanChannels, Lock, Commit,
                MarkDirty, Reply, Publish, AbortPublish, FatalMapRace, RLock, RUnlock
  <2> QED BY <2>1 DEF KnownGrows
<1> QED BY <1>1, <1>2

LEMMA GoodMapsGrow ==
  ASSUME NEW i, GoodMaps(i, GlobalUsers), KnownGrows
  PROVE  GoodMaps(i, GlobalUsers')
BY DEF GoodMaps, KnownGrows

LEMMA EmptyImageIsGood == GoodMaps(EmptyImage, EmptyImage.users)
<1>1. EmptyImage.channels = NoEntries /\ EmptyImage.userChannels = NoEntries
  BY DEF EmptyImage
<1>2. DOMAIN NoEntries = {}
  BY DEF NoEntries
<1> QED BY <1>1, <1>2 DEF GoodMaps, RosterIn, ChannelsIn

\* What CopyMaps copies is good for as long as the users are known.
LEMMA CopyIsGood ==
  ASSUME TypeOK, MapsInv, KnownInv, NEW i,
         i.channels = Channels, i.userChannels = UserChannels
  PROVE  GoodMaps(i, GlobalUsers)
<1>1. /\ \A c \in Chans : RosterIn(i, c) = Roster(c)
      /\ \A u \in Users : ChannelsIn(i, u) = ChannelsOf(u)
  BY DEF RosterIn, Roster, ChannelsIn, ChannelsOf
<1>2. \A c \in Chans, u \in Users : u \in Roster(c) => GlobalUsers[u] # "unknown"
  BY DEF Roster, KnownInv, MembersAreKnown
<1> QED BY <1>1, <1>2 DEF GoodMaps, MapsInv, MapsAreInverse, NoEmptyEntries

\* Memory that was restored from a good image is as good as the image.
LEMMA FreshIsGood ==
  ASSUME NEW i \in Image, GoodMaps(i, i.users), FreshMemory(i)
  PROVE  MapsInv' /\ KnownInv' /\ CopiesAreGood'
<1>1. Channels' = i.channels /\ UserChannels' = i.userChannels /\ GlobalUsers' = i.users
  BY DEF FreshMemory
<1>2. /\ \A c \in Chans : Roster(c)' = RosterIn(i, c)
      /\ \A u \in Users : ChannelsOf(u)' = ChannelsIn(i, u)
  BY <1>1 DEF RosterIn, Roster, ChannelsIn, ChannelsOf
<1>3. MapsInv'
  BY <1>1, <1>2 DEF GoodMaps, MapsInv, MapsAreInverse, NoEmptyEntries
<1>4. DOMAIN i.channels \subseteq Chans /\ \A c \in DOMAIN i.channels : i.channels[c] \subseteq Users
  BY ImageParts, PartialFunctionElim
<1>5. MembersAreKnown'
  BY <1>1, <1>4 DEF GoodMaps, RosterIn, MembersAreKnown
<1>6. KnownInv'
  BY <1>5 DEF FreshMemory, KnownInv
<1> QED BY <1>3, <1>6 DEF FreshMemory, CopiesAreGood

\* A step that keeps the registry, the files and the copies keeps the invariant
\* if no saver gets past a copy.
LEMMA DiskInvFrame ==
  ASSUME PersistTypeOK, DiskInv, UNCHANGED registry,
         \A f \in Files : IsWhole(f)' => IsWhole(f) /\ file'[f] = file[f],
         \A w \in Savers :
           \/ spc'[w] = spc[w] /\ image'[w] = image[w]
           \/ spc'[w] \notin {"users", "open", "write"}
           \/ spc[w] = "open" /\ spc'[w] = "write" /\ image'[w] = image[w]
  PROVE  DiskInv'
<1>1. MapsInv' /\ KnownInv'
  BY DEF DiskInv, MapsInv, MapsAreInverse, NoEmptyEntries, Roster, ChannelsOf, KnownInv,
         MembersAreKnown, registry
<1>2. FilesAreGood'
  BY DEF DiskInv, FilesAreGood
<1>3. GlobalUsers' = GlobalUsers
  BY DEF registry
<1>4. CopiesAreGood'
  BY <1>3 DEF DiskInv, CopiesAreGood
<1> QED BY <1>1, <1>2, <1>4 DEF DiskInv

LEMMA SaveKeepsImages ==
  ASSUME PersistTypeOK, OpenToWrite, DiskInv, NEW v \in Savers, Save(v)
  PROVE  DiskInv'
<1>t. /\ spc \in [Savers -> SpcTypes] /\ fd \in [Savers -> Files \cup {NoFile}]
      /\ image \in [Savers -> Image] /\ file \in [Files -> Contents]
      /\ tmp \in Files \cup {NoFile} /\ NoFile \notin Files
      /\ TypeOK
  BY PersistAssumption DEF PersistTypeOK, SpcTypes
<1>k. CASE UNCHANGED <<Channels, UserChannels, GlobalUsers, pc, call>>
  <2>1. MapsInv' /\ KnownInv'
    BY <1>k DEF DiskInv, MapsInv, MapsAreInverse, NoEmptyEntries, Roster, ChannelsOf,
                KnownInv, MembersAreKnown
  <2>2. CASE CopyMaps(v)
    <3> DEFINE i == [channels |-> Channels, userChannels |-> UserChannels,
                     users |-> EmptyImage.users]
    <3>1. image' = [image EXCEPT ![v] = i] /\ spc' = [spc EXCEPT ![v] = "users"] /\ file' = file
      BY <2>2 DEF CopyMaps, Step
    <3>2. GoodMaps(i, GlobalUsers)
      BY <1>t, CopyIsGood DEF DiskInv
    <3> HIDE DEF i
    <3>3. CopiesAreGood'
      BY <1>t, <1>k, <3>1, <3>2 DEF DiskInv, CopiesAreGood
    <3>4. FilesAreGood'
      BY <3>1 DEF DiskInv, FilesAreGood, IsWhole
    <3> QED BY <2>1, <3>3, <3>4 DEF DiskInv
  <2>3. CASE CopyUsers(v)
    <3> DEFINE i == [channels |-> image[v].channels, userChannels |-> image[v].userChannels,
                     users |-> GlobalUsers]
    <3>1. /\ image' = [image EXCEPT ![v] = i] /\ spc' = [spc EXCEPT ![v] = "open"]
          /\ file' = file /\ spc[v] = "users"
      BY <2>3 DEF CopyUsers, Step
    <3>2. GoodMaps(image[v], GlobalUsers)
      BY <3>1 DEF DiskInv, CopiesAreGood
    <3>3. i.channels = image[v].channels /\ i.userChannels = image[v].userChannels
          /\ i.users = GlobalUsers
      OBVIOUS
    <3> HIDE DEF i
    <3>4. GoodMaps(i, i.users)
      BY <3>2, <3>3 DEF GoodMaps, RosterIn, ChannelsIn
    <3>5. CopiesAreGood'
      BY <1>t, <1>k, <3>1, <3>4 DEF DiskInv, CopiesAreGood
    <3>6. FilesAreGood'
      BY <3>1 DEF DiskInv, FilesAreGood, IsWhole
    <3> QED BY <2>1, <3>5, <3>6 DEF DiskInv
  <2>4. CASE WriteTmp(v) \/ WriteFails(v)
    <3>1. spc[v] = "write" /\ \A w \in Savers : w = v \/ image'[w] = image[w]
      BY <1>t, <2>4 DEF WriteTmp, WriteFails, Returns, Step
    <3>2. GoodMaps(image[v], image[v].users) /\ image[v] \in Image
      BY <1>t, <3>1 DEF DiskInv, CopiesAreGood
    <3>3. PICK c \in {Whole(image[v]), Torn} : file' = [file EXCEPT ![fd[v]] = c]
      BY <2>4 DEF WriteTmp, WriteFails
    <3>4. \A f \in Files : file'[f] = file[f] \/ file'[f] = Whole(image[v]) \/ file'[f] = Torn
      BY <1>t, <3>3
    <3>5. FilesAreGood'
      BY <3>2, <3>4, ContentTypes DEF DiskInv, FilesAreGood, IsWhole
    <3>6. /\ spc'[v] \in {"rename", "off", "failed"}
          /\ \A w \in Savers : w = v \/ spc'[w] = spc[w]
      BY <1>t, <2>4 DEF WriteTmp, WriteFails, Abandoned, Step
    <3>7. CopiesAreGood'
      BY <1>k, <3>1, <3>6 DEF DiskInv, CopiesAreGood
    <3> QED BY <2>1, <3>5, <3>7 DEF DiskInv
  <2>5. CASE OpenTmp(v) \/ RenameTmp(v)
    <3>1. \A f \in Files : file'[f] = file[f] \/ file'[f] = Empty
      BY <1>t, <2>5 DEF OpenTmp, RenameTmp
    <3>2. FilesAreGood'
      BY <3>1, ContentTypes DEF DiskInv, FilesAreGood, IsWhole
    <3>3. image' = image /\ \A w \in Savers :
            \/ spc'[w] = spc[w]
            \/ spc'[w] \notin {"users", "open", "write"}
            \/ spc[w] = "open" /\ spc'[w] = "write"
      BY <1>t, <2>5 DEF OpenTmp, RenameTmp, Step
    <3>4. CopiesAreGood'
      BY <1>k, <3>3 DEF DiskInv, CopiesAreGood
    <3> QED BY <2>1, <3>2, <3>4 DEF DiskInv
  <2>6. CASE SaveFails(v) \/ ClearDirty(v)
    <3>1. /\ file' = file
          /\ \A w \in Savers : \/ spc'[w] = spc[w] /\ image'[w] = image[w]
                               \/ spc'[w] \notin {"users", "open", "write"}
      BY <1>t, <2>6 DEF SaveFails, Abandoned, ClearDirty, Returns, Step, Rest
    <3> QED BY <1>k, <2>1, <3>1 DEF DiskInv, CopiesAreGood, FilesAreGood, IsWhole
  <2> QED BY <2>2, <2>3, <2>4, <2>5, <2>6 DEF Save
<1> QED BY <1>k DEF Save, CopyMaps, CopyUsers, OpenTmp, WriteTmp, WriteFails, RenameTmp,
                    SaveFails, ClearDirty, registry

LEMMA NextKeepsImages ==
  PersistTypeOK /\ OpenToWrite /\ DiskInv /\ [PersistNext]_vars => DiskInv'
<1> SUFFICES ASSUME PersistTypeOK, OpenToWrite, DiskInv, [PersistNext]_vars
             PROVE  DiskInv'
  OBVIOUS
<1>t. TypeOK
  BY DEF PersistTypeOK
<1>1. CASE RegistryStep
  <2>1. RegistryNext /\ UNCHANGED <<file, spc, image>>
    BY <1>1, RegistryStepIsNext DEF RegistryStep
  <2>2. MapsInv' /\ KnownInv' /\ KnownGrows
    BY <1>t, <2>1, NextKeepsMaps, NextKeepsKnown, UsersStayKnown DEF DiskInv
  <2>3. CopiesAreGood'
    BY <2>1, <2>2, GoodMapsGrow DEF DiskInv, CopiesAreGood
  <2>4. FilesAreGood'
    BY <2>1 DEF DiskInv, FilesAreGood, IsWhole
  <2> QED BY <2>2, <2>3, <2>4 DEF DiskInv
<1>2. CASE Tick \/ ShutdownPttSystem
  <2>1. PICK v \in Savers : Begin(v)
    BY <1>2 DEF Tick, ShutdownPttSystem, Savers
  <2>2. UNCHANGED <<registry, file, image>>
    BY <1>2 DEF Tick, ShutdownPttSystem
  <2>3. \A w \in Savers : spc'[w] = spc[w] \/ spc'[w] = "maps"
    BY <2>1 DEF Begin, Step, PersistTypeOK
  <2> QED BY <2>2, <2>3, DiskInvFrame DEF IsWhole
<1>3. CASE TickerStops \/ CloseServer \/ UNCHANGED vars
  <2>1. UNCHANGED <<registry, file, spc, image>>
    BY <1>3 DEF TickerStops, CloseServer, vars, storage
  <2> QED BY <2>1, DiskInvFrame DEF IsWhole
<1>4. CASE Stop
  <2>1. FreshMemory(EmptyImage) /\ file' = file
    BY <1>4 DEF Stop
  <2>2. MapsInv' /\ KnownInv' /\ CopiesAreGood'
    BY <2>1, EmptyImageType, EmptyImageIsGood, FreshIsGood
  <2> QED BY <2>1, <2>2 DEF DiskInv, FilesAreGood, IsWhole
<1>5. ASSUME NEW young \in BOOLEAN, Boot(young)
      PROVE  DiskInv'
  <2>1. FreshMemory(Restored(young)) /\ file' = file
    BY <1>5 DEF Boot
  <2>2. Restored(young) \in Image
    BY RestoredType
  <2>3. GoodMaps(Restored(young), Restored(young).users)
    <3>1. CASE state # NoFile /\ IsWhole(state) /\ young
      <4>1. state \in Files
        BY <3>1 DEF PersistTypeOK
      <4> QED BY <3>1, <4>1 DEF Restored, DiskInv, FilesAreGood
    <3>2. CASE ~(state # NoFile /\ IsWhole(state) /\ young)
      BY <3>2, EmptyImageIsGood DEF Restored
    <3> QED BY <3>1, <3>2
  <2>4. MapsInv' /\ KnownInv' /\ CopiesAreGood'
    BY <2>1, <2>2, <2>3, FreshIsGood
  <2> QED BY <2>1, <2>4 DEF DiskInv, FilesAreGood, IsWhole
<1> QED BY <1>1, <1>2, <1>3, <1>4, <1>5, SaveKeepsImages DEF PersistNext

LEMMA DiskInvIsInvariant == PersistSpec => []DiskInv
<1>1. PersistInit => DiskInv
  <2> SUFFICES ASSUME PersistInit PROVE DiskInv
    OBVIOUS
  <2>1. MapsInv /\ KnownInv
    BY DEF PersistInit, RegistryInit, MapsInv, MapsAreInverse, NoEmptyEntries, Roster,
           ChannelsOf, NoEntries, KnownInv, MembersAreKnown
  <2> QED BY <2>1, ContentTypes DEF PersistInit, DiskInv, FilesAreGood, IsWhole, CopiesAreGood
<1> QED BY <1>1, PersistInitTypes, PersistNextTypes, NextKeepsImages, PTL DEF PersistSpec

\* Whatever file a start restores, its maps are inverse and each member is among
\* its users, although requests went on while the image was copied.
THEOREM ImagesStayConsistent == PersistSpec => []ImagesAreConsistent
<1>1. DiskInv => ImagesAreConsistent
  BY DEF DiskInv, FilesAreGood, GoodMaps, RosterIn, ChannelsIn, ImagesAreConsistent
<1> QED BY <1>1, DiskInvIsInvariant, PTL

\* Crashes and restarts, from whatever file, never set the two maps at odds.
THEOREM MapsStayInverseAcrossRestarts == PersistSpec => []MapsAreInverse
<1>1. DiskInv => MapsAreInverse
  BY DEF DiskInv, MapsInv
<1> QED BY <1>1, DiskInvIsInvariant, PTL

-----------------------------------------------------------------------------
(* No change is forgotten.  A save that misses nothing runs alone and under maps *)
(* that stay as they are: at every stage of it, what it has come to is what they *)
(* hold.  Only a save that ran beside another can leave a writer behind with the *)
(* state file open.                                                              *)

OthersAreMissed ==
  \A v, w \in Savers : Saving(v) /\ Saving(w) => v = w \/ v \in missed

StrayWritersSlip == \A v \in Savers : fd[v] # NoFile /\ fd[v] = state => slipped

NamesApart == tmp # NoFile => tmp # state

\* What a saver has come to is the channels as they are now.
SaverIsCurrent(v) ==
  /\ spc[v] \in {"users", "open", "write"} => image[v].channels = Channels
  /\ spc[v] = "write" => tmp # NoFile /\ fd[v] = tmp /\ file[tmp].form = "empty"
  /\ spc[v] = "rename" =>
       tmp # NoFile /\ IsWhole(tmp) /\ file[tmp].image.channels = Channels
  /\ spc[v] = "clean" => OnDisk.channels = Channels

SavesAreCurrent == \A v \in Savers : Saving(v) => v \in missed \/ SaverIsCurrent(v)

SaveInv ==
  OthersAreMissed /\ StrayWritersSlip /\ NamesApart /\ SavesAreCurrent /\ ChangesWillBeSaved

\* What is on disk depends on the state file and its age alone.
LEMMA SameDisk ==
  ASSUME state' = state, discarded' = discarded, state = NoFile \/ file'[state] = file[state]
  PROVE  OnDisk' = OnDisk
BY DEF OnDisk, Restored, IsWhole

\* Requests never clear the dirty mark, nor forget to set it.
LEMMA MarksStay ==
  ASSUME TypeOK, RegistryNext
  PROVE  /\ persistDirty => persistDirty'
         /\ \A t \in Threads : pc[t] = "mark" => pc'[t] = "mark" \/ persistDirty'
<1> DEFINE Stay == /\ persistDirty => persistDirty'
                   /\ \A t \in Threads : pc[t] = "mark" => pc'[t] = "mark" \/ persistDirty'
<1>0. pc \in [Threads -> PcOfCall \cup {"idle"}]
  BY DEF TypeOK
<1>1. ASSUME NEW t \in Threads, MarkDirty(t)
      PROVE  Stay
  BY <1>0, <1>1 DEF MarkDirty, Goto
<1>2. ASSUME NEW t \in Threads, NEW from, NEW to, from # "mark", Goto(t, from, to),
             UNCHANGED persistDirty
      PROVE  Stay
  BY <1>0, <1>2 DEF Goto
<1>3. ASSUME UNCHANGED <<persistDirty, pc>>
      PROVE  Stay
  BY <1>3
<1>4. ASSUME NEW t \in Threads, LookupUser(t) \/ ScanChannels(t) \/ StoreUser(t) \/ Lock(t)
      PROVE  Stay
  BY <1>2, <1>4 DEF LookupUser, ScanChannels, StoreUser, Lock
<1>5. ASSUME NEW t \in Threads, Commit(t) \/ Reply(t) \/ AbortPublish(t)
      PROVE  Stay
  BY <1>2, <1>5 DEF Commit, Reply, AbortPublish
<1>6. ASSUME NEW t \in Threads, (\E r \in Request : PttConnect(t, r)) \/ \E c \in Chans : Publish(t, c)
      PROVE  Stay
  BY <1>2, <1>6 DEF PttConnect, Publish
<1>7. ASSUME (\E t \in Threads : FatalMapRace(t)) \/ \E r \in Readers : RLock(r) \/ RUnlock(r)
      PROVE  Stay
  BY <1>3, <1>7 DEF FatalMapRace, RLock, RUnlock
<1> QED
  BY <1>1, <1>4, <1>5, <1>6, <1>7 DEF RegistryNext, Serve

\* A critical section that changes the channels is followed by a mark.
LEMMA CommitMarks ==
  ASSUME TypeOK, NEW t \in Threads, Commit(t), Channels' # Channels
  PROVE  pc'[t] = "mark"
<1> DEFINE u == call[t].user
           L == ChannelsOf(u) \ target[t]
           J == target[t] \ ChannelsOf(u)
<1>1. MoveUser(u, L, J) /\ pc' = [pc EXCEPT ![t] = AfterUnlock(L, J)]
  BY DEF Commit, Goto
<1>2. L \cup J # {}
  <2> SUFFICES ASSUME L = {}, J = {} PROVE FALSE
    OBVIOUS
  <2>1. Channels \in [DOMAIN Channels -> SUBSET Users]
    BY PartialFunctionElim DEF TypeOK
  <2>2. {d \in DOMAIN Channels \cup J : d \in L => NewRoster(d, u, L, J) # {}} = DOMAIN Channels
    OBVIOUS
  <2>3. \A c \in DOMAIN Channels : NewRoster(c, u, L, J) = Channels[c]
    BY DEF NewRoster, Roster
  <2>4. Channels' = [c \in DOMAIN Channels |-> Channels[c]]
    BY <1>1, <2>2, <2>3 DEF MoveUser
  <2> QED BY <2>1, <2>4
<1>3. AfterUnlock(L, J) = "mark"
  BY <1>2 DEF AfterUnlock
<1> QED BY <1>1, <1>3 DEF TypeOK

LEMMA RequestKeepsSaves ==
  ASSUME PersistTypeOK, SaveInv, RegistryStep
  PROVE  SaveInv'
<1>t. TypeOK
  BY DEF PersistTypeOK
<1>1. RegistryNext /\ UNCHANGED <<file, tmp, state, spc, image, fd, slipped, discarded>>
  BY RegistryStepIsNext DEF RegistryStep
<1>2. OnDisk' = OnDisk
  BY <1>1, SameDisk
<1>3. up
  BY DEF RegistryStep, Serve, PttConnect, LookupUser, ScanChannels, StoreUser, Lock, Commit,
         MarkDirty, Reply, Publish, FatalMapRace, Goto
<1>4. missed \subseteq missed' /\ \A v \in Savers : Saving(v)' <=> Saving(v)
  BY <1>1 DEF RegistryStep, Saving
<1>5. (OthersAreMissed /\ StrayWritersSlip /\ NamesApart)'
  BY <1>1, <1>4 DEF SaveInv, OthersAreMissed, StrayWritersSlip, NamesApart
<1>6. CASE Channels' = Channels
  <2>1. \A v \in Savers : SaverIsCurrent(v)' <=> SaverIsCurrent(v)
    BY <1>1, <1>2, <1>6 DEF SaverIsCurrent, IsWhole
  <2>2. SavesAreCurrent'
    BY <1>4, <2>1 DEF SaveInv, SavesAreCurrent
  <2>3. ChangesWillBeSaved'
    BY <1>t, <1>1, <1>2, <1>3, <1>6, MarksStay DEF SaveInv, ChangesWillBeSaved
  <2> QED BY <1>5, <2>2, <2>3 DEF SaveInv
<1>7. CASE Channels' # Channels
  <2>1. \E t \in Threads : Commit(t)
    BY <1>1, <1>7, OnlyCommitMoves
  <2>2. \E t \in Threads : pc'[t] = "mark"
    BY <1>t, <1>7, <2>1, CommitMarks
  <2>3. \A v \in Savers : Saving(v) => v \in missed'
    BY <1>7 DEF RegistryStep
  <2>4. SavesAreCurrent'
    BY <1>4, <2>3 DEF SavesAreCurrent
  <2> QED BY <1>5, <2>2, <2>4 DEF SaveInv, ChangesWillBeSaved
<1> QED BY <1>6, <1>7

LEMMA SaveKeepsSaves ==
  ASSUME PersistTypeOK, SaveInv, NEW v \in Savers, Save(v)
  PROVE  SaveInv'
<1>i. OthersAreMissed /\ StrayWritersSlip /\ NamesApart /\ SavesAreCurrent /\ ChangesWillBeSaved
  BY DEF SaveInv
<1>t. /\ spc \in [Savers -> SpcTypes] /\ fd \in [Savers -> Files \cup {NoFile}]
      /\ image \in [Savers -> Image] /\ file \in [Files -> Contents]
      /\ tmp \in Files \cup {NoFile} /\ state \in Files \cup {NoFile} /\ NoFile \notin Files
      /\ slipped \in BOOLEAN /\ OpenToWrite
  BY PersistAssumption DEF PersistTypeOK, SpcTypes
<1>u. UNCHANGED <<up, Channels, pc>> /\ up
  BY DEF Save, CopyMaps, CopyUsers, OpenTmp, WriteTmp, WriteFails, RenameTmp, SaveFails,
         ClearDirty, registry, Step
<1>s. Saving(v) /\ \A w \in Savers : w = v \/ spc'[w] = spc[w]
  BY <1>t DEF Save, CopyMaps, CopyUsers, OpenTmp, WriteTmp, WriteFails, RenameTmp, SaveFails,
              ClearDirty, Step, Saving
<1>m. missed' = missed \/ (missed' = missed \ {v} /\ ~Saving(v)')
  BY <1>t DEF Save, CopyMaps, CopyUsers, OpenTmp, WriteTmp, WriteFails, RenameTmp, SaveFails,
              ClearDirty, Returns, Rest, Abandoned, Step, Saving, history
<1>o. OthersAreMissed'
  BY <1>i, <1>s, <1>m DEF OthersAreMissed, Saving
<1>a. \A w \in Savers : Saving(w) => w = v \/ (v \in missed /\ w \in missed)
  BY <1>i, <1>s DEF OthersAreMissed
<1>w. \A w \in Savers : w = v \/ (Saving(w)' => w \in missed')
  BY <1>a, <1>m, <1>s DEF Saving
<1>f. v \notin missed => \A w \in Savers : w = v \/ fd[w] = NoFile
  BY <1>a, <1>t DEF OpenToWrite, Saving
<1>c. v \in missed \/ SaverIsCurrent(v)
  BY <1>i, <1>s DEF SavesAreCurrent
<1>n. CASE /\ (StrayWritersSlip /\ NamesApart)'
           /\ Saving(v)' => v \in missed \/ SaverIsCurrent(v)'
           /\ ~slipped' => \/ OnDisk' = OnDisk /\ persistDirty' = persistDirty /\ slipped' = slipped
                           \/ OnDisk'.channels = Channels
  <2>1. SavesAreCurrent'
    BY <1>n, <1>m, <1>w DEF SavesAreCurrent
  <2>2. ChangesWillBeSaved'
    BY <1>i, <1>n, <1>u DEF ChangesWillBeSaved
  <2> QED BY <1>n, <1>o, <2>1, <2>2 DEF SaveInv
<1>1. CASE CopyMaps(v)
  <2> DEFINE i == [channels |-> Channels, userChannels |-> UserChannels,
                   users |-> EmptyImage.users]
  <2>1. /\ image'[v] = i /\ spc'[v] = "users"
        /\ UNCHANGED <<file, tmp, state, fd, registry, slipped, discarded>>
    BY <1>1, <1>t DEF CopyMaps, Step, history
  <2>2. i.channels = Channels
    OBVIOUS
  <2> HIDE DEF i
  <2>3. SaverIsCurrent(v)' /\ (StrayWritersSlip /\ NamesApart)'
    BY <1>i, <1>u, <2>1, <2>2 DEF SaverIsCurrent, StrayWritersSlip, NamesApart
  <2> QED BY <1>n, <2>1, <2>3, SameDisk DEF registry
<1>2. CASE CopyUsers(v)
  <2> DEFINE i == [channels |-> image[v].channels, userChannels |-> image[v].userChannels,
                   users |-> GlobalUsers]
  <2>1. /\ image'[v] = i /\ spc[v] = "users" /\ spc'[v] = "open"
        /\ UNCHANGED <<file, tmp, state, fd, registry, slipped, discarded>>
    BY <1>2, <1>t DEF CopyUsers, Step, history
  <2>2. i.channels = image[v].channels
    OBVIOUS
  <2> HIDE DEF i
  <2>3. v \in missed \/ SaverIsCurrent(v)'
    BY <1>u, <1>c, <2>1, <2>2 DEF SaverIsCurrent
  <2>4. (StrayWritersSlip /\ NamesApart)'
    BY <1>i, <2>1 DEF StrayWritersSlip, NamesApart
  <2> QED BY <1>n, <2>1, <2>3, <2>4, SameDisk DEF registry
<1>3. CASE OpenTmp(v)
  <2>1. /\ spc[v] = "open" /\ spc'[v] = "write"
        /\ UNCHANGED <<state, image, registry, slipped, discarded>>
    BY <1>3, <1>t DEF OpenTmp, Step, history
  <2>2. tmp' \in Files /\ tmp' # state
    BY <1>3, <1>i, <1>t, <2>1, SpareType DEF OpenTmp, NamesApart
  <2>3. /\ state = NoFile \/ file'[state] = file[state]
        /\ file'[tmp'] = Empty /\ fd' = [fd EXCEPT ![v] = tmp']
    BY <1>3, <1>t, <2>2 DEF OpenTmp
  <2>4. (StrayWritersSlip /\ NamesApart)'
    BY <1>i, <1>t, <2>1, <2>2, <2>3 DEF StrayWritersSlip, NamesApart
  <2>5. v \in missed \/ SaverIsCurrent(v)'
    BY <1>u, <1>c, <1>t, <2>1, <2>2, <2>3, ContentTypes DEF SaverIsCurrent
  <2> QED BY <1>n, <2>1, <2>3, <2>4, <2>5, SameDisk DEF registry
<1>4. CASE WriteTmp(v) \/ WriteFails(v)
  <2>1. /\ spc[v] = "write" /\ fd[v] \in Files /\ fd' = [fd EXCEPT ![v] = NoFile]
        /\ UNCHANGED <<tmp, state, registry, slipped, discarded>>
    BY <1>4, <1>t DEF WriteTmp, WriteFails, Step, history, OpenToWrite
  <2>2. (StrayWritersSlip /\ NamesApart)'
    BY <1>i, <1>t, <2>1 DEF StrayWritersSlip, NamesApart
  <2>3. slipped \/ state = NoFile \/ file'[state] = file[state]
    <3>1. PICK c : file' = [file EXCEPT ![fd[v]] = c]
      BY <1>4 DEF WriteTmp, WriteFails
    <3> QED BY <1>i, <1>t, <2>1, <3>1 DEF StrayWritersSlip
  <2>4. Saving(v)' => v \in missed \/ SaverIsCurrent(v)'
    <3>1. CASE WriteTmp(v) /\ v \notin missed
      <4>1. tmp \in Files /\ fd[v] = tmp /\ file[tmp].form = "empty" /\ image[v].channels = Channels
        BY <1>c, <1>t, <2>1, <3>1 DEF SaverIsCurrent
      <4>2. ~Shared(v)
        BY <1>f, <1>t, <3>1, <4>1 DEF Shared
      <4>3. file'[tmp] = Whole(image[v]) /\ spc'[v] = "rename"
        BY <1>t, <3>1, <4>1, <4>2 DEF WriteTmp, Step
      <4>4. Whole(image[v]).image = image[v] /\ Whole(image[v]).form = "whole"
        BY <1>t, ContentTypes
      <4> QED BY <1>t, <1>u, <2>1, <4>1, <4>3, <4>4 DEF SaverIsCurrent, IsWhole
    <3>2. CASE WriteFails(v)
      BY <1>t, <3>2 DEF WriteFails, Abandoned, Step, Saving
    <3> QED BY <1>4, <3>1, <3>2
  <2> QED BY <1>n, <1>t, <2>1, <2>2, <2>3, <2>4, SameDisk DEF registry
<1>5. CASE RenameTmp(v)
  <2>1. /\ spc[v] = "rename" /\ spc'[v] = "clean" /\ tmp \in Files /\ state' = tmp
        /\ tmp' = NoFile /\ file'[tmp] = file[tmp] /\ discarded' = NoFile
        /\ slipped' = (v \in missed) /\ fd' = fd /\ fd[v] = NoFile
    BY <1>5, <1>t DEF RenameTmp, Step, OpenToWrite
  <2>2. (StrayWritersSlip /\ NamesApart)'
    BY <1>f, <1>t, <2>1 DEF StrayWritersSlip, NamesApart
  <2>3. ASSUME v \notin missed PROVE OnDisk'.channels = Channels
    BY <1>c, <1>t, <2>1, <2>3 DEF SaverIsCurrent, OnDisk, Restored, IsWhole
  <2>4. v \in missed \/ SaverIsCurrent(v)'
    BY <1>u, <2>1, <2>3 DEF SaverIsCurrent
  <2> QED BY <1>n, <2>1, <2>2, <2>3, <2>4
<1>6. CASE ClearDirty(v)
  <2>1. /\ spc[v] = "clean" /\ ~Saving(v)' /\ fd[v] = NoFile /\ slipped' = (v \in missed)
        /\ UNCHANGED <<file, tmp, state, fd, discarded>>
    BY <1>6, <1>t DEF ClearDirty, Step, Rest, Saving, OpenToWrite
  <2>2. (StrayWritersSlip /\ NamesApart)'
    BY <1>f, <1>i, <1>t, <2>1 DEF StrayWritersSlip, NamesApart
  <2>3. OnDisk' = OnDisk
    BY <2>1, SameDisk
  <2>4. v \in missed \/ OnDisk'.channels = Channels
    BY <1>c, <2>1, <2>3 DEF SaverIsCurrent
  <2> QED BY <1>n, <2>1, <2>2, <2>4
<1>7. CASE SaveFails(v)
  <2>1. ~Saving(v)' /\ UNCHANGED <<registry, file, tmp, state, fd, slipped, discarded>>
    BY <1>7, <1>t DEF SaveFails, Abandoned, Step, Saving
  <2>2. (StrayWritersSlip /\ NamesApart)'
    BY <1>i, <2>1 DEF StrayWritersSlip, NamesApart
  <2> QED BY <1>n, <2>1, <2>2, SameDisk DEF registry
<1> QED BY <1>1, <1>2, <1>3, <1>4, <1>5, <1>6, <1>7 DEF Save

\* A save that begins beside another one makes both miss something.
LEMMA BeginKeepsSaves ==
  ASSUME PersistTypeOK, SaveInv, NEW v \in Savers, Begin(v),
         UNCHANGED <<registry, file, tmp, state, image, fd>>
  PROVE  SaveInv'
<1>1. /\ ~Saving(v) /\ spc'[v] = "maps" /\ \A w \in Savers : w = v \/ spc'[w] = spc[w]
      /\ UNCHANGED <<slipped, discarded>> /\ missed \subseteq missed'
  BY DEF Begin, Step, Saving, PersistTypeOK
<1>2. \A w \in Savers : w # v /\ Saving(w) => w \in missed' /\ v \in missed'
  BY DEF Begin
<1>3. OthersAreMissed'
  BY <1>1, <1>2 DEF SaveInv, OthersAreMissed, Saving
<1>4. OnDisk' = OnDisk /\ UNCHANGED <<Channels, persistDirty, pc, up>>
  BY <1>1, SameDisk DEF registry
<1>5. \A w \in Savers : w = v \/ (SaverIsCurrent(w)' <=> SaverIsCurrent(w))
  BY <1>1, <1>4 DEF SaverIsCurrent, IsWhole
<1>6. SaverIsCurrent(v)'
  BY <1>1 DEF SaverIsCurrent
<1>7. SavesAreCurrent'
  BY <1>1, <1>5, <1>6 DEF SaveInv, SavesAreCurrent, Saving
<1>8. (StrayWritersSlip /\ NamesApart /\ ChangesWillBeSaved)'
  BY <1>1, <1>4 DEF SaveInv, StrayWritersSlip, NamesApart, ChangesWillBeSaved
<1> QED BY <1>3, <1>7, <1>8 DEF SaveInv

LEMMA NextKeepsSaves == PersistTypeOK /\ SaveInv /\ [PersistNext]_vars => SaveInv'
<1> SUFFICES ASSUME PersistTypeOK, SaveInv, [PersistNext]_vars
             PROVE  SaveInv'
  OBVIOUS
<1>1. CASE Tick \/ ShutdownPttSystem
  BY <1>1, BeginKeepsSaves DEF Tick, ShutdownPttSystem, Savers
<1>2. CASE TickerStops \/ CloseServer \/ UNCHANGED vars
  <2>1. UNCHANGED <<registry, file, tmp, state, spc, image, fd, missed, slipped, discarded>>
    BY <1>2 DEF TickerStops, CloseServer, vars, storage, history
  <2>2. OnDisk' = OnDisk /\ UNCHANGED <<Channels, persistDirty, pc, up>>
    BY <2>1, SameDisk DEF registry
  <2> QED BY <2>1, <2>2
          DEF SaveInv, OthersAreMissed, StrayWritersSlip, NamesApart, SavesAreCurrent,
              SaverIsCurrent, Saving, IsWhole, ChangesWillBeSaved
<1>3. ASSUME UNCHANGED <<tmp, state>>, spc' = [v \in Savers |-> "off"],
             fd' = [v \in Savers |-> NoFile], ChangesWillBeSaved'
      PROVE  SaveInv'
  BY <1>3 DEF SaveInv, OthersAreMissed, StrayWritersSlip, NamesApart, SavesAreCurrent, Saving
<1>4. CASE Stop
  BY <1>3, <1>4 DEF Stop, FreshMemory, ChangesWillBeSaved
<1>5. ASSUME NEW young \in BOOLEAN, Boot(young)
      PROVE  SaveInv'
  <2>1. /\ Channels' = Restored(young).channels /\ spc' = [v \in Savers |-> "off"]
        /\ fd' = [v \in Savers |-> NoFile] /\ UNCHANGED <<file, tmp, state>>
        /\ state # NoFile /\ state = discarded => ~young
        /\ discarded' = IF state # NoFile /\ IsWhole(state) /\ ~young THEN state ELSE discarded
    BY <1>5 DEF Boot, FreshMemory
  <2>2. OnDisk' = Restored(young)
    BY <2>1 DEF OnDisk, Restored, IsWhole
  <2>3. ChangesWillBeSaved'
    BY <2>1, <2>2 DEF ChangesWillBeSaved
  <2> QED BY <1>3, <2>1, <2>3
<1> QED BY <1>1, <1>2, <1>4, <1>5, RequestKeepsSaves, SaveKeepsSaves DEF PersistNext

\* While the process runs, channels that differ from the state file, or from
\* nothing if a start found that file too old, are dirty or about to be marked,
\* over failed writes, crashes and restarts.  The exception is the time from the
\* end of a save during which the maps changed or another save ran to the end of
\* the next save without either.
THEOREM ChangesAreSaved == PersistSpec => []ChangesWillBeSaved
<1>1. PersistInit => SaveInv
  <2> SUFFICES ASSUME PersistInit PROVE SaveInv
    OBVIOUS
  <2>1. OnDisk.channels = Channels
    BY DEF PersistInit, RegistryInit, OnDisk, Restored, EmptyImage
  <2> QED BY <2>1 DEF PersistInit, SaveInv, OthersAreMissed, StrayWritersSlip, NamesApart,
                      SavesAreCurrent, Saving, ChangesWillBeSaved
<1>2. SaveInv => ChangesWillBeSaved
  BY DEF SaveInv
<1> QED BY <1>1, <1>2, NextKeepsSaves, PersistInitTypes, PersistNextTypes, PTL
        DEF PersistSpec
=============================================================================
