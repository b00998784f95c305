----------------------------- MODULE PttPersist -----------------------------
(***************************************************************************)
(* Persistence of the push-to-talk registry (controller/PushToTalk/        *)
(* persist.go) across crashes, shutdowns and restarts of the process.      *)
(*                                                                         *)
(* SaveState runs in two goroutines: the ticker's, every 30 seconds if the *)
(* maps are dirty, and main's, on shutdown.  Nothing keeps the two apart,  *)
(* and both write ptt_state.json.tmp and rename it to ptt_state.json.      *)
(*                                                                         *)
(* Names and files are separate here, as they are in the file system: a    *)
(* saver that opened the .tmp file keeps writing that file after the other *)
(* saver renamed it.                                                       *)
(***************************************************************************)
EXTENDS PttRegistry, Naturals, FiniteSets

CONSTANTS
  NoFile,      \* a name that does not exist
  MaxBoots     \* bound: how often the process is started

Savers == {"ticker", "main"}

\* One file for each name, and one more for a saver to open.
Files == 1..3

ASSUME PersistAssumption ==
  /\ MaxBoots \in Nat \ {0}
  /\ NoFile \notin Files

VARIABLES
  file,        \* contents of each file
  tmp,         \* the file named ptt_state.json.tmp
  state,       \* the file named ptt_state.json
  spc,         \* where each SaveState is
  image,       \* the persistState it has built
  fd,          \* the file it has opened
  tickerOn,    \* the ticker goroutine: on, stopping (persistStop is closed), off
  accepting,   \* the HTTP server accepts requests
  boots,       \* how often the process was started
  overlapped,  \* two SaveStates were in progress at once, in this or an earlier life
  missed,      \* saves in progress during which the maps changed or another save ran
  slipped,     \* the last save that renamed its file was such a save
  discarded    \* the state file that a start found too old to restore

history == <<overlapped, missed, slipped, discarded>>

storage == <<file, tmp, state, spc, image, fd, tickerOn, accepting, boots, history>>

vars == <<registry, storage>>

Image == [channels : PartialFunctions(Chans, SUBSET Users),
          userChannels : PartialFunctions(Users, SUBSET Chans),
          users : [Users -> {"unknown", "silent", "reachable"}]]

EmptyImage == [channels |-> NoEntries, userChannels |-> NoEntries,
               users |-> [u \in Users |-> "unknown"]]

\* json.Unmarshal finds an image in a whole file and an error in any other.
Contents == [form : {"empty", "torn", "whole"}, image : Image]

Empty == [form |-> "empty", image |-> EmptyImage]

Torn == [form |-> "torn", image |-> EmptyImage]

Whole(i) == [form |-> "whole", image |-> i]

IsWhole(f) == file[f].form = "whole"

\* A saver has a file open only while it writes.
OpenToWrite == \A v \in Savers : fd[v] # NoFile <=> spc[v] = "write"

PersistTypeOK ==
  /\ TypeOK
  /\ file \in [Files -> Contents]
  /\ tmp \in Files \cup {NoFile}
  /\ state \in Files \cup {NoFile}
  /\ spc \in [Savers -> {"off", "maps", "users", "open", "write", "rename", "clean", "over", "failed"}]
  /\ image \in [Savers -> Image]
  /\ fd \in [Savers -> Files \cup {NoFile}]
  /\ OpenToWrite
  /\ tickerOn \in {"on", "stopping", "off"}
  /\ accepting \in BOOLEAN
  /\ boots \in 1..MaxBoots
  /\ overlapped \in BOOLEAN
  /\ missed \in SUBSET Savers
  /\ slipped \in BOOLEAN
  /\ discarded \in Files \cup {NoFile}

PersistInit ==
  /\ RegistryInit
  /\ file = [f \in Files |-> Empty]
  /\ tmp = NoFile
  /\ state = NoFile
  /\ spc = [v \in Savers |-> "off"]
  /\ image = [v \in Savers |-> EmptyImage]
  /\ fd = [v \in Savers |-> NoFile]
  /\ tickerOn = "on"
  /\ accepting = TRUE
  /\ boots = 1
  /\ overlapped = FALSE
  /\ missed = {}
  /\ slipped = FALSE
  /\ discarded = NoFile

-----------------------------------------------------------------------------
(* SaveState *)

Saving(v) == spc[v] \notin {"off", "over", "failed"}

\* The ticker's goroutine is ready for its next tick; main's save is its last act.
Rest(v) == IF v = "ticker" THEN "off" ELSE "over"

\* SaveState returned early: the ticker goes on, main leaves it at that.
Abandoned(v) == IF v = "ticker" THEN "off" ELSE "failed"

\* SaveState returns, and what it had copied is gone; main's image is kept here to
\* say what its save had to leave on disk.
Returns(v) ==
  /\ missed' = missed \ {v}
  /\ image' = IF v = "ticker" THEN [image EXCEPT ![v] = EmptyImage] ELSE image

Step(v, from, to) ==
  /\ up
  /\ spc[v] = from
  /\ spc' = [spc EXCEPT ![v] = to]

Begin(v) ==
  /\ Step(v, "off", "maps")
  /\ LET others == {w \in Savers \ {v} : Saving(w)}
     IN  /\ overlapped' = (overlapped \/ others # {})
         /\ missed' = IF others = {} THEN missed ELSE missed \cup others \cup {v}
  /\ UNCHANGED <<slipped, discarded>>

\* Channels and UserChannels are copied under one RLock.
CopyMaps(v) ==
  /\ Step(v, "maps", "users")
  /\ NoWriterInLine
  /\ image' = [image EXCEPT ![v] = [channels |-> Channels, userChannels |-> UserChannels,
                                    users |-> EmptyImage.users]]
  /\ UNCHANGED <<registry, file, tmp, state, fd, tickerOn, accepting, boots,
                 history>>

\* Mutated form of CopyUsers: UserChannels is copied here too, after the lock.
CopyUsersAndChannels(v) ==
  /\ Step(v, "users", "open")
  /\ image' = [image EXCEPT ![v].users = GlobalUsers, ![v].userChannels = UserChannels]
  /\ UNCHANGED <<registry, file, tmp, state, fd, tickerOn, accepting, boots,
                 history>>

\* GlobalUsers.Range, without the lock.
CopyUsers(v) ==
  /\ Step(v, "users", "open")
  /\ image' = [image EXCEPT ![v] = [channels |-> image[v].channels,
                                    userChannels |-> image[v].userChannels,
                                    users |-> GlobalUsers]]
  /\ UNCHANGED <<registry, file, tmp, state, fd, tickerOn, accepting, boots,
                 history>>

\* A file that has no name and that nobody has open is no more.
Spare == CHOOSE f \in Files : f \notin {tmp, state} /\ \A v \in Savers : fd[v] # f

\* os.WriteFile opens the name: an existing file is truncated, else one is created.
OpenTmp(v) ==
  /\ Step(v, "open", "write")
  /\ tmp' = IF tmp = NoFile THEN Spare ELSE tmp
  /\ fd' = [fd EXCEPT ![v] = tmp']
  /\ file' = [file EXCEPT ![tmp'] = Empty]
  /\ UNCHANGED <<registry, state, image, tickerOn, accepting, boots, history>>

\* The other saver has the same file open, or wrote it since it was truncated:
\* a shorter image leaves the tail of a longer one behind.
Shared(v) ==
  \/ \E w \in Savers \ {v} : fd[w] = fd[v]
  \/ file[fd[v]].form # "empty"

WriteTmp(v) ==
  /\ Step(v, "write", "rename")
  /\ \E c \in {Whole(image[v])} \cup (IF Shared(v) THEN {Torn} ELSE {}) :
       file' = [file EXCEPT ![fd[v]] = c]
  /\ fd' = [fd EXCEPT ![v] = NoFile]
  /\ UNCHANGED <<registry, tmp, state, image, tickerOn, accepting, boots,
                 history>>

\* Mutated form of WriteFails: the file is left open.
WriteFailsOpen(v) ==
  /\ Step(v, "write", Abandoned(v))
  /\ file' = [file EXCEPT ![fd[v]] = Torn]
  /\ Returns(v)
  /\ UNCHANGED <<registry, tmp, state, fd, tickerOn, accepting, boots, overlapped,
                 slipped, discarded>>

\* Mutated form of WriteFails: the error is ignored.
WriteFailsIgnored(v) ==
  /\ Step(v, "write", "rename")
  /\ file' = [file EXCEPT ![fd[v]] = Torn]
  /\ fd' = [fd EXCEPT ![v] = NoFile]
  /\ UNCHANGED <<registry, tmp, state, image, tickerOn, accepting, boots,
                 history>>

\* Mutated form of WriteFails: persistDirty is cleared although nothing was saved.
WriteFailsClean(v) ==
  /\ Step(v, "write", "clean")
  /\ file' = [file EXCEPT ![fd[v]] = Torn]
  /\ fd' = [fd EXCEPT ![v] = NoFile]
  /\ UNCHANGED <<registry, tmp, state, image, tickerOn, accepting, boots,
                 history>>

\* The write fails part way; SaveState returns and the maps stay dirty.
WriteFails(v) ==
  /\ Step(v, "write", Abandoned(v))
  /\ file' = [file EXCEPT ![fd[v]] = Torn]
  /\ fd' = [fd EXCEPT ![v] = NoFile]
  /\ Returns(v)
  /\ UNCHANGED <<registry, tmp, state, tickerOn, accepting, boots, overlapped,
                 slipped, discarded>>

\* os.Rename.
RenameTmp(v) ==
  /\ Step(v, "rename", "clean")
  /\ tmp # NoFile
  /\ state' = tmp
  /\ tmp' = NoFile
  /\ file' = [f \in Files |->
               IF f = state' \/ \E w \in Savers : fd[w] = f THEN file[f] ELSE Empty]
  /\ slipped' = (v \in missed)
  /\ discarded' = NoFile
  /\ UNCHANGED <<registry, image, fd, tickerOn, accepting, boots, overlapped, missed>>

\* MkdirAll, the open or the rename fails and nothing is changed; the rename must
\* fail when the other saver renamed the .tmp file first.
SaveFails(v) ==
  /\ \E from \in {"open", "rename"} : Step(v, from, Abandoned(v))
  /\ Returns(v)
  /\ UNCHANGED <<registry, file, tmp, state, fd, tickerOn, accepting, boots,
                 overlapped, slipped, discarded>>

ClearDirty(v) ==
  /\ Step(v, "clean", Rest(v))
  /\ persistDirty' = FALSE
  /\ slipped' = (v \in missed)
  /\ Returns(v)
  /\ UNCHANGED <<GlobalUsers, Channels, UserChannels, writer, readers, pc, call,
                 target, orphans, news, up>>
  /\ UNCHANGED <<file, tmp, state, fd, tickerOn, accepting, boots, overlapped,
                 discarded>>

-----------------------------------------------------------------------------
(* The ticker's goroutine, shutdown, crash and restart *)

\* case <-persistTicker.C: if isDirty() { SaveState() }.  A tick that was already
\* in the channel may win against the closed persistStop.
Tick ==
  /\ tickerOn # "off"
  /\ persistDirty
  /\ Begin("ticker")
  /\ tickerOn' = IF tickerOn = "stopping" THEN "off" ELSE "on"
  /\ UNCHANGED <<registry, file, tmp, state, image, fd, accepting, boots>>

\* case <-persistStop
TickerStops ==
  /\ up
  /\ tickerOn = "stopping"
  /\ spc["ticker"] = "off"
  /\ tickerOn' = "off"
  /\ UNCHANGED <<registry, file, tmp, state, spc, image, fd, accepting, boots,
                 history>>

\* main: server.Shutdown closes the listener and waits at most five seconds
\* for the requests in progress.
CloseServer ==
  /\ up
  /\ accepting
  /\ accepting' = FALSE
  /\ UNCHANGED <<registry, file, tmp, state, spc, image, fd, tickerOn, boots,
                 history>>

\* ShutdownPttSystem: stop the ticker, close persistStop, SaveState.
ShutdownPttSystem ==
  /\ ~accepting
  /\ Begin("main")
  /\ tickerOn' = IF tickerOn = "on" THEN "stopping" ELSE tickerOn
  /\ UNCHANGED <<registry, file, tmp, state, image, fd, accepting, boots>>

\* The image loadState restores: none, if the file is missing, cannot be
\* parsed, or is older than maxRestoreAge.
Restored(young) ==
  IF state # NoFile /\ IsWhole(state) /\ young THEN file[state].image ELSE EmptyImage

\* The memory of a process that has just loaded an image.  What its saves will
\* miss starts afresh with them.
FreshMemory(i) ==
  /\ Channels' = i.channels
  /\ UserChannels' = i.userChannels
  /\ GlobalUsers' = i.users
  /\ persistDirty' = FALSE
  /\ writer' = NoThread
  /\ readers' = {}
  /\ pc' = [t \in Threads |-> "idle"]
  /\ call' = [t \in Threads |-> NoRequest]
  /\ target' = [t \in Threads |-> {}]
  /\ orphans' = {}
  /\ news' = [t \in Threads |-> Silence]
  /\ spc' = [v \in Savers |-> "off"]
  /\ image' = [v \in Savers |-> EmptyImage]
  /\ fd' = [v \in Savers |-> NoFile]
  /\ tickerOn' = "on"
  /\ accepting' = TRUE
  /\ missed' = {}
  /\ slipped' = FALSE

\* main returns after its save, or the process is killed at any time: what is
\* left is what the files hold.
Stop ==
  /\ up
  /\ up' = FALSE
  /\ FreshMemory(EmptyImage)
  /\ UNCHANGED <<file, tmp, state, boots, overlapped, discarded>>

\* A new process: InitPttSystem loads the state before anything else runs.  A
\* file that an earlier start found too old has not become younger: the system
\* clock is not set back.
Boot(young) ==
  /\ ~up
  /\ state # NoFile /\ state = discarded => ~young
  /\ up' = TRUE
  /\ boots < MaxBoots
  /\ boots' = boots + 1
  /\ FreshMemory(Restored(young))
  /\ discarded' = IF state # NoFile /\ IsWhole(state) /\ ~young THEN state ELSE discarded
  /\ UNCHANGED <<file, tmp, state, overlapped>>

-----------------------------------------------------------------------------
Save(v) ==
  \/ CopyMaps(v)
  \/ CopyUsers(v)
  \/ OpenTmp(v)
  \/ WriteTmp(v)
  \/ WriteFails(v)
  \/ RenameTmp(v)
  \/ SaveFails(v)
  \/ ClearDirty(v)

\* A request of PttRegistry makes a step.
RegistryStep ==
  /\ \E t \in Threads :
       \/ accepting /\ \E r \in Request : PttConnect(t, r)
       \/ Serve(t)
       \/ \E c \in Chans : Publish(t, c)
       \/ FatalMapRace(t)
  /\ missed' = IF Channels' = Channels THEN missed
               ELSE missed \cup {v \in Savers : Saving(v)}
  /\ UNCHANGED <<file, tmp, state, spc, image, fd, tickerOn, accepting, boots,
                 overlapped, slipped, discarded>>

PersistNext ==
  \/ RegistryStep
  \/ \E v \in Savers : Save(v)
  \/ Tick
  \/ TickerStops
  \/ CloseServer
  \/ ShutdownPttSystem
  \/ Stop
  \/ \E young \in BOOLEAN : Boot(young)

PersistSpec == PersistInit /\ [][PersistNext]_vars

-----------------------------------------------------------------------------
(* Safety *)

\* What a process that starts now restores, unless the file has become too old.
OnDisk == IF state = discarded THEN EmptyImage ELSE Restored(TRUE)

\* A crash at any point leaves a state file that can be read, as long as no two
\* SaveStates were in progress at once: the rename puts whole files in place.
StateFileIsWhole ==
  state # NoFile /\ ~overlapped => IsWhole(state)

\* Every image that can be restored is consistent: its two maps are inverse, and
\* each member is among its users although they are copied after the lock of
\* the maps was released.
ImagesAreConsistent ==
  \A f \in Files : IsWhole(f) =>
    LET i == file[f].image
        RosterIn(c) == IF c \in DOMAIN i.channels THEN i.channels[c] ELSE {}
        ChannelsIn(u) == IF u \in DOMAIN i.userChannels THEN i.userChannels[u] ELSE {}
    IN  \A c \in Chans, u \in Users :
          /\ u \in RosterIn(c) <=> c \in ChannelsIn(u)
          /\ u \in RosterIn(c) => i.users[u] # "unknown"

\* Maps that differ from the state file are dirty, or about to be marked: the
\* periodic save forgets no change of membership, whatever fails, is killed or is
\* found too old at a start.  Nothing is claimed after a save during which the
\* maps changed or another save ran (ClearDirty may then wipe out the mark of a
\* change that is in no image), until the end of the next save that had neither.
ChangesWillBeSaved ==
  up /\ ~slipped =>
    \/ Channels = OnDisk.channels
    \/ persistDirty
    \/ \E t \in Threads : pc[t] = "mark"

\* main.go:157: "Persist PTT channel/user state".  Once ShutdownPttSystem has
\* returned without a write error, the state file holds what it saved.
ShutdownPersists ==
  spc["main"] = "over" => state # NoFile /\ file[state] = Whole(image["main"])
=============================================================================
