------------------------------ MODULE PttVoice ------------------------------
(***************************************************************************)
(* The voice pipeline of the push-to-talk service: a POST to PttVoice      *)
(* saves a recording and queues it (PushToTalk.go); a consumer finds out   *)
(* who listens and queues one push task for each of them; a worker hands   *)
(* the task to APNs (PTTPush.go).  The files of the recordings, and the    *)
(* cleaner that removes them, are left out: no step here reads them.       *)
(*                                                                         *)
(* The first queue makes the HTTP request wait when it is full, the second *)
(* drops tasks when it is full.  The registry (PttRegistry) appears here   *)
(* only where a consumer meets it: the consumer asks for ChannelLock to    *)
(* read, may have to wait for it, and finds any roster under it.           *)
(***************************************************************************)
EXTENDS Naturals, Sequences, SequencesExt

CONSTANTS
  Users,        \* user ids
  Messages,     \* the recordings that are ever posted, each of them once
  SenderOf,     \* the id a recording says it is from; nothing makes it a user
  Consumers,    \* startPttConsumer goroutines, 2 in the code
  Workers,      \* startPushTaskWorker goroutines, 24 in the code
  MsgCap,       \* capacity of MsgQueue, 1000 in the code
  TaskCap       \* capacity of PushTaskQueue, 1000 in the code

ASSUME VoiceAssumption == MsgCap \in Nat \ {0} /\ TaskCap \in Nat \ {0}

VARIABLES
  post,          \* where the request that posts a recording is
  MsgQueue,      \* recordings waiting for a consumer
  locked,        \* a writer holds ChannelLock or is in line for it: RLock waits
  reading,       \* the recording a consumer took and asks for the roster of
  fanout,        \* what a consumer holds: a recording and the users still to be queued
  audience,      \* the users a consumer chose for a recording
  PushTaskQueue, \* tasks waiting for a worker
  work,          \* the task a worker holds
  settled        \* the tasks that ended, by how they did

vars == <<post, MsgQueue, locked, reading, fanout, audience, PushTaskQueue,
          work, settled>>

\* A task is a token of a user, and the URL of a recording.
Task == [msg : Messages, user : Users]

\* What may become of it.
Ends == {"pushed", "failed", "dropped"}

VoiceTypeOK ==
  /\ post \in [Messages -> {"new", "sending", "queued", "refused"}]
  /\ MsgQueue \in Seq(Messages) /\ Len(MsgQueue) <= MsgCap
  /\ locked \in BOOLEAN
  /\ reading \in [Consumers -> SUBSET Messages]
  /\ fanout \in [Consumers -> SUBSET Task]
  /\ audience \in [Messages -> SUBSET Users]
  /\ PushTaskQueue \in Seq(Task) /\ Len(PushTaskQueue) <= TaskCap
  /\ work \in [Workers -> {<<>>} \cup {<<k>> : k \in Task}]
  /\ settled \in [Ends -> SUBSET Task]

VoiceInit ==
  /\ post = [m \in Messages |-> "new"]
  /\ MsgQueue = <<>>
  /\ locked = FALSE
  /\ reading = [i \in Consumers |-> {}]
  /\ fanout = [i \in Consumers |-> {}]
  /\ audience = [m \in Messages |-> {}]
  /\ PushTaskQueue = <<>>
  /\ work = [w \in Workers |-> <<>>]
  /\ settled = [e \in Ends |-> {}]

-----------------------------------------------------------------------------
(* POST /ptt/voice *)

GoOn(m, from, to) == post[m] = from /\ post' = [post EXCEPT ![m] = to]

\* The recording has a complete name not older than a minute, and is written to
\* its file.
SaveRecording(m) ==
  /\ GoOn(m, "new", "sending")
  /\ UNCHANGED <<MsgQueue, locked, reading, fanout, audience, PushTaskQueue, work,
                 settled>>

\* No name, an old one, no file, or a body that breaks off.
RefuseVoice(m) ==
  /\ GoOn(m, "new", "refused")
  /\ UNCHANGED <<MsgQueue, locked, reading, fanout, audience, PushTaskQueue, work,
                 settled>>

\* Mutated form of SendMessage: the queue has no bound.
SendMessageUnbounded(m) ==
  /\ GoOn(m, "sending", "queued")
  /\ MsgQueue' = Append(MsgQueue, m)
  /\ UNCHANGED <<locked, reading, fanout, audience, PushTaskQueue, work, settled>>

\* MsgQueue <- msg: the request waits for room.  It has nothing left to do then
\* but to answer.
SendMessage(m) ==
  /\ Len(MsgQueue) < MsgCap
  /\ GoOn(m, "sending", "queued")
  /\ MsgQueue' = Append(MsgQueue, m)
  /\ UNCHANGED <<locked, reading, fanout, audience, PushTaskQueue, work, settled>>

-----------------------------------------------------------------------------
(* ChannelLock, as the pipeline meets it.  Writers are served one after the    *)
(* other; the first of them waits for readers, and one of these is             *)
(* PttSubscribe, which writes to a client that may never read.                 *)

LockTaken ==
  /\ ~locked
  /\ locked' = TRUE
  /\ UNCHANGED <<post, MsgQueue, reading, fanout, audience, PushTaskQueue, work,
                 settled>>

LockReleased ==
  /\ locked
  /\ locked' = FALSE
  /\ UNCHANGED <<post, MsgQueue, reading, fanout, audience, PushTaskQueue, work,
                 settled>>

-----------------------------------------------------------------------------
(* startPttConsumer *)

\* msg := range MsgQueue
Receive(i) ==
  /\ reading[i] = {} /\ fanout[i] = {}
  /\ MsgQueue # <<>>
  /\ reading' = [reading EXCEPT ![i] = {Head(MsgQueue)}]
  /\ MsgQueue' = Tail(MsgQueue)
  /\ UNCHANGED <<post, locked, fanout, audience, PushTaskQueue, work, settled>>

\* Mutated form of Listeners: the sender hears its own recording.
ListenersWithSender(m, roster) == roster

\* Who receives a recording, decided when its consumer reads the roster and not
\* when it was posted: the members of its channel with a token, but not its sender.
\* A channel without members, or none of that name, has no listeners.
Listeners(m, roster) == roster \ {SenderOf[m]}

\* ChannelLock.RLock() is granted and the listeners are read; roster are the
\* members of the channel, at this moment, whose token is not empty.
ReadRoster(i, m, roster) ==
  /\ reading[i] = {m}
  /\ ~locked
  /\ reading' = [reading EXCEPT ![i] = {}]
  /\ audience' = [audience EXCEPT ![m] = Listeners(m, roster)]
  /\ fanout' = [fanout EXCEPT ![i] = [msg : {m}, user : Listeners(m, roster)]]
  /\ UNCHANGED <<post, MsgQueue, locked, PushTaskQueue, work, settled>>

\* Mutated form of FanOut: the consumer waits for room in PushTaskQueue.
FanOutBlocking(i, k) ==
  /\ k \in fanout[i]
  /\ fanout' = [fanout EXCEPT ![i] = @ \ {k}]
  /\ Len(PushTaskQueue) < TaskCap
  /\ PushTaskQueue' = Append(PushTaskQueue, k)
  /\ UNCHANGED <<post, MsgQueue, locked, reading, audience, work, settled>>

\* Mutated form of FanOut: the loop does not advance past a task it queued.
FanOutTwice(i, k) ==
  /\ k \in fanout[i]
  /\ IF Len(PushTaskQueue) < TaskCap
     THEN /\ PushTaskQueue' = Append(PushTaskQueue, k)
          /\ UNCHANGED <<fanout, settled>>
     ELSE /\ settled' = [settled EXCEPT !["dropped"] = @ \cup {k}]
          /\ fanout' = [fanout EXCEPT ![i] = @ \ {k}]
          /\ UNCHANGED PushTaskQueue
  /\ UNCHANGED <<post, MsgQueue, locked, reading, audience, work>>

\* select { case PushTaskQueue <- task: default: }
FanOut(i, k) ==
  /\ k \in fanout[i]
  /\ fanout' = [fanout EXCEPT ![i] = @ \ {k}]
  /\ IF Len(PushTaskQueue) < TaskCap
     THEN /\ PushTaskQueue' = Append(PushTaskQueue, k)
          /\ UNCHANGED settled
     ELSE /\ settled' = [settled EXCEPT !["dropped"] = @ \cup {k}]
          /\ UNCHANGED PushTaskQueue
  /\ UNCHANGED <<post, MsgQueue, locked, reading, audience, work>>

-----------------------------------------------------------------------------
(* startPushTaskWorker *)

TakeTask(w) ==
  /\ work[w] = <<>>
  /\ PushTaskQueue # <<>>
  /\ work' = [work EXCEPT ![w] = <<Head(PushTaskQueue)>>]
  /\ PushTaskQueue' = Tail(PushTaskQueue)
  /\ UNCHANGED <<post, MsgQueue, locked, reading, fanout, audience, settled>>

\* Mutated form of EndTask: a failed push goes back to the end of the queue.
EndTaskRetrying(w, k) ==
  /\ work[w] = <<k>>
  /\ work' = [work EXCEPT ![w] = <<>>]
  /\ \/ /\ settled' = [settled EXCEPT !["pushed"] = @ \cup {k}]
        /\ UNCHANGED PushTaskQueue
     \/ /\ PushTaskQueue' = Append(PushTaskQueue, k)
        /\ UNCHANGED settled
  /\ UNCHANGED <<post, MsgQueue, locked, reading, fanout, audience>>

\* APNs accepts the push or does not.  The report of a failure cuts the token
\* to ten characters, which panics for a shorter one; the worker recovers.
EndTask(w, k) ==
  /\ work[w] = <<k>>
  /\ work' = [work EXCEPT ![w] = <<>>]
  /\ \/ settled' = [settled EXCEPT !["pushed"] = @ \cup {k}]
     \/ settled' = [settled EXCEPT !["failed"] = @ \cup {k}]
  /\ UNCHANGED <<post, MsgQueue, locked, reading, fanout, audience,
                 PushTaskQueue>>

-----------------------------------------------------------------------------
Listen(i) == \E m \in reading[i], roster \in SUBSET Users : ReadRoster(i, m, roster)

Consumer(i) == Receive(i) \/ Listen(i) \/ \E k \in fanout[i] : FanOut(i, k)

Worker(w) == TakeTask(w) \/ \E k \in ToSet(work[w]) : EndTask(w, k)

VoiceNext ==
  \/ \E m \in Messages :
       SaveRecording(m) \/ RefuseVoice(m) \/ SendMessage(m)
  \/ LockTaken \/ LockReleased
  \/ \E i \in Consumers : Consumer(i)
  \/ \E w \in Workers : Worker(w)

VoiceSpec == VoiceInit /\ [][VoiceNext]_vars

-----------------------------------------------------------------------------
(* Safety *)

\* Where a task is: in the hands of a consumer, at a position of the queue, in
\* the hands of a worker, or at an end.
Places(k) ==
  ({"consumer"} \X {i \in Consumers : k \in fanout[i]})
    \cup ({"queue"} \X {j \in DOMAIN PushTaskQueue : PushTaskQueue[j] = k})
    \cup ({"worker"} \X {w \in Workers : work[w] = <<k>>})
    \cup ({"end"} \X {e \in Ends : k \in settled[e]})

\* Each user chosen for a recording has one task, and the task is in one place:
\* held by one consumer, queued, held by one worker, or settled in one way.
\* Nobody is pushed the same recording twice, and no task gets lost unsettled.
TasksAreConserved ==
  \A m \in Messages, u \in Users :
    LET places == Places([msg |-> m, user |-> u])
    IN  IF u \in audience[m] THEN \E p \in places : places = {p} ELSE places = {}

\* Recordings whose listeners are still to be chosen.
Waiting == ToSet(MsgQueue) \cup UNION {reading[i] : i \in Consumers}

\* The pipeline implements PttDelivery: a recording is taken when it is queued,
\* its listeners are chosen when its consumer reads the roster, and a push that
\* ended, failed or was dropped is never tried again.
Delivery == INSTANCE PttDelivery WITH
  taken <- {m \in Messages : post[m] = "queued"},
  chosen <- {m \in Messages : post[m] = "queued" /\ m \notin Waiting},
  due <- {k \in Task : k.user \in audience[k.msg] /\ \A e \in Ends : k \notin settled[e]}

ImplementsDelivery == Delivery!DeliverySpec

-----------------------------------------------------------------------------
(* Liveness.  Go runs every runnable goroutine, serves the senders that wait *)
(* on a channel in turn (the strong fairness of SendMessage), and a consumer  *)
(* is a loop over its queue.  Whenever a writer releases ChannelLock the      *)
(* waiting readers get it (the strong fairness of Listen), but nothing is     *)
(* assumed of its release.  Nor is anything assumed of the workers here: APNs *)
(* may leave them without an answer for as long as it likes.                  *)

StallingApnsSpec ==
  /\ VoiceSpec
  /\ \A m \in Messages : SF_vars(SendMessage(m))
  /\ \A i \in Consumers :
       /\ WF_vars(Receive(i) \/ \E k \in fanout[i] : FanOut(i, k))
       /\ SF_vars(Listen(i))

\* The pushes of the workers end, one way or the other.
ApnsAnswers == \A w \in Workers : WF_vars(Worker(w))

\* A request that posts a recording gets it queued even if APNs never answers:
\* tasks are dropped before the first queue stays full (the default case of the
\* select).  What can hold it up for ever is ChannelLock: if a client stalls the
\* reader that a writer waits for, the consumers wait as well and MsgQueue fills.
PostsEnd ==
  \A m \in Messages : post[m] = "sending" ~> (post[m] = "queued" \/ []locked)

\* If APNs answers, every task of every recording is settled: none waits for
\* ever in a queue, and no worker is lost to a failed push.
TasksSettle ==
  ApnsAnswers =>
    \A m \in Messages, u \in Users :
      u \in audience[m] ~> \E e \in Ends : [msg |-> m, user |-> u] \in settled[e]
=============================================================================
