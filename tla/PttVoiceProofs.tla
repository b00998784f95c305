--------------------------- MODULE PttVoiceProofs ---------------------------
(***************************************************************************)
(* Theorems about the voice pipeline of PttVoice, for any users, any       *)
(* recordings, any number of consumers and workers, and queues of any      *)
(* length.                                                                 *)
(***************************************************************************)
EXTENDS PttVoice, SequenceTheorems, TLAPS

-----------------------------------------------------------------------------
(* Types *)

\* The numbers that the types speak of.
LEMMA VoiceNumbers == MsgCap \in Nat /\ MsgCap > 0 /\ TaskCap \in Nat /\ TaskCap > 0
BY VoiceAssumption

\* The tasks of a fan-out are tasks.
LEMMA FanOutType ==
  ASSUME NEW m \in Messages, NEW S \in SUBSET Users
  PROVE  [msg : {m}, user : S] \in SUBSET Task
BY DEF Task

\* A queue that is not full may grow ...
LEMMA QueueGrows ==
  ASSUME NEW S, NEW q \in Seq(S), NEW x \in S, NEW cap \in Nat, Len(q) < cap
  PROVE  /\ Append(q, x) \in Seq(S) /\ Len(Append(q, x)) <= cap
         /\ DOMAIN Append(q, x) = 1..(Len(q) + 1) /\ DOMAIN q = 1..Len(q) /\ Len(q) \in Nat
         /\ \A j \in DOMAIN q : Append(q, x)[j] = q[j]
         /\ Append(q, x)[Len(q) + 1] = x
<1>1. Append(q, x) \in Seq(S) /\ Len(Append(q, x)) = Len(q) + 1
  BY AppendProperties
<1>2. Len(q) \in Nat /\ DOMAIN q = 1..Len(q) /\ DOMAIN Append(q, x) = 1..Len(Append(q, x))
  BY <1>1, LenProperties
<1>3. /\ \A j \in 1..Len(q) : Append(q, x)[j] = q[j]
      /\ Append(q, x)[Len(q) + 1] = x
  BY AppendProperties
<1> QED BY <1>1, <1>2, <1>3

\* ... and one that is not empty may shrink.
LEMMA QueueShrinks ==
  ASSUME NEW S, NEW q \in Seq(S), NEW cap \in Nat, Len(q) <= cap, q # <<>>
  PROVE  /\ Head(q) \in S /\ Head(q) = q[1]
         /\ Tail(q) \in Seq(S) /\ Len(Tail(q)) <= cap
         /\ Len(q) \in Nat \ {0} /\ DOMAIN q = 1..Len(q) /\ DOMAIN Tail(q) = 1..(Len(q) - 1)
         /\ \A j \in DOMAIN Tail(q) : Tail(q)[j] = q[j + 1]
<1>1. Len(q) \in Nat \ {0} /\ DOMAIN q = 1..Len(q)
  BY EmptySeq, LenProperties
<1>2. /\ Head(q) \in S /\ Tail(q) \in Seq(S) /\ Len(Tail(q)) = Len(q) - 1
      /\ \A j \in 1..Len(Tail(q)) : Tail(q)[j] = q[j + 1]
  BY HeadTailProperties
<1>3. DOMAIN Tail(q) = 1..Len(Tail(q))
  BY <1>2, LenProperties
<1>4. Head(q) = q[1]
  OBVIOUS
<1> QED BY <1>1, <1>2, <1>3, <1>4

\* What a worker holds is a task.
LEMMA HeldTask ==
  ASSUME VoiceTypeOK, NEW w \in Workers, NEW k, work[w] = <<k>>
  PROVE  k \in Task
<1>1. work[w] # <<>>
  OBVIOUS
<1>2. PICK j \in Task : work[w] = <<j>>
  BY <1>1 DEF VoiceTypeOK
<1>3. <<k>>[1] = k /\ <<j>>[1] = j
  OBVIOUS
<1>4. k = j
  BY <1>2, <1>3
<1> QED BY <1>4

\* The types at first.
LEMMA VoiceInitTypes == VoiceInit => VoiceTypeOK
<1> SUFFICES ASSUME VoiceInit PROVE VoiceTypeOK
  OBVIOUS
<1>1. /\ MsgQueue \in Seq(Messages) /\ Len(MsgQueue) <= MsgCap
      /\ PushTaskQueue \in Seq(Task) /\ Len(PushTaskQueue) <= TaskCap
  BY VoiceNumbers, EmptySeq DEF VoiceInit
<1> QED BY <1>1 DEF VoiceInit, VoiceTypeOK, Ends

\* Every step keeps the types.
LEMMA VoiceNextTypes == VoiceTypeOK /\ [VoiceNext]_vars => VoiceTypeOK'
<1> SUFFICES ASSUME VoiceTypeOK, [VoiceNext]_vars PROVE VoiceTypeOK'
  OBVIOUS
<1>q. /\ MsgQueue \in Seq(Messages) /\ Len(MsgQueue) <= MsgCap
      /\ PushTaskQueue \in Seq(Task) /\ Len(PushTaskQueue) <= TaskCap
  BY DEF VoiceTypeOK
<1>1. ASSUME NEW m \in Messages, SaveRecording(m) \/ RefuseVoice(m)
      PROVE  VoiceTypeOK'
  BY <1>1 DEF SaveRecording, RefuseVoice, GoOn, VoiceTypeOK
<1>2. ASSUME NEW m \in Messages, SendMessage(m)
      PROVE  VoiceTypeOK'
  <2>1. MsgQueue' \in Seq(Messages) /\ Len(MsgQueue') <= MsgCap
    BY <1>2, <1>q, VoiceNumbers, QueueGrows DEF SendMessage
  <2> QED BY <1>2, <2>1 DEF SendMessage, GoOn, VoiceTypeOK
<1>3. ASSUME NEW i \in Consumers, Receive(i)
      PROVE  VoiceTypeOK'
  <2>1. PICK m : m = Head(MsgQueue)
    OBVIOUS
  <2>2. /\ MsgQueue' \in Seq(Messages) /\ Len(MsgQueue') <= MsgCap
        /\ m \in Messages
    BY <1>3, <1>q, <2>1, VoiceNumbers, QueueShrinks DEF Receive
  <2>3. /\ reading' = [reading EXCEPT ![i] = {m}]
        /\ UNCHANGED <<post, locked, fanout, audience, PushTaskQueue, work, settled>>
    BY <1>3, <2>1 DEF Receive
  <2> QED BY <2>2, <2>3 DEF VoiceTypeOK
<1>8. ASSUME NEW i \in Consumers, NEW m \in reading[i], NEW roster \in SUBSET Users,
             ReadRoster(i, m, roster)
      PROVE  VoiceTypeOK'
  <2> DEFINE L == Listeners(m, roster)
  <2>1. m \in Messages
    BY DEF VoiceTypeOK
  <2>2. L \in SUBSET Users
    BY DEF Listeners
  <2>3. /\ reading' = [reading EXCEPT ![i] = {}]
        /\ audience' = [audience EXCEPT ![m] = L]
        /\ fanout' = [fanout EXCEPT ![i] = [msg : {m}, user : L]]
        /\ UNCHANGED <<post, MsgQueue, locked, PushTaskQueue, work, settled>>
    BY <1>8 DEF ReadRoster
  <2>4. [msg : {m}, user : L] \in SUBSET Task
    BY <2>1, <2>2, FanOutType
  <2> HIDE DEF L
  <2> QED BY <2>1, <2>2, <2>3, <2>4 DEF VoiceTypeOK
<1>9. ASSUME LockTaken \/ LockReleased
      PROVE  VoiceTypeOK'
  BY <1>9 DEF LockTaken, LockReleased, VoiceTypeOK
<1>4. ASSUME NEW i \in Consumers, NEW k \in fanout[i], FanOut(i, k)
      PROVE  VoiceTypeOK'
  <2>1. k \in Task
    BY DEF VoiceTypeOK
  <2>2. fanout' \in [Consumers -> SUBSET Task] /\ UNCHANGED <<post, MsgQueue, locked, reading, audience, work>>
    BY <1>4 DEF FanOut, VoiceTypeOK
  <2>5. IF Len(PushTaskQueue) < TaskCap
        THEN PushTaskQueue' = Append(PushTaskQueue, k) /\ settled' = settled
        ELSE settled' = [settled EXCEPT !["dropped"] = @ \cup {k}] /\ PushTaskQueue' = PushTaskQueue
    BY <1>4 DEF FanOut
  <2>3. CASE Len(PushTaskQueue) < TaskCap
    <3>1. PushTaskQueue' \in Seq(Task) /\ Len(PushTaskQueue') <= TaskCap
      BY <1>q, <2>1, <2>3, <2>5, VoiceNumbers, QueueGrows
    <3> QED BY <2>2, <2>3, <2>5, <3>1 DEF VoiceTypeOK
  <2>4. CASE ~(Len(PushTaskQueue) < TaskCap)
    <3>1. settled' \in [Ends -> SUBSET Task] /\ PushTaskQueue' = PushTaskQueue
      BY <2>1, <2>4, <2>5 DEF VoiceTypeOK, Ends
    <3> QED BY <1>q, <2>2, <3>1 DEF VoiceTypeOK
  <2> QED BY <2>3, <2>4
<1>5. ASSUME NEW w \in Workers, TakeTask(w)
      PROVE  VoiceTypeOK'
  <2>1. /\ PushTaskQueue' \in Seq(Task) /\ Len(PushTaskQueue') <= TaskCap
        /\ Head(PushTaskQueue) \in Task
    BY <1>5, <1>q, VoiceNumbers, QueueShrinks DEF TakeTask
  <2>2. work' \in [Workers -> {<<>>} \cup {<<k>> : k \in Task}]
    BY <1>5, <2>1 DEF TakeTask, VoiceTypeOK
  <2> QED BY <1>5, <2>1, <2>2 DEF TakeTask, VoiceTypeOK
<1>6. ASSUME NEW w \in Workers, NEW k, EndTask(w, k)
      PROVE  VoiceTypeOK'
  <2>1. k \in Task
    BY <1>6, HeldTask DEF EndTask
  <2>2. work' \in [Workers -> {<<>>} \cup {<<j>> : j \in Task}]
    BY <1>6 DEF EndTask, VoiceTypeOK
  <2>3. settled' \in [Ends -> SUBSET Task]
    BY <1>6, <2>1 DEF EndTask, VoiceTypeOK, Ends
  <2> QED BY <1>6, <2>2, <2>3 DEF EndTask, VoiceTypeOK
<1>7. CASE UNCHANGED vars
  BY <1>7 DEF vars, VoiceTypeOK
<1> QED BY <1>1, <1>2, <1>3, <1>4, <1>5, <1>6, <1>7, <1>8, <1>9
        DEF VoiceNext, Consumer, Listen, Worker

\* However many recordings are posted, no queue is longer than its capacity, and
\* every variable has its type.
THEOREM VoiceTypeCorrect == VoiceSpec => []VoiceTypeOK
BY VoiceInitTypes, VoiceNextTypes, PTL DEF VoiceSpec

-----------------------------------------------------------------------------
(* Recordings *)

\* A recording that waits for a consumer, or whose consumer waits for ChannelLock,
\* waits once, was posted, and has no listeners yet; nor has one that was not posted.
RecordingsWaitOnce ==
  /\ \A j \in DOMAIN MsgQueue : post[MsgQueue[j]] = "queued" /\ audience[MsgQueue[j]] = {}
  /\ \A i, j \in DOMAIN MsgQueue : MsgQueue[i] = MsgQueue[j] => i = j
  /\ \A m \in Messages : post[m] # "queued" => audience[m] = {}
  /\ \A i \in Consumers : \A m \in reading[i] :
       /\ post[m] = "queued" /\ audience[m] = {}
       /\ \A j \in DOMAIN MsgQueue : MsgQueue[j] # m
       /\ \A n \in Consumers : m \in reading[n] => i = n
       /\ fanout[i] = {}

LEMMA RecordingsInit == VoiceInit => RecordingsWaitOnce
<1> SUFFICES ASSUME VoiceInit PROVE RecordingsWaitOnce
  OBVIOUS
<1>1. DOMAIN MsgQueue = {}
  BY EmptySeq DEF VoiceInit
<1> QED BY <1>1 DEF VoiceInit, RecordingsWaitOnce

LEMMA RecordingsNext == VoiceTypeOK /\ RecordingsWaitOnce /\ [VoiceNext]_vars => RecordingsWaitOnce'
<1> SUFFICES ASSUME VoiceTypeOK, RecordingsWaitOnce, [VoiceNext]_vars PROVE RecordingsWaitOnce'
  OBVIOUS
<1>t. /\ MsgQueue \in Seq(Messages) /\ Len(MsgQueue) <= MsgCap
      /\ post \in [Messages -> {"new", "sending", "queued", "refused"}]
      /\ audience \in [Messages -> SUBSET Users]
      /\ reading \in [Consumers -> SUBSET Messages]
      /\ fanout \in [Consumers -> SUBSET Task]
  BY DEF VoiceTypeOK
<1>e. \A j \in DOMAIN MsgQueue : MsgQueue[j] \in Messages
  BY <1>t, ElementOfSeq, LenProperties
<1>1. ASSUME NEW m \in Messages, SaveRecording(m) \/ RefuseVoice(m)
      PROVE  RecordingsWaitOnce'
  <2>1. UNCHANGED <<MsgQueue, reading, fanout, audience>> /\ post[m] = "new"
        /\ \A x \in Messages : IF x = m THEN post'[x] \in {"sending", "refused"} ELSE post'[x] = post[x]
    BY <1>1, <1>t DEF SaveRecording, RefuseVoice, GoOn
  <2> QED BY <2>1, <1>e, <1>t DEF RecordingsWaitOnce
<1>2. ASSUME NEW m \in Messages, SendMessage(m)
      PROVE  RecordingsWaitOnce'
  <2>1. UNCHANGED <<reading, fanout, audience>> /\ post[m] = "sending"
        /\ \A x \in Messages : IF x = m THEN post'[x] = "queued" ELSE post'[x] = post[x]
    BY <1>2, <1>t DEF SendMessage, GoOn
  <2>2. /\ DOMAIN MsgQueue' = 1..(Len(MsgQueue) + 1) /\ DOMAIN MsgQueue = 1..Len(MsgQueue)
        /\ Len(MsgQueue) \in Nat
        /\ \A j \in DOMAIN MsgQueue : MsgQueue'[j] = MsgQueue[j]
        /\ MsgQueue'[Len(MsgQueue) + 1] = m
    BY <1>2, <1>t, VoiceNumbers, QueueGrows DEF SendMessage
  <2>3. \A j \in DOMAIN MsgQueue' :
          \/ j \in DOMAIN MsgQueue /\ MsgQueue'[j] = MsgQueue[j] /\ MsgQueue'[j] # m
          \/ j = Len(MsgQueue) + 1 /\ MsgQueue'[j] = m
    BY <2>1, <2>2 DEF RecordingsWaitOnce
  <2>4. \A j \in DOMAIN MsgQueue' : post'[MsgQueue'[j]] = "queued" /\ audience'[MsgQueue'[j]] = {}
    BY <1>e, <2>1, <2>3 DEF RecordingsWaitOnce
  <2>5. \A i, j \in DOMAIN MsgQueue' : MsgQueue'[i] = MsgQueue'[j] => i = j
    BY <2>3 DEF RecordingsWaitOnce
  <2>6. \A x \in Messages : post'[x] # "queued" => audience'[x] = {}
    BY <2>1 DEF RecordingsWaitOnce
  <2>7. ASSUME NEW n \in Consumers, NEW x \in reading'[n]
        PROVE  /\ post'[x] = "queued" /\ audience'[x] = {}
               /\ \A j \in DOMAIN MsgQueue' : MsgQueue'[j] # x
               /\ \A o \in Consumers : x \in reading'[o] => n = o
               /\ fanout'[n] = {}
    <3>1. x \in reading[n] /\ x \in Messages /\ post[x] = "queued" /\ x # m
      BY <1>t, <2>1, <2>7 DEF RecordingsWaitOnce
    <3> QED BY <2>1, <2>3, <3>1 DEF RecordingsWaitOnce
  <2> QED BY <2>4, <2>5, <2>6, <2>7 DEF RecordingsWaitOnce
<1>3. ASSUME NEW i \in Consumers, Receive(i)
      PROVE  RecordingsWaitOnce'
  <2>1. /\ Len(MsgQueue) \in Nat \ {0} /\ DOMAIN MsgQueue = 1..Len(MsgQueue)
        /\ DOMAIN MsgQueue' = 1..(Len(MsgQueue) - 1) /\ Head(MsgQueue) = MsgQueue[1]
        /\ \A j \in DOMAIN MsgQueue' : MsgQueue'[j] = MsgQueue[j + 1]
    BY <1>3, <1>t, VoiceNumbers, QueueShrinks DEF Receive
  <2>2. \A j \in DOMAIN MsgQueue' : j + 1 \in DOMAIN MsgQueue /\ j + 1 # 1 /\ 1 \in DOMAIN MsgQueue
    BY <2>1
  <2>0. PICK m : m = MsgQueue[1]
    OBVIOUS
  <2>3. /\ UNCHANGED <<post, fanout, audience>> /\ reading[i] = {} /\ fanout[i] = {}
        /\ \A n \in Consumers : reading'[n] = IF n = i THEN {m} ELSE reading[n]
    BY <1>3, <1>t, <2>0, <2>1 DEF Receive
  <2>4. m \in Messages /\ post[m] = "queued" /\ audience[m] = {} /\ 1 \in DOMAIN MsgQueue
    BY <1>e, <2>0, <2>1 DEF RecordingsWaitOnce
  <2>8. \A j \in DOMAIN MsgQueue' : MsgQueue'[j] # m
    BY <2>0, <2>1, <2>2 DEF RecordingsWaitOnce
  <2>9. ASSUME NEW n \in Consumers, NEW x \in reading'[n]
        PROVE  /\ post'[x] = "queued" /\ audience'[x] = {}
               /\ \A j \in DOMAIN MsgQueue' : MsgQueue'[j] # x
               /\ \A o \in Consumers : x \in reading'[o] => n = o
               /\ fanout'[n] = {}
    <3>1. CASE n = i
      <4>1. x = m
        BY <2>3, <3>1
      <4>2. \A o \in Consumers : m \notin reading[o]
        BY <2>0, <2>4 DEF RecordingsWaitOnce
      <4> QED BY <2>3, <2>4, <2>8, <3>1, <4>1, <4>2
    <3>2. CASE n # i
      <4>1. x \in reading[n] /\ x # m
        BY <2>0, <2>3, <2>4, <3>2 DEF RecordingsWaitOnce
      <4> QED BY <2>1, <2>2, <2>3, <3>2, <4>1 DEF RecordingsWaitOnce
    <3> QED BY <3>1, <3>2
  <2>5. \A j \in DOMAIN MsgQueue' : post'[MsgQueue'[j]] = "queued" /\ audience'[MsgQueue'[j]] = {}
    BY <1>e, <2>1, <2>2, <2>3 DEF RecordingsWaitOnce
  <2>6. ASSUME NEW j \in DOMAIN MsgQueue', NEW n \in DOMAIN MsgQueue', MsgQueue'[j] = MsgQueue'[n]
        PROVE  j = n
    <3>1. j + 1 = n + 1
      BY <2>1, <2>2, <2>6 DEF RecordingsWaitOnce
    <3> QED BY <2>1, <3>1
  <2>7. \A x \in Messages : post'[x] # "queued" => audience'[x] = {}
    BY <2>3 DEF RecordingsWaitOnce
  <2> QED BY <2>5, <2>6, <2>7, <2>9 DEF RecordingsWaitOnce
<1>8. ASSUME NEW i \in Consumers, NEW m \in reading[i], NEW roster \in SUBSET Users,
             ReadRoster(i, m, roster)
      PROVE  RecordingsWaitOnce'
  <2>1. /\ UNCHANGED <<post, MsgQueue>>
        /\ \A x \in Messages : x # m => audience'[x] = audience[x]
        /\ \A n \in Consumers : reading'[n] = IF n = i THEN {} ELSE reading[n]
        /\ \A n \in Consumers : n # i => fanout'[n] = fanout[n]
    BY <1>8, <1>t DEF ReadRoster
  <2>2. /\ post[m] = "queued"
        /\ \A j \in DOMAIN MsgQueue : MsgQueue[j] # m
        /\ \A n \in Consumers : m \in reading[n] => i = n
    BY DEF RecordingsWaitOnce
  <2>3. \A n \in Consumers : \A x \in reading'[n] :
          x \in reading[n] /\ x # m /\ x \in Messages /\ n # i
    BY <1>t, <2>1, <2>2
  <2>4. /\ \A j \in DOMAIN MsgQueue' : post'[MsgQueue'[j]] = "queued" /\ audience'[MsgQueue'[j]] = {}
        /\ \A j, n \in DOMAIN MsgQueue' : MsgQueue'[j] = MsgQueue'[n] => j = n
        /\ \A x \in Messages : post'[x] # "queued" => audience'[x] = {}
    BY <1>e, <2>1, <2>2 DEF RecordingsWaitOnce
  <2>5. ASSUME NEW n \in Consumers, NEW x \in reading'[n]
        PROVE  /\ post'[x] = "queued" /\ audience'[x] = {}
               /\ \A j \in DOMAIN MsgQueue' : MsgQueue'[j] # x
               /\ \A o \in Consumers : x \in reading'[o] => n = o
               /\ fanout'[n] = {}
    BY <2>1, <2>3 DEF RecordingsWaitOnce
  <2> QED BY <2>4, <2>5 DEF RecordingsWaitOnce
<1>4. ASSUME NEW i \in Consumers, NEW k \in fanout[i], FanOut(i, k)
      PROVE  RecordingsWaitOnce'
  <2>1. /\ UNCHANGED <<post, MsgQueue, reading, audience>>
        /\ \A n \in Consumers : fanout'[n] \subseteq fanout[n]
    BY <1>4, <1>t DEF FanOut
  <2> QED BY <2>1 DEF RecordingsWaitOnce
<1>5. ASSUME NEW w \in Workers, Worker(w)
      PROVE  UNCHANGED <<post, MsgQueue, reading, fanout, audience>>
  BY <1>5 DEF Worker, TakeTask, EndTask
<1>6. LockTaken \/ LockReleased \/ UNCHANGED vars
        => UNCHANGED <<post, MsgQueue, reading, fanout, audience>>
  BY DEF LockTaken, LockReleased, vars
<1>7. UNCHANGED <<post, MsgQueue, reading, fanout, audience>> => RecordingsWaitOnce'
  BY DEF RecordingsWaitOnce
<1> QED BY <1>1, <1>2, <1>3, <1>4, <1>5, <1>6, <1>7, <1>8 DEF VoiceNext, Consumer, Listen

-----------------------------------------------------------------------------
(* Tasks *)

Holding(k) == {i \in Consumers : k \in fanout[i]}

Queued(k) == {j \in DOMAIN PushTaskQueue : PushTaskQueue[j] = k}

Working(k) == {w \in Workers : work[w] = <<k>>}

Ended(k) == {e \in Ends : k \in settled[e]}

\* The task is in one place of one kind, or in none.
HeldOnce(k) ==
  (\E i \in Consumers : Holding(k) = {i}) /\ Queued(k) = {} /\ Working(k) = {} /\ Ended(k) = {}

QueuedOnce(k) ==
  (\E j \in DOMAIN PushTaskQueue : Queued(k) = {j}) /\ Holding(k) = {} /\ Working(k) = {}
    /\ Ended(k) = {}

WorkedOnce(k) ==
  (\E w \in Workers : Working(k) = {w}) /\ Holding(k) = {} /\ Queued(k) = {} /\ Ended(k) = {}

EndedOnce(k) ==
  (\E e \in Ends : Ended(k) = {e}) /\ Holding(k) = {} /\ Queued(k) = {} /\ Working(k) = {}

Once(k) == HeldOnce(k) \/ QueuedOnce(k) \/ WorkedOnce(k) \/ EndedOnce(k)

Nowhere(k) == Holding(k) = {} /\ Queued(k) = {} /\ Working(k) = {} /\ Ended(k) = {}

Chosen(k) == k.user \in audience[k.msg]

Conserved(k) == IF Chosen(k) THEN Once(k) ELSE Nowhere(k)

TasksInv == \A k \in Task : Conserved(k)

\* A task whose places of every kind stay as they are stays conserved.
LEMMA TaskStays ==
  ASSUME NEW k, Conserved(k), Chosen(k)' = Chosen(k), Holding(k)' = Holding(k),
         Queued(k)' = Queued(k), Working(k)' = Working(k), Ended(k)' = Ended(k)
  PROVE  Conserved(k)'
<1>1. HeldOnce(k) => HeldOnce(k)'
  BY DEF HeldOnce
<1>2. QueuedOnce(k) => QueuedOnce(k)'
  BY DEF QueuedOnce, Queued
<1>3. WorkedOnce(k) => WorkedOnce(k)'
  BY DEF WorkedOnce
<1>4. EndedOnce(k) => EndedOnce(k)'
  BY DEF EndedOnce
<1>5. Nowhere(k) => Nowhere(k)'
  BY DEF Nowhere
<1> QED BY <1>1, <1>2, <1>3, <1>4, <1>5 DEF Conserved, Once

\* A consumer has a recording nobody was chosen for, and holds a task for each of
\* those it chooses; it held none before.
LEMMA ReadRosterConserves ==
  ASSUME VoiceTypeOK, RecordingsWaitOnce, TasksInv, NEW i \in Consumers, NEW m \in reading[i],
         NEW roster \in SUBSET Users, ReadRoster(i, m, roster)
  PROVE  TasksInv'
<1> DEFINE L == Listeners(m, roster)
<1>1. /\ audience \in [Messages -> SUBSET Users]
      /\ fanout \in [Consumers -> SUBSET Task]
      /\ reading \in [Consumers -> SUBSET Messages]
  BY DEF VoiceTypeOK
<1>2. m \in Messages /\ audience[m] = {}
  BY <1>1 DEF RecordingsWaitOnce
<1>3. L \in SUBSET Users
  BY DEF Listeners
<1>4. /\ audience' = [audience EXCEPT ![m] = L]
      /\ fanout' = [fanout EXCEPT ![i] = [msg : {m}, user : L]]
      /\ UNCHANGED <<PushTaskQueue, work, settled>>
  BY DEF ReadRoster
<1>f. fanout[i] = {}
  BY DEF RecordingsWaitOnce
<1> HIDE DEF L
<1>5. ASSUME NEW k \in Task PROVE Conserved(k)'
  <2>1. k.msg \in Messages /\ k.user \in Users /\ Conserved(k)
    BY DEF Task, TasksInv
  <2>2. Queued(k)' = Queued(k) /\ Working(k)' = Working(k) /\ Ended(k)' = Ended(k)
    BY <1>4 DEF Queued, Working, Ended
  <2>3. CASE k.msg # m
    <3>1. Chosen(k)' = Chosen(k)
      BY <1>1, <1>2, <1>4, <2>1, <2>3 DEF Chosen
    <3>2. k \notin [msg : {m}, user : L]
      BY <2>3
    <3>3. Holding(k)' = Holding(k)
      BY <1>1, <1>4, <1>f, <3>2 DEF Holding
    <3> QED BY <2>1, <2>2, <3>1, <3>3, TaskStays
  <2>4. CASE k.msg = m
    <3>1. Nowhere(k)
      BY <1>2, <2>1, <2>4 DEF Conserved, Chosen
    <3>2. Chosen(k)' <=> k.user \in L
      BY <1>1, <1>2, <1>3, <1>4, <2>1, <2>4 DEF Chosen
    <3>3. k \in [msg : {m}, user : L] <=> k.user \in L
      BY <2>4 DEF Task
    <3>4. Holding(k)' = IF k.user \in L THEN {i} ELSE {}
      BY <1>1, <1>4, <3>1, <3>3 DEF Holding, Nowhere
    <3> QED BY <2>2, <3>1, <3>2, <3>4 DEF Conserved, Once, HeldOnce, Nowhere
  <2> QED BY <2>3, <2>4
<1> QED BY <1>5 DEF TasksInv

\* A consumer queues or drops a task, and has it no more.
LEMMA FanOutConserves ==
  ASSUME VoiceTypeOK, TasksInv, NEW i \in Consumers, NEW k \in fanout[i], FanOut(i, k)
  PROVE  TasksInv'
<1>1. /\ PushTaskQueue \in Seq(Task) /\ Len(PushTaskQueue) <= TaskCap
      /\ fanout \in [Consumers -> SUBSET Task]
      /\ settled \in [Ends -> SUBSET Task]
  BY DEF VoiceTypeOK
<1>2. k \in Task
  BY <1>1
<1>3. Holding(k) = {i} /\ Queued(k) = {} /\ Working(k) = {} /\ Ended(k) = {} /\ Chosen(k)
  <2>1. i \in Holding(k) /\ Conserved(k)
    BY <1>2 DEF Holding, TasksInv
  <2>2. HeldOnce(k) /\ Chosen(k)
    BY <2>1 DEF Conserved, Once, Nowhere, QueuedOnce, WorkedOnce, EndedOnce
  <2> QED BY <2>1, <2>2 DEF HeldOnce
<1>4. /\ fanout' = [fanout EXCEPT ![i] = @ \ {k}]
      /\ UNCHANGED <<audience, work>>
  BY DEF FanOut
<1>5. \A x : Chosen(x)' = Chosen(x) /\ Working(x)' = Working(x)
  BY <1>4 DEF Chosen, Working
<1>6. \A x : x # k => Holding(x)' = Holding(x)
  BY <1>1, <1>4 DEF Holding
<1>7. Holding(k)' = {}
  BY <1>1, <1>3, <1>4 DEF Holding
<1>8. CASE Len(PushTaskQueue) < TaskCap
  <2> DEFINE n == Len(PushTaskQueue) + 1
  <2>1. PushTaskQueue' = Append(PushTaskQueue, k) /\ settled' = settled
    BY <1>8 DEF FanOut
  <2>2. /\ DOMAIN PushTaskQueue' = 1..n /\ DOMAIN PushTaskQueue = 1..Len(PushTaskQueue)
        /\ Len(PushTaskQueue) \in Nat
        /\ \A j \in DOMAIN PushTaskQueue : PushTaskQueue'[j] = PushTaskQueue[j]
        /\ PushTaskQueue'[n] = k
    BY <1>1, <1>2, <1>8, <2>1, VoiceNumbers, QueueGrows
  <2>3. /\ n \in DOMAIN PushTaskQueue'
        /\ \A j : j \in DOMAIN PushTaskQueue' <=> j \in DOMAIN PushTaskQueue \/ j = n
    BY <2>2
  <2> HIDE DEF n
  <2>4. \A x : x # k => Queued(x)' = Queued(x)
    BY <2>2, <2>3 DEF Queued
  <2>5. Queued(k)' = {n}
    BY <1>3, <2>2, <2>3 DEF Queued
  <2>6. \A x : Ended(x)' = Ended(x)
    BY <2>1 DEF Ended
  <2>7. Conserved(k)'
    BY <1>3, <1>5, <1>7, <2>3, <2>5, <2>6 DEF Conserved, Once, QueuedOnce
  <2>8. ASSUME NEW x \in Task, x # k PROVE Conserved(x)'
    <3>1. Conserved(x)
      BY DEF TasksInv
    <3> QED BY <1>5, <1>6, <2>4, <2>6, <2>8, <3>1, TaskStays
  <2> QED BY <2>7, <2>8 DEF TasksInv
<1>9. CASE ~(Len(PushTaskQueue) < TaskCap)
  <2>1. settled' = [settled EXCEPT !["dropped"] = @ \cup {k}] /\ PushTaskQueue' = PushTaskQueue
    BY <1>9 DEF FanOut
  <2>2. \A x : Queued(x)' = Queued(x)
    BY <2>1 DEF Queued
  <2>3. \A x : x # k => Ended(x)' = Ended(x)
    BY <1>1, <2>1 DEF Ended
  <2>4. Ended(k)' = {"dropped"} /\ "dropped" \in Ends
    BY <1>1, <1>3, <2>1 DEF Ended, Ends
  <2>5. Conserved(k)'
    BY <1>3, <1>5, <1>7, <2>2, <2>4 DEF Conserved, Once, EndedOnce
  <2>6. ASSUME NEW x \in Task, x # k PROVE Conserved(x)'
    <3>1. Conserved(x)
      BY DEF TasksInv
    <3> QED BY <1>5, <1>6, <2>2, <2>3, <2>6, <3>1, TaskStays
  <2> QED BY <2>5, <2>6 DEF TasksInv
<1> QED BY <1>8, <1>9

\* A worker takes the first task; the others move up.
LEMMA TakeTaskConserves ==
  ASSUME VoiceTypeOK, TasksInv, NEW w \in Workers, TakeTask(w)
  PROVE  TasksInv'
<1>0. PICK k : k = Head(PushTaskQueue)
  OBVIOUS
<1>1. /\ PushTaskQueue \in Seq(Task) /\ Len(PushTaskQueue) <= TaskCap /\ PushTaskQueue # <<>>
      /\ DOMAIN work = Workers /\ work[w] = <<>>
      /\ work' = [work EXCEPT ![w] = <<k>>]
      /\ PushTaskQueue' = Tail(PushTaskQueue)
      /\ UNCHANGED <<fanout, audience, settled>>
  BY <1>0 DEF TakeTask, VoiceTypeOK
<1>2. /\ k \in Task /\ k = PushTaskQueue[1]
      /\ Len(PushTaskQueue) \in Nat \ {0} /\ DOMAIN PushTaskQueue = 1..Len(PushTaskQueue)
      /\ DOMAIN PushTaskQueue' = 1..(Len(PushTaskQueue) - 1)
      /\ \A j \in DOMAIN PushTaskQueue' : PushTaskQueue'[j] = PushTaskQueue[j + 1]
  BY <1>0, <1>1, VoiceNumbers, QueueShrinks
<1>3. Queued(k) = {1} /\ Holding(k) = {} /\ Working(k) = {} /\ Ended(k) = {} /\ Chosen(k)
  <2>1. 1 \in Queued(k) /\ Conserved(k)
    BY <1>2 DEF Queued, TasksInv
  <2>2. QueuedOnce(k) /\ Chosen(k)
    BY <2>1 DEF Conserved, Once, Nowhere, HeldOnce, WorkedOnce, EndedOnce
  <2> QED BY <2>1, <2>2 DEF QueuedOnce
<1>4. \A x : Chosen(x)' = Chosen(x) /\ Holding(x)' = Holding(x) /\ Ended(x)' = Ended(x)
  BY <1>1 DEF Chosen, Holding, Ended
<1>5. \A x : Working(x)' = IF x = k THEN Working(x) \cup {w} ELSE Working(x)
  <2>1. \A x : <<x>> # <<>> /\ (<<k>> = <<x>> => k = x)
    <3>1. ASSUME NEW x, <<k>> = <<x>> PROVE k = x
      <4>1. <<k>>[1] = k /\ <<x>>[1] = x
        OBVIOUS
      <4> QED BY <3>1, <4>1
    <3> QED BY <3>1
  <2>2. work'[w] = <<k>> /\ \A v \in Workers : v # w => work'[v] = work[v]
    BY <1>1
  <2> QED BY <1>1, <2>1, <2>2 DEF Working
<1>6. \A x : \A j : j \in Queued(x)' <=> j \in 1..(Len(PushTaskQueue) - 1) /\ j + 1 \in Queued(x)
  <2>1. \A j \in 1..(Len(PushTaskQueue) - 1) : j + 1 \in 1..Len(PushTaskQueue)
    BY <1>2
  <2> QED BY <1>2, <2>1 DEF Queued
<1>7. Queued(k)' = {}
  BY <1>2, <1>3, <1>6
<1>8. Working(k)' = {w}
  BY <1>3, <1>5
<1>9. Conserved(k)'
  BY <1>3, <1>4, <1>7, <1>8 DEF Conserved, Once, WorkedOnce
<1>10. ASSUME NEW x \in Task, x # k PROVE Conserved(x)'
  <2>1. Conserved(x)
    BY DEF TasksInv
  <2>2. Working(x)' = Working(x)
    BY <1>5, <1>10
  <2>3. CASE Queued(x) = {}
    <3>1. Queued(x)' = {}
      BY <1>6, <2>3
    <3> QED BY <1>4, <2>1, <2>2, <2>3, <3>1, TaskStays
  <2>4. CASE QueuedOnce(x) /\ Chosen(x)
    <3>1. PICK j \in DOMAIN PushTaskQueue : Queued(x) = {j}
      BY <2>4 DEF QueuedOnce
    <3>2. PushTaskQueue[j] = x
      BY <3>1 DEF Queued
    <3>3. j \in 2..Len(PushTaskQueue)
      BY <1>2, <1>10, <3>2
    <3>4. j - 1 \in DOMAIN PushTaskQueue' /\ (j - 1) + 1 = j
      BY <1>2, <3>3
    <3>5. \A n \in 1..(Len(PushTaskQueue) - 1) : n + 1 = j => n = j - 1
      BY <1>2, <3>3
    <3>6. Queued(x)' = {j - 1}
      BY <1>2, <1>6, <3>1, <3>4, <3>5
    <3> QED BY <1>4, <2>2, <2>4, <3>4, <3>6 DEF Conserved, Once, QueuedOnce
  <2> QED BY <2>1, <2>3, <2>4 DEF Conserved, Once, Nowhere, HeldOnce, WorkedOnce, EndedOnce
<1> QED BY <1>9, <1>10 DEF TasksInv

\* A worker is done with its task, one way or the other.
LEMMA EndTaskConserves ==
  ASSUME VoiceTypeOK, TasksInv, NEW w \in Workers, NEW k, EndTask(w, k)
  PROVE  TasksInv'
<1>1. /\ DOMAIN work = Workers /\ work[w] = <<k>> /\ work' = [work EXCEPT ![w] = <<>>]
      /\ settled \in [Ends -> SUBSET Task]
      /\ UNCHANGED <<fanout, audience, PushTaskQueue>>
  BY DEF EndTask, VoiceTypeOK
<1>2. PICK e \in Ends : settled' = [settled EXCEPT ![e] = @ \cup {k}]
  BY DEF EndTask, Ends
<1>3. k \in Task
  BY <1>1, HeldTask
<1>4. Working(k) = {w} /\ Holding(k) = {} /\ Queued(k) = {} /\ Ended(k) = {} /\ Chosen(k)
  <2>1. w \in Working(k) /\ Conserved(k)
    BY <1>1, <1>3 DEF Working, TasksInv
  <2>2. WorkedOnce(k) /\ Chosen(k)
    BY <2>1 DEF Conserved, Once, Nowhere, HeldOnce, QueuedOnce, EndedOnce
  <2> QED BY <2>1, <2>2 DEF WorkedOnce
<1>5. \A x : Chosen(x)' = Chosen(x) /\ Holding(x)' = Holding(x) /\ Queued(x)' = Queued(x)
  BY <1>1 DEF Chosen, Holding, Queued
<1>6. \A x : Working(x)' = Working(x) \ {w}
  <2>1. \A x : <<x>> # <<>>
    OBVIOUS
  <2>2. work'[w] = <<>> /\ \A v \in Workers : v # w => work'[v] = work[v]
    BY <1>1
  <2> QED BY <1>1, <2>1, <2>2 DEF Working
<1>7. \A x : x # k => w \notin Working(x)
  <2>1. \A x : <<k>> = <<x>> => k = x
    <3>1. ASSUME NEW x, <<k>> = <<x>> PROVE k = x
      <4>1. <<k>>[1] = k /\ <<x>>[1] = x
        OBVIOUS
      <4> QED BY <3>1, <4>1
    <3> QED BY <3>1
  <2> QED BY <1>1, <2>1 DEF Working
<1>8. \A x : Ended(x)' = IF x = k THEN Ended(x) \cup {e} ELSE Ended(x)
  BY <1>1, <1>2 DEF Ended
<1>9. Conserved(k)'
  <2>1. Working(k)' = {} /\ Ended(k)' = {e}
    BY <1>4, <1>6, <1>8
  <2> QED BY <1>4, <1>5, <2>1 DEF Conserved, Once, EndedOnce
<1>10. ASSUME NEW x \in Task, x # k PROVE Conserved(x)'
  <2>1. Conserved(x)
    BY DEF TasksInv
  <2>2. Working(x)' = Working(x) /\ Ended(x)' = Ended(x)
    BY <1>6, <1>7, <1>8, <1>10
  <2> QED BY <1>5, <2>1, <2>2, TaskStays
<1> QED BY <1>9, <1>10 DEF TasksInv

\* Every step conserves the tasks.
LEMMA TasksNext ==
  VoiceTypeOK /\ RecordingsWaitOnce /\ TasksInv /\ [VoiceNext]_vars => TasksInv'
<1> SUFFICES ASSUME VoiceTypeOK, RecordingsWaitOnce, TasksInv, [VoiceNext]_vars PROVE TasksInv'
  OBVIOUS
<1>1. ASSUME UNCHANGED <<fanout, audience, PushTaskQueue, work, settled>> PROVE TasksInv'
  <2>1. ASSUME NEW k \in Task PROVE Conserved(k)'
    <3>1. /\ Chosen(k)' = Chosen(k) /\ Holding(k)' = Holding(k) /\ Queued(k)' = Queued(k)
          /\ Working(k)' = Working(k) /\ Ended(k)' = Ended(k)
      BY <1>1 DEF Chosen, Holding, Queued, Working, Ended
    <3> QED BY <3>1, TaskStays DEF TasksInv
  <2> QED BY <2>1 DEF TasksInv
<1>2. ASSUME NEW m \in Messages, SaveRecording(m) \/ RefuseVoice(m) \/ SendMessage(m)
      PROVE  UNCHANGED <<fanout, audience, PushTaskQueue, work, settled>>
  BY <1>2 DEF SaveRecording, RefuseVoice, SendMessage
<1>4. ASSUME NEW i \in Consumers, Receive(i)
      PROVE  UNCHANGED <<fanout, audience, PushTaskQueue, work, settled>>
  BY <1>4 DEF Receive
<1>3. LockTaken \/ LockReleased \/ UNCHANGED vars
        => UNCHANGED <<fanout, audience, PushTaskQueue, work, settled>>
  BY DEF LockTaken, LockReleased, vars
<1> QED BY <1>1, <1>2, <1>3, <1>4, ReadRosterConserves, FanOutConserves, TakeTaskConserves,
           EndTaskConserves
        DEF VoiceNext, Consumer, Listen, Worker

\* There are no tasks at first.
LEMMA TasksInit == VoiceInit => TasksInv
<1> SUFFICES ASSUME VoiceInit, NEW k \in Task PROVE Conserved(k)
  BY DEF TasksInv
<1>1. k.msg \in Messages
  BY DEF Task
<1>2. ~Chosen(k)
  BY <1>1 DEF Chosen, VoiceInit
<1>3. Holding(k) = {} /\ Ended(k) = {}
  BY DEF VoiceInit, Holding, Ended
<1>4. Queued(k) = {}
  BY EmptySeq DEF VoiceInit, Queued
<1>5. Working(k) = {}
  <2>1. <<k>> # <<>>
    OBVIOUS
  <2> QED BY <2>1 DEF VoiceInit, Working
<1> QED BY <1>2, <1>3, <1>4, <1>5 DEF Conserved, Nowhere

\* The places of a task, of all kinds together.
LEMMA PlacesOfTask ==
  ASSUME NEW k, Conserved(k)
  PROVE  IF Chosen(k) THEN \E p \in Places(k) : Places(k) = {p} ELSE Places(k) = {}
<1>1. Places(k) = ({"consumer"} \X Holding(k)) \cup ({"queue"} \X Queued(k))
                    \cup ({"worker"} \X Working(k)) \cup ({"end"} \X Ended(k))
  BY DEF Places, Holding, Queued, Working, Ended
<1>2. CASE ~Chosen(k)
  BY <1>1, <1>2 DEF Conserved, Nowhere
<1>3. CASE HeldOnce(k) /\ Chosen(k)
  <2>1. PICK i : Holding(k) = {i}
    BY <1>3 DEF HeldOnce
  <2>2. Places(k) = {<<"consumer", i>>}
    BY <1>1, <1>3, <2>1 DEF HeldOnce
  <2> QED BY <1>3, <2>2
<1>4. CASE QueuedOnce(k) /\ Chosen(k)
  <2>1. PICK j : Queued(k) = {j}
    BY <1>4 DEF QueuedOnce
  <2>2. Places(k) = {<<"queue", j>>}
    BY <1>1, <1>4, <2>1 DEF QueuedOnce
  <2> QED BY <1>4, <2>2
<1>5. CASE WorkedOnce(k) /\ Chosen(k)
  <2>1. PICK w : Working(k) = {w}
    BY <1>5 DEF WorkedOnce
  <2>2. Places(k) = {<<"worker", w>>}
    BY <1>1, <1>5, <2>1 DEF WorkedOnce
  <2> QED BY <1>5, <2>2
<1>6. CASE EndedOnce(k) /\ Chosen(k)
  <2>1. PICK e : Ended(k) = {e}
    BY <1>6 DEF EndedOnce
  <2>2. Places(k) = {<<"end", e>>}
    BY <1>1, <1>6, <2>1 DEF EndedOnce
  <2> QED BY <1>6, <2>2
<1> QED BY <1>2, <1>3, <1>4, <1>5, <1>6 DEF Conserved, Once

\* Whoever is chosen to hear a recording has one task for it until the end, and
\* who is not has none: no consumer, queue or worker duplicates or loses one.
THEOREM TasksStayConserved == VoiceSpec => []TasksAreConserved
<1>1. TasksInv => TasksAreConserved
  <2> SUFFICES ASSUME TasksInv, NEW m \in Messages, NEW u \in Users
               PROVE  LET places == Places([msg |-> m, user |-> u])
                      IN  IF u \in audience[m] THEN \E p \in places : places = {p} ELSE places = {}
    BY DEF TasksAreConserved
  <2> DEFINE k == [msg |-> m, user |-> u]
  <2>1. k \in Task /\ k.msg = m /\ k.user = u
    BY DEF Task
  <2>2. Conserved(k) /\ (Chosen(k) <=> u \in audience[m])
    BY <2>1 DEF TasksInv, Chosen
  <2> HIDE DEF k
  <2>3. IF u \in audience[m] THEN \E p \in Places(k) : Places(k) = {p} ELSE Places(k) = {}
    BY <2>2, PlacesOfTask
  <2> QED BY <2>3 DEF k
<1>2. VoiceInit => VoiceTypeOK /\ RecordingsWaitOnce /\ TasksInv
  BY VoiceInitTypes, RecordingsInit, TasksInit
<1>3. VoiceTypeOK /\ RecordingsWaitOnce /\ TasksInv /\ [VoiceNext]_vars
        => (VoiceTypeOK /\ RecordingsWaitOnce /\ TasksInv)'
  BY VoiceNextTypes, RecordingsNext, TasksNext
<1> QED BY <1>1, <1>2, <1>3, PTL DEF VoiceSpec

-----------------------------------------------------------------------------
(* The delivery that the pipeline implements.  What PttDelivery calls taken,  *)
(* chosen and due, as expressions of the pipeline's state:                    *)

Taken == {m \in Messages : post[m] = "queued"}

Listened == {m \in Messages : post[m] = "queued" /\ m \notin Waiting}

Due == {k \in Task : k.user \in audience[k.msg] /\ \A e \in Ends : k \notin settled[e]}

\* Posting a recording takes it; its listeners are not chosen, since it is queued.
LEMMA SendMessageTakes ==
  ASSUME VoiceTypeOK, NEW m \in Messages, SendMessage(m)
  PROVE  Delivery!Take(m)
<1>1. /\ MsgQueue \in Seq(Messages)
      /\ post \in [Messages -> {"new", "sending", "queued", "refused"}]
  BY DEF VoiceTypeOK
<1>2. /\ post[m] = "sending"
      /\ \A x \in Messages : IF x = m THEN post'[x] = "queued" ELSE post'[x] = post[x]
      /\ UNCHANGED <<audience, settled>>
  BY <1>1 DEF SendMessage, GoOn
<1>3. m \notin Taken /\ Taken' = Taken \cup {m}
  BY <1>2 DEF Taken
<1>4. ToSet(MsgQueue') = ToSet(MsgQueue) \cup {m}
  <2>1. /\ DOMAIN MsgQueue' = 1..(Len(MsgQueue) + 1) /\ DOMAIN MsgQueue = 1..Len(MsgQueue)
        /\ Len(MsgQueue) \in Nat
        /\ \A j \in DOMAIN MsgQueue : MsgQueue'[j] = MsgQueue[j]
        /\ MsgQueue'[Len(MsgQueue) + 1] = m
    BY <1>1, VoiceNumbers, QueueGrows DEF SendMessage
  <2>2. DOMAIN MsgQueue' = DOMAIN MsgQueue \cup {Len(MsgQueue) + 1}
    BY <2>1
  <2> QED BY <2>1, <2>2 DEF ToSet
<1>7. Waiting' = Waiting \cup {m}
  BY <1>4 DEF Waiting, SendMessage
<1>5. Listened' = Listened
  BY <1>2, <1>7 DEF Listened
<1>6. Due' = Due
  BY <1>2 DEF Due
<1> QED BY <1>2, <1>3, <1>5, <1>6 DEF Delivery!Take, Taken, Listened, Waiting, Due

\* A recording that a consumer takes keeps waiting.
LEMMA ReceiveKeepsWaiting ==
  ASSUME VoiceTypeOK, RecordingsWaitOnce, NEW i \in Consumers, Receive(i)
  PROVE  UNCHANGED <<Taken, Listened, Due, settled>>
<1>1. MsgQueue \in Seq(Messages) /\ Len(MsgQueue) <= MsgCap /\ reading \in [Consumers -> SUBSET Messages]
  BY DEF VoiceTypeOK
<1>2. PICK m : m = MsgQueue[1]
  OBVIOUS
<1>3. /\ m = Head(MsgQueue) /\ 1 \in DOMAIN MsgQueue
      /\ Len(MsgQueue) \in Nat \ {0} /\ DOMAIN MsgQueue = 1..Len(MsgQueue)
      /\ DOMAIN MsgQueue' = 1..(Len(MsgQueue) - 1)
      /\ \A j \in DOMAIN MsgQueue' : MsgQueue'[j] = MsgQueue[j + 1]
  BY <1>1, <1>2, VoiceNumbers, QueueShrinks DEF Receive
<1>4. ToSet(MsgQueue) = ToSet(MsgQueue') \cup {m}
  <2>1. m \in ToSet(MsgQueue)
    BY <1>2, <1>3 DEF ToSet
  <2>2. ASSUME NEW j \in DOMAIN MsgQueue'
        PROVE  MsgQueue'[j] \in ToSet(MsgQueue)
    <3>1. j + 1 \in DOMAIN MsgQueue
      BY <1>3
    <3> QED BY <1>3, <3>1 DEF ToSet
  <2>3. ASSUME NEW n \in DOMAIN MsgQueue, MsgQueue[n] # m
        PROVE  MsgQueue[n] \in ToSet(MsgQueue')
    <3>1. n \in 2..Len(MsgQueue)
      BY <1>2, <1>3, <2>3
    <3>2. n - 1 \in DOMAIN MsgQueue' /\ (n - 1) + 1 = n
      BY <1>3, <3>1
    <3>3. MsgQueue'[n - 1] = MsgQueue[n]
      BY <1>3, <3>2
    <3> QED BY <3>2, <3>3 DEF ToSet
  <2> QED BY <2>1, <2>2, <2>3 DEF ToSet
<1>5. /\ reading[i] = {} /\ UNCHANGED <<post, audience, settled>>
      /\ \A n \in Consumers : reading'[n] = IF n = i THEN {m} ELSE reading[n]
  BY <1>1, <1>3 DEF Receive
<1>6. (UNION {reading[n] : n \in Consumers})' = (UNION {reading[n] : n \in Consumers}) \cup {m}
  BY <1>5
<1>7. Waiting' = Waiting
  BY <1>4, <1>6 DEF Waiting
<1> QED BY <1>5, <1>7 DEF Taken, Listened, Due

\* A recording whose consumer reads the roster has its listeners chosen, and is due
\* to each of them: nobody was chosen for it before, and nothing of it had ended.
LEMMA ReadRosterChooses ==
  ASSUME VoiceTypeOK, RecordingsWaitOnce, TasksInv, NEW i \in Consumers, NEW m \in reading[i],
         NEW roster \in SUBSET Users, ReadRoster(i, m, roster)
  PROVE  \E x \in Messages, listeners \in SUBSET Users : Delivery!Choose(x, listeners)
<1> DEFINE L == Listeners(m, roster)
<1>1. audience \in [Messages -> SUBSET Users] /\ reading \in [Consumers -> SUBSET Messages]
  BY DEF VoiceTypeOK
<1>2. m \in Messages
  BY <1>1
<1>3. L \in SUBSET Users /\ SenderOf[m] \notin L
  BY DEF Listeners
<1>4. /\ audience' = [audience EXCEPT ![m] = L]
      /\ UNCHANGED <<post, MsgQueue, settled>>
  BY DEF ReadRoster
<1> HIDE DEF L
<1>5. post[m] = "queued" /\ audience[m] = {}
  BY <1>2 DEF RecordingsWaitOnce
<1>6. m \in Waiting /\ Waiting' = Waiting \ {m}
  <2>1. \A n \in Consumers : reading'[n] = IF n = i THEN {} ELSE reading[n]
    BY <1>1 DEF ReadRoster
  <2>2. /\ \A n \in Consumers : m \in reading[n] => n = i
        /\ \A j \in DOMAIN MsgQueue : MsgQueue[j] # m
        /\ reading[i] = {m}
    BY DEF RecordingsWaitOnce, ReadRoster
  <2>3. (UNION {reading[n] : n \in Consumers})' = (UNION {reading[n] : n \in Consumers}) \ {m}
    BY <2>1, <2>2
  <2>4. m \notin ToSet(MsgQueue) /\ ToSet(MsgQueue)' = ToSet(MsgQueue)
    BY <1>4, <2>2 DEF ToSet
  <2>5. m \in UNION {reading[n] : n \in Consumers}
    OBVIOUS
  <2> QED BY <2>3, <2>4, <2>5 DEF Waiting
<1>7. Taken' = Taken /\ m \in Taken \ Listened /\ Listened' = Listened \cup {m}
  BY <1>2, <1>4, <1>5, <1>6 DEF Taken, Listened
<1>8. Due' = Due \cup [msg : {m}, user : L]
  <2>1. ASSUME NEW k \in Task PROVE k \in Due' <=> k \in Due \/ k \in [msg : {m}, user : L]
    <3>1. k.msg \in Messages /\ k.user \in Users /\ k = [msg |-> k.msg, user |-> k.user]
      BY DEF Task
    <3>2. k \in [msg : {m}, user : L] <=> k.msg = m /\ k.user \in L
      BY <3>1
    <3>3. CASE k.msg # m
      <4>1. audience'[k.msg] = audience[k.msg]
        BY <1>1, <1>4, <3>1, <3>3
      <4> QED BY <1>4, <3>2, <3>3, <4>1 DEF Due
    <3>4. CASE k.msg = m
      <4>1. Ended(k) = {}
        BY <1>5, <3>4 DEF TasksInv, Conserved, Chosen, Nowhere
      <4>2. \A e \in Ends : k \notin settled'[e]
        BY <1>4, <4>1 DEF Ended
      <4>3. audience'[k.msg] = L /\ audience[k.msg] = {}
        BY <1>1, <1>2, <1>4, <1>5, <3>4
      <4> QED BY <3>2, <3>4, <4>2, <4>3 DEF Due
    <3> QED BY <3>3, <3>4
  <2>2. Due' \in SUBSET Task /\ Due \in SUBSET Task /\ [msg : {m}, user : L] \in SUBSET Task
    BY <1>2, <1>3, FanOutType DEF Due
  <2> QED BY <2>1, <2>2
<1>9. PICK x \in Messages, listeners \in SUBSET Users : x = m /\ listeners = L
  BY <1>2, <1>3
<1>10. Delivery!Choose(x, listeners)
  BY <1>3, <1>4, <1>7, <1>8, <1>9 DEF Delivery!Choose, Taken, Listened, Due
<1> QED BY <1>10

\* A task that is somewhere on its way, and nowhere at an end, is due; when it
\* ends, it is settled in one way.
LEMMA EndSettles ==
  ASSUME VoiceTypeOK, NEW k \in Task, NEW e \in Ends, Chosen(k), Ended(k) = {},
         settled' = [settled EXCEPT ![e] = @ \cup {k}],
         UNCHANGED <<post, MsgQueue, reading, audience>>
  PROVE  k \in Due /\ Delivery!Settle(k, e)
<1>1. settled \in [Ends -> SUBSET Task]
  BY DEF VoiceTypeOK
<1>2. k \in Due
  BY DEF Due, Chosen, Ended
<1>3. \A x \in Task :
        (\A y \in Ends : x \notin settled'[y]) <=> x # k /\ \A y \in Ends : x \notin settled[y]
  BY <1>1
<1>4. Due' = Due \ {k}
  BY <1>3 DEF Due
<1>5. Taken' = Taken /\ Listened' = Listened
  BY DEF Taken, Listened, Waiting
<1> QED BY <1>2, <1>4, <1>5 DEF Delivery!Settle, Taken, Listened, Waiting, Due

\* Every step of the pipeline is one of the delivery, or changes nothing of it.
LEMMA VoiceStepsDeliver ==
  VoiceTypeOK /\ RecordingsWaitOnce /\ TasksInv /\ [VoiceNext]_vars
    => [Delivery!DeliveryNext]_(Delivery!dvars)
<1> SUFFICES ASSUME VoiceTypeOK, RecordingsWaitOnce, TasksInv, [VoiceNext]_vars
             PROVE  \/ \E m \in Messages : Delivery!Take(m)
                    \/ \E m \in Messages, L \in SUBSET Users : Delivery!Choose(m, L)
                    \/ \E k \in Due, e \in Ends : Delivery!Settle(k, e)
                    \/ UNCHANGED <<Taken, Listened, Due, settled>>
  BY DEF Delivery!DeliveryNext, Delivery!dvars, Delivery!Outcomes, Ends, Taken, Listened, Due
<1>1. ASSUME NEW m \in Messages, SaveRecording(m) \/ RefuseVoice(m)
      PROVE  UNCHANGED <<Taken, Listened, Due, settled>>
  <2>1. /\ UNCHANGED <<MsgQueue, reading, audience, settled>>
        /\ \A x \in Messages : post'[x] = "queued" <=> post[x] = "queued"
    BY <1>1 DEF SaveRecording, RefuseVoice, GoOn, VoiceTypeOK
  <2> QED BY <2>1 DEF Taken, Listened, Waiting, Due
<1>2. ASSUME NEW i \in Consumers, NEW k \in fanout[i], FanOut(i, k)
      PROVE  \/ \E e \in Ends : k \in Due /\ Delivery!Settle(k, e)
             \/ UNCHANGED <<Taken, Listened, Due, settled>>
  <2>1. UNCHANGED <<post, MsgQueue, reading, audience>>
    BY <1>2 DEF FanOut
  <2>2. CASE settled' = settled
    BY <2>1, <2>2 DEF Taken, Listened, Waiting, Due
  <2>3. CASE settled' = [settled EXCEPT !["dropped"] = @ \cup {k}]
    <3>1. k \in Task /\ i \in Holding(k)
      BY DEF VoiceTypeOK, Holding
    <3>2. Chosen(k) /\ Ended(k) = {}
      BY <3>1 DEF TasksInv, Conserved, Once, Nowhere, HeldOnce, QueuedOnce, WorkedOnce, EndedOnce
    <3> QED BY <2>1, <2>3, <3>1, <3>2, EndSettles DEF Ends
  <2> QED BY <1>2, <2>2, <2>3 DEF FanOut
<1>3. ASSUME NEW w \in Workers, TakeTask(w)
      PROVE  UNCHANGED <<Taken, Listened, Due, settled>>
  BY <1>3 DEF TakeTask, Taken, Listened, Waiting, Due
<1>4. ASSUME NEW w \in Workers, NEW k, EndTask(w, k)
      PROVE  \E e \in Ends : k \in Due /\ Delivery!Settle(k, e)
  <2>1. k \in Task /\ w \in Working(k)
    BY <1>4, HeldTask DEF EndTask, Working
  <2>2. Chosen(k) /\ Ended(k) = {}
    BY <2>1 DEF TasksInv, Conserved, Once, Nowhere, HeldOnce, QueuedOnce, WorkedOnce, EndedOnce
  <2>3. PICK e \in Ends : settled' = [settled EXCEPT ![e] = @ \cup {k}]
    BY <1>4 DEF EndTask, Ends
  <2>4. UNCHANGED <<post, MsgQueue, reading, audience>>
    BY <1>4 DEF EndTask
  <2> QED BY <2>1, <2>2, <2>3, <2>4, EndSettles
<1>5. CASE LockTaken \/ LockReleased \/ UNCHANGED vars
  BY <1>5 DEF LockTaken, LockReleased, vars, Taken, Listened, Waiting, Due
<1> QED BY <1>1, <1>2, <1>3, <1>4, <1>5, SendMessageTakes, ReceiveKeepsWaiting, ReadRosterChooses
        DEF VoiceNext, Consumer, Listen, Worker

\* With any number of consumers and workers and queues of any length, the
\* pipeline delivers as PttDelivery promises: the listeners of a recording are
\* chosen once, without its sender, and each of them is settled once and for ever.
THEOREM VoiceImplementsDelivery == VoiceSpec => ImplementsDelivery
<1>1. VoiceInit => Delivery!DeliveryInit
  <2> SUFFICES ASSUME VoiceInit PROVE Delivery!DeliveryInit
    OBVIOUS
  <2>1. Taken = {} /\ Listened = {}
    BY DEF VoiceInit, Taken, Listened
  <2>2. Due = {}
    <3>1. \A k \in Task : k.msg \in Messages
      BY DEF Task
    <3> QED BY <3>1 DEF VoiceInit, Due
  <2> QED BY <2>1, <2>2
          DEF VoiceInit, Delivery!DeliveryInit, Delivery!Outcomes, Ends, Taken, Listened, Due
<1>2. VoiceInit => VoiceTypeOK /\ RecordingsWaitOnce /\ TasksInv
  BY VoiceInitTypes, RecordingsInit, TasksInit
<1>3. VoiceTypeOK /\ RecordingsWaitOnce /\ TasksInv /\ [VoiceNext]_vars
        => (VoiceTypeOK /\ RecordingsWaitOnce /\ TasksInv)'
  BY VoiceNextTypes, RecordingsNext, TasksNext
<1> QED BY <1>1, <1>2, <1>3, VoiceStepsDeliver, PTL
        DEF VoiceSpec, ImplementsDelivery, Delivery!DeliverySpec
=============================================================================
