-------------------------- MODULE BmsThreads_proofs --------------------------
(***************************************************************************)
(* Theorems about the threads around the processing core, for all queue    *)
(* sizes and all that the sensors and the button may do.                   *)
(***************************************************************************)
EXTENDS BmsThreads, FiniteSetTheorems, SequenceTheorems, TLAPS

-----------------------------------------------------------------------------
(* What is in the queues *)

Readable == [channel : Channels, valid : BOOLEAN, value : Int]

\* What the processing thread may be given: a valid reading is one of Samples.
Delivered == {s \in Readable : Samples(s.channel) # {} /\ (s.valid => s.value \in Samples(s.channel))}
Answers == {s \in Readable : Applied(s) \in Delivered}
Messages == {{s} : s \in Delivered}

\* A message carries exactly the reading that was taken since the last publication.
QueueInv ==
  /\ readings \subseteq Answers
  /\ newest \in [Channels -> Answers \cup {Nothing}]
  /\ sensorQueue \in Seq(Answers) /\ inputQueue \in Seq(Messages)
  /\ acq = "publish" => raw \in Messages
  /\ acq # "publish" => raw = {}
  /\ taken = {} \/ taken \in Messages
  /\ button \in BOOLEAN /\ level \in BOOLEAN

LEMMA AnswersApplied == \A e \in Environments : e.readings \subseteq Answers
<1> SUFFICES ASSUME NEW e \in Environments, NEW s \in e.readings PROVE s \in Answers OBVIOUS
<1>1. /\ s \in Readable /\ Samples(s.channel) # {}
      /\ s.valid => s.value \in Samples(s.channel) \/ (s.channel = "voltage" /\ s.value < 0)
  BY ThreadsAssumption DEF Readable
<1>2. CASE s.channel = "voltage" /\ s.value < 0
  <2>1. Applied(s) = [s EXCEPT !.valid = FALSE, !.value = 0] BY <1>2 DEF Applied
  <2>2. s.channel \in Channels /\ s \in [channel : Channels, valid : BOOLEAN, value : Int]
    BY <1>1 DEF Readable
  <2>3. /\ Applied(s) \in [channel : Channels, valid : BOOLEAN, value : Int]
        /\ Applied(s).channel = s.channel /\ Applied(s).valid = FALSE
    <3>1. Applied(s) = [channel |-> s.channel, valid |-> FALSE, value |-> 0] BY <2>1, <2>2
    <3> QED BY <2>2, <3>1
  <2> QED BY <1>1, <2>3 DEF Answers, Delivered, Readable
<1>3. CASE ~(s.channel = "voltage" /\ s.value < 0)
  <2>1. Applied(s) = s BY <1>3 DEF Applied
  <2> QED BY <1>1, <1>3, <2>1 DEF Answers, Delivered
<1> QED BY <1>2, <1>3

LEMMA NonEmptyAppend ==
  ASSUME NEW S, NEW q \in Seq(S), NEW x \in S
  PROVE  /\ Append(q, x) \in Seq(S) /\ Append(q, x) # <<>>
         /\ Len(Append(q, x)) = Len(q) + 1 /\ Append(q, x)[Len(q) + 1] = x
         /\ \A i \in 1..Len(q) : Append(q, x)[i] = q[i]
  OBVIOUS

LEMMA EnqueuedSeq ==
  ASSUME NEW S, NEW q \in Seq(S), NEW x \in S
  PROVE  Enqueued(q, x) \in Seq(S) /\ Enqueued(q, x) # <<>>
<1>0. QueueSize \in Nat \ {0} BY ThreadsAssumption
<1>1. CASE Len(q) >= QueueSize
  <2>1. q # <<>> BY <1>0, <1>1
  <2>2. Tail(q) \in Seq(S) BY <2>1
  <2>3. Enqueued(q, x) = Append(Tail(q), x) BY <1>1 DEF Enqueued
  <2> QED BY <2>2, <2>3, NonEmptyAppend
<1>2. CASE ~(Len(q) >= QueueSize)
  <2>1. Enqueued(q, x) = Append(q, x) BY <1>2 DEF Enqueued
  <2> QED BY <2>1, NonEmptyAppend
<1> QED BY <1>1, <1>2

LEMMA QueueInit == ThreadInit => QueueInv
<1> SUFFICES ASSUME ThreadInit PROVE QueueInv OBVIOUS
<1>1. PICK e \in Environments : readings = e.readings BY DEF ThreadInit
<1>2. readings \subseteq Answers BY <1>1, AnswersApplied
<1>3. <<>> \in Seq(Answers) /\ <<>> \in Seq(Messages) OBVIOUS
<1> QED BY <1>2, <1>3 DEF ThreadInit, QueueInv

LEMMA QueueNext == QueueInv /\ [ThreadNext]_threadVars => QueueInv'
<1> SUFFICES ASSUME QueueInv, [ThreadNext]_threadVars PROVE QueueInv' OBVIOUS
<1> USE DEF QueueInv
<1>1. ASSUME NEW ch \in Channels, OnTimer(ch) PROVE QueueInv'
  <2>1. PICK s \in readings : PushSensorSample(s) BY <1>1 DEF OnTimer
  <2>2. sensorQueue' \in Seq(Answers) BY <2>1, EnqueuedSeq DEF PushSensorSample
  <2> QED BY <2>1, <2>2 DEF PushSensorSample, sensorVars, acqVars, procVars, buttonVars
<1>2. CASE TimerReturns
  BY <1>2 DEF TimerReturns, ReleaseSensorBell, DebouncedButtonPressed, others, sensorVars, acqVars,
             procVars, buttonVars
<1>3. CASE AcqStep
  <2>1. CASE AcqTake
    <3> DEFINE h == sensorQueue[1]
    <3>1. h \in Answers /\ Tail(sensorQueue) \in Seq(Answers) BY <2>1 DEF AcqTake
    <3>2. raw' = {Applied(h)} BY <2>1 DEF AcqTake
    <3>3. raw' \in Messages BY <3>1, <3>2 DEF Answers, Messages
    <3> QED BY <2>1, <3>1, <3>3 DEF AcqTake, sensorVars, procVars, timerVars, buttonVars
  <2>2. CASE AcqPublish
    <3>1. inputQueue' \in Seq(Messages) BY <2>2, EnqueuedSeq DEF AcqPublish
    <3> QED BY <2>2, <3>1 DEF AcqPublish, MarksCleared, sensorVars, procVars, timerVars, buttonVars
  <2>3. CASE AcqAcquire \/ AcqSleep \/ AcqRing
    BY <2>3 DEF AcqAcquire, AcqSleep, AcqRing, AcqAgain, sensorVars, procVars, timerVars, buttonVars
  <2> QED BY <1>3, <2>1, <2>2, <2>3 DEF AcqStep
<1>4. CASE ProcStep
  <2>1. CASE ProcTake
    <3>1. inputQueue[1] \in Messages /\ Tail(inputQueue) \in Seq(Messages) BY <2>1 DEF ProcTake
    <3> QED BY <2>1, <3>1 DEF ProcTake, sensorVars, acqVars, timerVars, buttonVars
  <2>2. CASE ProcAcquire \/ ProcEvaluate \/ ProcSleep
    BY <2>2 DEF ProcAcquire, ProcEvaluate, ProcSleep, sensorVars, acqVars, timerVars, buttonVars
  <2> QED BY <1>4, <2>1, <2>2 DEF ProcStep
<1>5. CASE ButtonMoves \/ ButtonInterrupt \/ ButtonEdgeDetected \/ DebounceFires
  BY <1>5 DEF ButtonMoves, ButtonInterrupt, ButtonEdgeDetected, DebounceFires, others, sensorVars,
             acqVars, procVars, timerVars
<1>6. CASE Halted \/ UNCHANGED threadVars
  BY <1>6 DEF Halted, threadVars, sensorVars, acqVars, procVars, timerVars, buttonVars
<1> QED BY <1>1, <1>2, <1>3, <1>4, <1>5, <1>6 DEF ThreadNext

\* Each message in the queue of the processing thread marks one channel as new and no
\* other, whatever was in the queues and however the threads were preempted.
THEOREM MessagesMarkOne == ThreadSpec => []OneNewChannel
<1>1. QueueInv => OneNewChannel
  <2> SUFFICES ASSUME QueueInv, NEW i \in DOMAIN inputQueue
               PROVE  Cardinality(inputQueue[i]) = 1
    BY DEF OneNewChannel
  <2>0. inputQueue[i] \in Messages BY DEF QueueInv
  <2>1. PICK s : inputQueue[i] = {s} BY <2>0 DEF Messages
  <2> QED BY <2>1, FS_Singleton
<1> QED BY <1>1, QueueInit, QueueNext, PTL DEF ThreadSpec

-----------------------------------------------------------------------------
(* Notifications *)

\* No notification is lost: a thread sleeps on a queue with entries only while its
\* binary notification is set or about to be, although one may stand for several
\* entries and arrive while the thread is still draining.
THEOREM WakeupsAreKept == ThreadSpec => []NoLostWakeup
<1>1. ThreadInit => NoLostWakeup BY DEF ThreadInit, NoLostWakeup
<1>2. NoLostWakeup /\ [ThreadNext]_threadVars => NoLostWakeup'
  <2> SUFFICES ASSUME NoLostWakeup, [ThreadNext]_threadVars PROVE NoLostWakeup' OBVIOUS
  <2> USE DEF NoLostWakeup
  <2>1. ASSUME NEW ch \in Channels, OnTimer(ch) PROVE NoLostWakeup'
    BY <2>1 DEF OnTimer, PushSensorSample, sensorVars, acqVars, procVars
  <2>2. CASE TimerReturns
    BY <2>2 DEF TimerReturns, ReleaseSensorBell, DebouncedButtonPressed, others, acqVars, procVars
  <2>3. CASE AcqStep
    BY <2>3 DEF AcqStep, AcqAcquire, AcqTake, AcqSleep, AcqPublish, AcqRing, AcqAgain, procVars,
               timerVars
  <2>4. CASE ProcStep
    BY <2>4 DEF ProcStep, ProcAcquire, ProcTake, ProcEvaluate, ProcSleep, acqVars, timerVars
  <2>5. CASE ButtonMoves \/ ButtonInterrupt \/ ButtonEdgeDetected \/ DebounceFires
    BY <2>5 DEF ButtonMoves, ButtonInterrupt, ButtonEdgeDetected, DebounceFires, others, acqVars,
               procVars, timerVars
  <2>6. CASE Halted \/ UNCHANGED threadVars
    BY <2>6 DEF Halted, threadVars, acqVars, procVars, timerVars
  <2> QED BY <2>1, <2>2, <2>3, <2>4, <2>5, <2>6 DEF ThreadNext
<1> QED BY <1>1, <1>2, PTL DEF ThreadSpec

-----------------------------------------------------------------------------
(* The threads drive the core as Processing allows *)

\* The threads filter a reading, evaluate it and report the charger in the orders that
\* Processing allows and no other, so that all that is proved of Processing holds of
\* the threads: with queues, dropped samples and preemption.
THEOREM ThreadsDriveProcessing == ThreadSpec => ImplementsProcessing
<1>1. ThreadInit => Init BY DEF ThreadInit
<1>2. QueueInv /\ [ThreadNext]_threadVars => [Next]_vars
  <2> SUFFICES ASSUME QueueInv, [ThreadNext]_threadVars PROVE Next \/ UNCHANGED vars OBVIOUS
  <2>1. CASE ProcTake
    <3>1. inputQueue[1] \in Messages BY <2>1 DEF ProcTake, QueueInv
    <3>2. PICK s \in Delivered : inputQueue[1] = {s} BY <3>1 DEF Messages
    <3>3. \/ s.valid /\ FilterValid(s.channel, s.value)
          \/ ~s.valid /\ FilterInvalid(s.channel)
      BY <2>1, <3>2 DEF ProcTake
    <3>4. s.channel \in Channels /\ Samples(s.channel) # {} /\ Sample(s.channel)
      BY <3>3 DEF Delivered, Readable, Sample
    <3> QED BY <3>4 DEF Next
  <2>2. CASE ProcEvaluate BY <2>2 DEF ProcEvaluate, Next
  <2>3. CASE DebouncedButtonPressed BY <2>3 DEF DebouncedButtonPressed, QueueInv, Next
  <2>4. ASSUME NEW ch \in Channels, OnTimer(ch) PROVE UNCHANGED vars
    BY <2>4 DEF OnTimer, PushSensorSample
  <2>5. CASE AcqStep
    BY <2>5 DEF AcqStep, AcqAcquire, AcqTake, AcqSleep, AcqPublish, AcqRing
  <2>6. CASE ProcAcquire \/ ProcSleep \/ ReleaseSensorBell
    BY <2>6 DEF ProcAcquire, ProcSleep, ReleaseSensorBell
  <2>7. CASE ButtonMoves \/ ButtonInterrupt \/ ButtonEdgeDetected \/ DebounceFires
    BY <2>7 DEF ButtonMoves, ButtonInterrupt, ButtonEdgeDetected, DebounceFires
  <2>8. CASE Halted \/ UNCHANGED threadVars BY <2>8 DEF Halted, threadVars
  <2> QED BY <2>1, <2>2, <2>3, <2>4, <2>5, <2>6, <2>7, <2>8 DEF ThreadNext, TimerReturns, ProcStep
<1> QED BY <1>1, <1>2, QueueInit, QueueNext, PTL DEF ThreadSpec, ImplementsProcessing, Spec

-----------------------------------------------------------------------------
(* The two queues implement SampleFeed *)

MessageSamples(q) == [i \in DOMAIN q |-> TheOnly(q[i])]
Marked(m) == IF m = {} THEN <<>> ELSE <<TheOnly(m)>>
AppliedSamples(q) == [i \in DOMAIN q |-> Applied(q[i])]

Newest == [ch \in Channels |-> Applied(newest[ch])]
Pending == MessageSamples(inputQueue) \o Marked(raw) \o AppliedSamples(sensorQueue)
Working == IF taken = {} THEN Nothing ELSE TheOnly(taken)

LEMMA MessageOne == \A m \in Messages : TheOnly(m) \in Delivered /\ m = {TheOnly(m)}
<1> SUFFICES ASSUME NEW s \in Delivered PROVE TheOnly({s}) = s BY DEF Messages
<1> QED BY DEF TheOnly

LEMMA MessageSeq ==
  ASSUME NEW q \in Seq(Messages)
  PROVE  /\ MessageSamples(q) \in Seq(Delivered) /\ Len(MessageSamples(q)) = Len(q)
         /\ \A i \in 1..Len(q) : MessageSamples(q)[i] = TheOnly(q[i])
<1>1. Len(q) \in Nat /\ DOMAIN q = 1..Len(q) /\ \A i \in 1..Len(q) : q[i] \in Messages OBVIOUS
<1>2. MessageSamples(q) = [i \in 1..Len(q) |-> TheOnly(q[i])] BY <1>1 DEF MessageSamples
<1>3. MessageSamples(q) \in [1..Len(q) -> Delivered] BY <1>1, <1>2, MessageOne
<1> QED BY <1>1, <1>2, <1>3

LEMMA AppliedSeq ==
  ASSUME NEW q \in Seq(Answers)
  PROVE  /\ AppliedSamples(q) \in Seq(Delivered) /\ Len(AppliedSamples(q)) = Len(q)
         /\ \A i \in 1..Len(q) : AppliedSamples(q)[i] = Applied(q[i])
<1>1. Len(q) \in Nat /\ DOMAIN q = 1..Len(q) /\ \A i \in 1..Len(q) : q[i] \in Answers OBVIOUS
<1>2. AppliedSamples(q) = [i \in 1..Len(q) |-> Applied(q[i])] BY <1>1 DEF AppliedSamples
<1>3. AppliedSamples(q) \in [1..Len(q) -> Delivered] BY <1>1, <1>2 DEF Answers
<1> QED BY <1>1, <1>2, <1>3

\* A sequence is its head followed by its tail.
LEMMA HeadFirst ==
  ASSUME NEW S, NEW q \in Seq(S), q # <<>>
  PROVE  q = <<q[1]>> \o Tail(q) /\ q[1] \in S /\ Tail(q) \in Seq(S)
<1>1. Len(q) \in Nat \ {0} /\ Tail(q) \in Seq(S) /\ Len(Tail(q)) = Len(q) - 1
      /\ \A i \in 1..Len(Tail(q)) : Tail(q)[i] = q[i + 1]
  BY EmptySeq, HeadTailProperties
<1>2. q[1] \in S /\ <<q[1]>> \in Seq(S) BY <1>1
<1>3. /\ <<q[1]>> \o Tail(q) \in Seq(S) /\ Len(<<q[1]>> \o Tail(q)) = 1 + Len(Tail(q))
      /\ \A i \in 1..(1 + Len(Tail(q))) :
           (<<q[1]>> \o Tail(q))[i] = IF i <= 1 THEN <<q[1]>>[i] ELSE Tail(q)[i - 1]
  BY <1>1, <1>2, ConcatProperties
<1>4. ASSUME NEW i \in 1..Len(q) PROVE q[i] = (<<q[1]>> \o Tail(q))[i]
  <2>1. CASE i = 1 BY <1>1, <1>3, <2>1
  <2>2. CASE i # 1
    <3>1. i - 1 \in 1..Len(Tail(q)) /\ i \in 1..(1 + Len(Tail(q))) /\ ~(i <= 1) BY <1>1, <2>2
    <3>2. (<<q[1]>> \o Tail(q))[i] = Tail(q)[i - 1] BY <1>3, <3>1
    <3> QED BY <1>1, <3>1, <3>2
  <2> QED BY <2>1, <2>2
<1> QED BY <1>1, <1>2, <1>3, <1>4, SeqEqual

LEMMA TailMaps ==
  /\ \A q \in Seq(Messages) : q # <<>> => MessageSamples(Tail(q)) = Tail(MessageSamples(q))
  /\ \A q \in Seq(Answers) : q # <<>> => AppliedSamples(Tail(q)) = Tail(AppliedSamples(q))
<1>1. ASSUME NEW q \in Seq(Messages), q # <<>>
      PROVE  MessageSamples(Tail(q)) = Tail(MessageSamples(q))
  <2> DEFINE r == MessageSamples(q)
             t == MessageSamples(Tail(q))
  <2>1. r \in Seq(Delivered) /\ Len(r) = Len(q) /\ \A i \in 1..Len(q) : r[i] = TheOnly(q[i])
    BY MessageSeq
  <2>2. /\ Len(q) \in Nat \ {0} /\ Tail(q) \in Seq(Messages) /\ Len(Tail(q)) = Len(q) - 1
        /\ \A i \in 1..Len(Tail(q)) : Tail(q)[i] = q[i + 1]
    BY <1>1, EmptySeq, HeadTailProperties
  <2>3. /\ t \in Seq(Delivered) /\ Len(t) = Len(Tail(q))
        /\ \A i \in 1..Len(Tail(q)) : t[i] = TheOnly(Tail(q)[i])
    BY <2>2, MessageSeq
  <2> HIDE DEF r, t
  <2>4. r # <<>> BY <2>1, <2>2
  <2>5. /\ Tail(r) \in Seq(Delivered) /\ Len(Tail(r)) = Len(r) - 1
        /\ \A i \in 1..Len(Tail(r)) : Tail(r)[i] = r[i + 1]
    BY <2>1, <2>4, HeadTailProperties
  <2>6. \A i \in 1..Len(t) : t[i] = Tail(r)[i] BY <2>1, <2>2, <2>3, <2>5
  <2>7. t = Tail(r) BY <2>1, <2>2, <2>3, <2>5, <2>6, SeqEqual
  <2> QED BY <2>7 DEF r, t
<1>2. ASSUME NEW q \in Seq(Answers), q # <<>>
      PROVE  AppliedSamples(Tail(q)) = Tail(AppliedSamples(q))
  <2> DEFINE r == AppliedSamples(q)
             t == AppliedSamples(Tail(q))
  <2>1. r \in Seq(Delivered) /\ Len(r) = Len(q) /\ \A i \in 1..Len(q) : r[i] = Applied(q[i])
    BY AppliedSeq
  <2>2. /\ Len(q) \in Nat \ {0} /\ Tail(q) \in Seq(Answers) /\ Len(Tail(q)) = Len(q) - 1
        /\ \A i \in 1..Len(Tail(q)) : Tail(q)[i] = q[i + 1]
    BY <1>2, EmptySeq, HeadTailProperties
  <2>3. /\ t \in Seq(Delivered) /\ Len(t) = Len(Tail(q))
        /\ \A i \in 1..Len(Tail(q)) : t[i] = Applied(Tail(q)[i])
    BY <2>2, AppliedSeq
  <2> HIDE DEF r, t
  <2>4. r # <<>> BY <2>1, <2>2
  <2>5. /\ Tail(r) \in Seq(Delivered) /\ Len(Tail(r)) = Len(r) - 1
        /\ \A i \in 1..Len(Tail(r)) : Tail(r)[i] = r[i + 1]
    BY <2>1, <2>4, HeadTailProperties
  <2>6. \A i \in 1..Len(t) : t[i] = Tail(r)[i] BY <2>1, <2>2, <2>3, <2>5
  <2>7. t = Tail(r) BY <2>1, <2>2, <2>3, <2>5, <2>6, SeqEqual
  <2> QED BY <2>7 DEF r, t
<1> QED BY <1>1, <1>2

LEMMA AppendMaps ==
  /\ \A q \in Seq(Messages), m \in Messages :
       MessageSamples(Append(q, m)) = MessageSamples(q) \o <<TheOnly(m)>>
  /\ \A q \in Seq(Answers), s \in Answers :
       AppliedSamples(Append(q, s)) = AppliedSamples(q) \o <<Applied(s)>>
<1>1. ASSUME NEW q \in Seq(Messages), NEW m \in Messages
      PROVE  MessageSamples(Append(q, m)) = Append(MessageSamples(q), TheOnly(m))
  <2> DEFINE r == MessageSamples(q)
             t == MessageSamples(Append(q, m))
             x == TheOnly(m)
  <2>1. r \in Seq(Delivered) /\ Len(r) = Len(q) /\ \A i \in 1..Len(q) : r[i] = TheOnly(q[i])
    BY MessageSeq
  <2>2. /\ Append(q, m) \in Seq(Messages) /\ Len(Append(q, m)) = Len(q) + 1
        /\ \A i \in 1..Len(q) : Append(q, m)[i] = q[i]
        /\ Append(q, m)[Len(q) + 1] = m
    BY AppendProperties
  <2>3. /\ t \in Seq(Delivered) /\ Len(t) = Len(q) + 1
        /\ \A i \in 1..(Len(q) + 1) : t[i] = TheOnly(Append(q, m)[i])
    BY <2>2, MessageSeq
  <2>4. Len(q) \in Nat /\ x \in Delivered BY MessageOne
  <2>5. t[Len(q) + 1] = x /\ \A i \in 1..Len(q) : t[i] = r[i] BY <2>1, <2>2, <2>3, <2>4
  <2> HIDE DEF r, t, x
  <2>6. /\ Append(r, x) \in Seq(Delivered) /\ Len(Append(r, x)) = Len(r) + 1
        /\ \A i \in 1..Len(r) : Append(r, x)[i] = r[i]
        /\ Append(r, x)[Len(r) + 1] = x
    BY <2>1, <2>4, AppendProperties
  <2>7. ASSUME NEW i \in 1..Len(t) PROVE t[i] = Append(r, x)[i]
    <3>1. CASE i = Len(q) + 1 BY <2>1, <2>5, <2>6, <3>1
    <3>2. CASE i # Len(q) + 1
      <4>1. i \in 1..Len(q) BY <2>3, <2>4, <3>2
      <4> QED BY <2>1, <2>5, <2>6, <4>1
    <3> QED BY <3>1, <3>2
  <2>8. t = Append(r, x) BY <2>1, <2>3, <2>6, <2>7, SeqEqual
  <2> QED BY <2>8 DEF r, t, x
<1>2. ASSUME NEW q \in Seq(Answers), NEW s \in Answers
      PROVE  AppliedSamples(Append(q, s)) = Append(AppliedSamples(q), Applied(s))
  <2> DEFINE r == AppliedSamples(q)
             t == AppliedSamples(Append(q, s))
             x == Applied(s)
  <2>1. r \in Seq(Delivered) /\ Len(r) = Len(q) /\ \A i \in 1..Len(q) : r[i] = Applied(q[i])
    BY AppliedSeq
  <2>2. /\ Append(q, s) \in Seq(Answers) /\ Len(Append(q, s)) = Len(q) + 1
        /\ \A i \in 1..Len(q) : Append(q, s)[i] = q[i]
        /\ Append(q, s)[Len(q) + 1] = s
    BY AppendProperties
  <2>3. /\ t \in Seq(Delivered) /\ Len(t) = Len(q) + 1
        /\ \A i \in 1..(Len(q) + 1) : t[i] = Applied(Append(q, s)[i])
    BY <2>2, AppliedSeq
  <2>4. Len(q) \in Nat /\ x \in Delivered BY DEF Answers
  <2>5. t[Len(q) + 1] = x /\ \A i \in 1..Len(q) : t[i] = r[i] BY <2>1, <2>2, <2>3, <2>4
  <2> HIDE DEF r, t, x
  <2>6. /\ Append(r, x) \in Seq(Delivered) /\ Len(Append(r, x)) = Len(r) + 1
        /\ \A i \in 1..Len(r) : Append(r, x)[i] = r[i]
        /\ Append(r, x)[Len(r) + 1] = x
    BY <2>1, <2>4, AppendProperties
  <2>7. ASSUME NEW i \in 1..Len(t) PROVE t[i] = Append(r, x)[i]
    <3>1. CASE i = Len(q) + 1 BY <2>1, <2>5, <2>6, <3>1
    <3>2. CASE i # Len(q) + 1
      <4>1. i \in 1..Len(q) BY <2>3, <2>4, <3>2
      <4> QED BY <2>1, <2>5, <2>6, <4>1
    <3> QED BY <3>1, <3>2
  <2>8. t = Append(r, x) BY <2>1, <2>3, <2>6, <2>7, SeqEqual
  <2> QED BY <2>8 DEF r, t, x
<1>3. \A q \in Seq(Messages), m \in Messages :
        MessageSamples(q) \in Seq(Delivered) /\ TheOnly(m) \in Delivered
  BY MessageSeq, MessageOne
<1>4. \A q \in Seq(Answers), s \in Answers :
        AppliedSamples(q) \in Seq(Delivered) /\ Applied(s) \in Delivered
  BY AppliedSeq DEF Answers
<1> QED BY <1>1, <1>2, <1>3, <1>4, AppendIsConcat
\* Taking out the element between two sequences joins them.
LEMMA RemoveBetween ==
  ASSUME NEW S, NEW a \in Seq(S), NEW c \in Seq(S), NEW x \in S
  PROVE  Feed!RemoveAt((a \o <<x>>) \o c, Len(a) + 1) = a \o c
<1> DEFINE b == a \o <<x>>
           q == b \o c
           n == Len(a)
<1>1. <<x>> \in Seq(S) /\ Len(<<x>>) = 1 /\ n \in Nat OBVIOUS
<1>2. /\ b \in Seq(S) /\ Len(b) = n + 1
      /\ \A i \in 1..(n + 1) : b[i] = IF i <= n THEN a[i] ELSE <<x>>[i - n]
  BY <1>1, ConcatProperties
<1>3. /\ q \in Seq(S) /\ Len(q) = (n + 1) + Len(c)
      /\ \A i \in 1..((n + 1) + Len(c)) : q[i] = IF i <= n + 1 THEN b[i] ELSE c[i - (n + 1)]
  BY <1>2, ConcatProperties
<1> HIDE DEF b, q
<1>4. Len(c) \in Nat OBVIOUS
<1>5. SubSeq(q, 1, n) = a
  <2>1. \A i \in 1..n : q[i] = a[i] BY <1>1, <1>2, <1>3, <1>4
  <2>2. \A i \in 1..n : q[i] \in S BY <1>3, <1>4, <1>1
  <2>3. /\ SubSeq(q, 1, n) \in Seq(S) /\ Len(SubSeq(q, 1, n)) = n
        /\ \A i \in 1..n : SubSeq(q, 1, n)[i] = q[i]
    <3>1. /\ SubSeq(q, 1, n) \in Seq(S)
          /\ Len(SubSeq(q, 1, n)) = IF 1 <= n THEN (n - 1) + 1 ELSE 0
          /\ \A i \in 1..((n - 1) + 1) : SubSeq(q, 1, n)[i] = q[(1 + i) - 1]
      BY <1>1, <2>2, SubSeqProperties
    <3> HIDE DEF n
    <3> QED BY <1>1, <3>1
  <2> QED BY <1>1, <2>1, <2>3, SeqEqual
<1>6. SubSeq(q, n + 2, Len(q)) = c
  <2> DEFINE r == SubSeq(q, n + 2, Len(q))
  <2>1. \A i \in (n + 2)..Len(q) : q[i] \in S BY <1>1, <1>3, <1>4
  <2>2. /\ r \in Seq(S)
        /\ Len(r) = IF n + 2 <= Len(q) THEN (Len(q) - (n + 2)) + 1 ELSE 0
        /\ \A i \in 1..((Len(q) - (n + 2)) + 1) : r[i] = q[((n + 2) + i) - 1]
    <3>1. n + 2 \in Int /\ Len(q) \in Int BY <1>1, <1>3, <1>4
    <3> QED BY <2>1, <3>1, SubSeqProperties
  <2> HIDE DEF r, n
  <2>3. Len(r) = Len(c) BY <1>1, <1>3, <1>4, <2>2
  <2>4. ASSUME NEW i \in 1..Len(c) PROVE r[i] = c[i]
    <3>1. i \in 1..((Len(q) - (n + 2)) + 1) /\ ((n + 2) + i) - 1 = (n + 1) + i
      BY <1>1, <1>3, <1>4
    <3>2. r[i] = q[(n + 1) + i] BY <2>2, <3>1
    <3>3. /\ (n + 1) + i \in 1..((n + 1) + Len(c)) /\ ~((n + 1) + i <= n + 1)
          /\ ((n + 1) + i) - (n + 1) = i
      BY <1>1, <1>4
    <3>4. q[(n + 1) + i] = c[i] BY <1>3, <3>3
    <3> QED BY <3>2, <3>4
  <2>5. r = c BY <2>2, <2>3, <2>4, SeqEqual
  <2> QED BY <2>5 DEF r
<1>7. Feed!RemoveAt(q, n + 1) = SubSeq(q, 1, (n + 1) - 1) \o SubSeq(q, (n + 1) + 1, Len(q))
  BY DEF Feed!RemoveAt
<1>8. (n + 1) - 1 = n /\ (n + 1) + 1 = n + 2 BY <1>1
<1>9. Feed!RemoveAt(q, n + 1) = a \o c BY <1>5, <1>6, <1>7, <1>8
<1> QED BY <1>9 DEF b, q

\* The parts of Pending.
LEMMA PendingParts ==
  ASSUME QueueInv
  PROVE  /\ MessageSamples(inputQueue) \in Seq(Delivered) /\ Len(MessageSamples(inputQueue)) = Len(inputQueue)
         /\ Marked(raw) \in Seq(Delivered)
         /\ AppliedSamples(sensorQueue) \in Seq(Delivered) /\ Len(AppliedSamples(sensorQueue)) = Len(sensorQueue)
         /\ MessageSamples(inputQueue) \o Marked(raw) \in Seq(Delivered)
         /\ Pending \in Seq(Delivered)
<1>1. Marked(raw) \in Seq(Delivered)
  <2>1. CASE raw = {} BY <2>1 DEF Marked
  <2>2. CASE raw # {}
    <3>1. TheOnly(raw) \in Delivered BY <2>2, MessageOne DEF QueueInv
    <3> QED BY <2>2, <3>1 DEF Marked
  <2> QED BY <2>1, <2>2
<1>2. /\ MessageSamples(inputQueue) \in Seq(Delivered) /\ Len(MessageSamples(inputQueue)) = Len(inputQueue)
      /\ AppliedSamples(sensorQueue) \in Seq(Delivered) /\ Len(AppliedSamples(sensorQueue)) = Len(sensorQueue)
  BY MessageSeq, AppliedSeq DEF QueueInv
<1>3. MessageSamples(inputQueue) \o Marked(raw) \in Seq(Delivered) BY <1>1, <1>2, ConcatProperties
<1>4. Pending \in Seq(Delivered) BY <1>2, <1>3, ConcatProperties DEF Pending
<1> QED BY <1>1, <1>2, <1>3, <1>4

LEMMA Regroup ==
  ASSUME NEW S, NEW a \in Seq(S), NEW b \in Seq(S), NEW c \in Seq(S), NEW d \in Seq(S)
  PROVE  a \o ((b \o c) \o d) = (a \o b) \o (c \o d)
<1>1. c \o d \in Seq(S) BY ConcatProperties
<1>2. (b \o c) \o d = b \o (c \o d) BY ConcatAssociative
<1>3. (a \o b) \o (c \o d) = a \o (b \o (c \o d)) BY <1>1, ConcatAssociative
<1> QED BY <1>2, <1>3

\* A sample of a sensor joins the end; a full sensor queue loses its oldest one.
LEMMA PushGives ==
  ASSUME QueueInv, NEW s \in readings, PushSensorSample(s)
  PROVE  Feed!Give
<1> DEFINE A == MessageSamples(inputQueue) \o Marked(raw)
           B == AppliedSamples(sensorQueue)
           x == Applied(s)
           P == Append(Pending, x)
<1>0. QueueSize \in Nat \ {0} BY ThreadsAssumption
<1>1. s \in Answers /\ x \in Delivered BY DEF QueueInv, Answers
<1>2. /\ A \in Seq(Delivered) /\ B \in Seq(Delivered) /\ Len(B) = Len(sensorQueue)
      /\ Pending = A \o B /\ Pending \in Seq(Delivered) /\ <<x>> \in Seq(Delivered)
  BY <1>1, PendingParts DEF Pending
<1>3. inputQueue' = inputQueue /\ raw' = raw /\ sensorQueue' = Enqueued(sensorQueue, s)
  BY DEF PushSensorSample, acqVars
<1>4. Pending' = A \o AppliedSamples(Enqueued(sensorQueue, s)) BY <1>3 DEF Pending
<1>5. P = (A \o B) \o <<x>> BY <1>1, <1>2, AppendIsConcat
<1>s. sensorQueue \in Seq(Answers) BY DEF QueueInv
<1> HIDE DEF A, B, x
<1>6. \E c \in Seq(Delivered) : /\ Pending' = A \o (c \o <<x>>)
                                /\ Pending' \in Feed!MayLose(P)
  <2>1. CASE Len(sensorQueue) < QueueSize
    <3>1. Enqueued(sensorQueue, s) = Append(sensorQueue, s) BY <1>0, <1>s, <2>1 DEF Enqueued
    <3>2. Pending' = A \o (B \o <<x>>) BY <1>1, <1>4, <1>s, <3>1, AppendMaps DEF B, x
    <3>3. Pending' = P BY <1>2, <1>5, <3>2, ConcatAssociative
    <3> QED BY <1>2, <3>2, <3>3 DEF Feed!MayLose
  <2>2. CASE Len(sensorQueue) >= QueueSize
    <3> DEFINE C == Tail(B)
               h == B[1]
    <3>1. sensorQueue # <<>> /\ B # <<>> BY <1>0, <1>2, <1>s, <2>2
    <3>2. B = <<h>> \o C /\ h \in Delivered /\ C \in Seq(Delivered) BY <1>2, <3>1, HeadFirst
    <3>3. Enqueued(sensorQueue, s) = Append(Tail(sensorQueue), s) BY <2>2 DEF Enqueued
    <3>4. Tail(sensorQueue) \in Seq(Answers) BY <1>s, <3>1, HeadTailProperties
    <3>5. Pending' = A \o (C \o <<x>>)
      BY <1>1, <1>4, <1>s, <3>1, <3>3, <3>4, AppendMaps, TailMaps DEF B, x
    <3>h. <<h>> \in Seq(Delivered) BY <3>2
    <3> HIDE DEF C, h
    <3>6. P = (A \o <<h>>) \o (C \o <<x>>)
      <4>1. A \in Seq(Delivered) /\ B \in Seq(Delivered) /\ <<x>> \in Seq(Delivered) BY <1>2
      <4>2. P = A \o (B \o <<x>>)
        <5>1. (A \o B) \o <<x>> = A \o (B \o <<x>>) BY ONLY <4>1, ConcatAssociative
        <5> QED BY <1>5, <5>1
      <4>3. A \o ((<<h>> \o C) \o <<x>>) = (A \o <<h>>) \o (C \o <<x>>)
        <5>1. C \in Seq(Delivered) BY <3>2
        <5> QED BY ONLY <4>1, <3>h, <5>1, Regroup
      <4> QED BY <3>2, <4>2, <4>3
    <3>7. C \o <<x>> \in Seq(Delivered) BY <1>2, <3>2, ConcatProperties
    <3>8. Feed!RemoveAt(P, Len(A) + 1) = Pending'
      <4> DEFINE D == C \o <<x>>
      <4>1. D \in Seq(Delivered) BY <3>7
      <4> HIDE DEF D
      <4>2. Feed!RemoveAt((A \o <<h>>) \o D, Len(A) + 1) = A \o D
        <5>1. A \in Seq(Delivered) /\ h \in Delivered BY <1>2, <3>2
        <5> QED BY ONLY <5>1, <4>1, RemoveBetween
      <4> QED BY <3>5, <3>6, <4>2 DEF D
    <3>9. Len(A) + 1 \in 1..(Len(P) - QueueSize)
      <4>1. Len(P) = (Len(A) + Len(B)) + 1
        <5>1. Len(P) = Len(Pending) + 1 BY <1>1, <1>2, AppendProperties DEF x
        <5>2. Len(Pending) = Len(A) + Len(B) BY <1>2, ConcatProperties
        <5> QED BY <5>1, <5>2
      <4>2. Len(A) \in Nat /\ Len(B) \in Nat BY <1>2
      <4> HIDE DEF P
      <4> QED BY <1>0, <1>2, <2>2, <4>1, <4>2
    <3> HIDE DEF P
    <3>10. Pending' \in Feed!MayLose(P) BY <3>8, <3>9 DEF Feed!MayLose
    <3> QED BY <3>2, <3>5, <3>10
  <2>3. Len(sensorQueue) < QueueSize \/ Len(sensorQueue) >= QueueSize
    <3>1. Len(sensorQueue) \in Nat BY <1>s
    <3> QED BY <1>0, <3>1
  <2> QED BY <2>1, <2>2, <2>3
<1>7. Pending' # <<>> /\ Pending'[Len(Pending')] = x
  <2>1. PICK c \in Seq(Delivered) : Pending' = A \o (c \o <<x>>) BY <1>6
  <2>2. A \o c \in Seq(Delivered) BY <1>2, <2>1, ConcatProperties
  <2>3. Pending' = (A \o c) \o <<x>> BY <1>2, <2>1, ConcatAssociative
  <2>4. Pending' = Append(A \o c, x) BY <1>1, <2>2, <2>3, AppendIsConcat DEF x
  <2> QED BY <1>1, <2>2, <2>4, AppendProperties DEF x
<1>8. Newest' = [Newest EXCEPT ![x.channel] = x]
  <2>1. x.channel = s.channel /\ s.channel \in Channels
    BY <1>1 DEF x, Applied, Answers, Readable
  <2>2. newest' = [newest EXCEPT ![s.channel] = s] BY DEF PushSensorSample
  <2>3. \A ch \in Channels : newest'[ch] = IF ch = s.channel THEN s ELSE newest[ch]
    BY <2>1, <2>2 DEF QueueInv
  <2>4. Newest' = [ch \in Channels |-> Applied(newest'[ch])] BY DEF Newest
  <2>5. [Newest EXCEPT ![s.channel] = x] = [ch \in Channels |-> IF ch = s.channel THEN x ELSE Applied(newest[ch])]
    BY DEF Newest
  <2> QED BY <2>1, <2>3, <2>4, <2>5 DEF x
<1>9. Working' = Working BY DEF PushSensorSample, procVars, Working
<1>10. Pending' \in Feed!MayLose(Append(Pending, x)) BY <1>6
<1> QED BY <1>7, <1>8, <1>9, <1>10
        DEF Feed!Give, Feed!Last, Newest, Pending, Working, MessageSamples, Marked, AppliedSamples

\* Taking a sample from the sensor queue moves it within Pending, not in its order.
LEMMA TakeStutters ==
  ASSUME QueueInv, AcqTake
  PROVE  Pending' = Pending
<1> DEFINE F == MessageSamples(inputQueue)
           B == AppliedSamples(sensorQueue)
           x == Applied(sensorQueue[1])
<1>1. raw = {} /\ sensorQueue # <<>> /\ sensorQueue \in Seq(Answers) BY DEF AcqTake, QueueInv
<1>2. F \in Seq(Delivered) /\ B \in Seq(Delivered) /\ Len(B) = Len(sensorQueue) BY PendingParts
<1>3. B = <<x>> \o Tail(B) /\ x \in Delivered /\ Tail(B) \in Seq(Delivered)
  <2>1. Len(sensorQueue) \in Nat \ {0} BY <1>1, EmptySeq
  <2>2. B[1] = x BY <1>1, <2>1, AppliedSeq
  <2>3. B # <<>> BY <1>2, <2>1
  <2> HIDE DEF B, x
  <2> QED BY <1>2, <2>2, <2>3, HeadFirst
<1>4. inputQueue' = inputQueue /\ raw' = {x} /\ sensorQueue' = Tail(sensorQueue)
  BY <1>1 DEF AcqTake
<1>5. AppliedSamples(sensorQueue') = Tail(B) BY <1>1, <1>4, TailMaps
<1>6. Marked(raw') = <<x>> /\ Marked(raw) = <<>>
  <2>1. {x} # {} /\ TheOnly({x}) = x BY DEF TheOnly
  <2> QED BY <1>1, <1>4, <2>1 DEF Marked
<1>7. Pending' = (F \o <<x>>) \o Tail(B) BY <1>4, <1>5, <1>6 DEF Pending
<1>8. Pending = (F \o <<>>) \o B BY <1>6 DEF Pending
<1> HIDE DEF F, B, x
<1>9. F \o <<>> = F BY <1>2, ConcatEmptySeq
<1>10. <<x>> \in Seq(Delivered) BY <1>3
<1> QED BY <1>2, <1>3, <1>7, <1>8, <1>9, <1>10, ConcatAssociative

\* Publishing moves a sample too; a full input queue loses its oldest one.
LEMMA PublishLoses ==
  ASSUME QueueInv, AcqPublish
  PROVE  Pending' \in Feed!MayLose(Pending)
<1> DEFINE F == MessageSamples(inputQueue)
           B == AppliedSamples(sensorQueue)
           x == TheOnly(raw)
<1>0. QueueSize \in Nat \ {0} BY ThreadsAssumption
<1>1. raw \in Messages /\ inputQueue \in Seq(Messages) BY DEF AcqPublish, QueueInv
<1>2. x \in Delivered /\ raw # {} BY <1>1, MessageOne
<1>3. /\ F \in Seq(Delivered) /\ Len(F) = Len(inputQueue)
      /\ B \in Seq(Delivered) /\ <<x>> \in Seq(Delivered)
  BY <1>2, PendingParts
<1>4. /\ inputQueue' = Enqueued(inputQueue, raw) /\ raw' = {}
      /\ sensorQueue' = sensorQueue
  BY DEF AcqPublish, MarksCleared
<1>5. Pending = (F \o <<x>>) \o B BY <1>2 DEF Pending, Marked
<1>6. Pending' = (MessageSamples(Enqueued(inputQueue, raw)) \o <<>>) \o B
  BY <1>4 DEF Pending, Marked
<1>7. CASE Len(inputQueue) < QueueSize
  <2>1. Enqueued(inputQueue, raw) = Append(inputQueue, raw) BY <1>0, <1>1, <1>7 DEF Enqueued
  <2>2. MessageSamples(Enqueued(inputQueue, raw)) = F \o <<x>> BY <1>1, <2>1, AppendMaps
  <2> HIDE DEF F, B, x
  <2>3. F \o <<x>> \in Seq(Delivered) BY <1>3, ConcatProperties
  <2>4. (F \o <<x>>) \o <<>> = F \o <<x>> BY <2>3, ConcatEmptySeq
  <2>5. Pending' = Pending BY <1>5, <1>6, <2>2, <2>4
  <2> QED BY <2>5 DEF Feed!MayLose
<1>8. CASE Len(inputQueue) >= QueueSize
  <2> DEFINE C == Tail(F)
             h == F[1]
  <2>1. inputQueue # <<>> /\ F # <<>> BY <1>0, <1>1, <1>3, <1>8
  <2>2. Enqueued(inputQueue, raw) = Append(Tail(inputQueue), raw) BY <1>8 DEF Enqueued
  <2>3. Tail(inputQueue) \in Seq(Messages) BY <1>1, <2>1, HeadTailProperties
  <2>4. MessageSamples(Enqueued(inputQueue, raw)) = C \o <<x>>
    BY <1>1, <2>1, <2>2, <2>3, AppendMaps, TailMaps
  <2> HIDE DEF F, B, x
  <2>5. F = <<h>> \o C /\ h \in Delivered /\ C \in Seq(Delivered) BY <1>3, <2>1, HeadFirst
  <2> HIDE DEF C, h
  <2> DEFINE D == (C \o <<x>>) \o B
  <2>6. <<h>> \in Seq(Delivered) /\ <<>> \in Seq(Delivered) BY <2>5
  <2>7. C \o <<x>> \in Seq(Delivered) /\ D \in Seq(Delivered) BY <1>3, <2>5, ConcatProperties
  <2>8. Pending' = D BY <1>6, <2>4, <2>7, ConcatEmptySeq
  <2>9. Pending = <<h>> \o D
    <3>1. F \o <<x>> = <<h>> \o (C \o <<x>>) BY <1>3, <2>5, <2>6, ConcatAssociative
    <3>2. (<<h>> \o (C \o <<x>>)) \o B = <<h>> \o ((C \o <<x>>) \o B)
      BY <1>3, <2>6, <2>7, ConcatAssociative
    <3> QED BY <1>5, <3>1, <3>2
  <2>10. Len(Pending) = (Len(F) + 1) + Len(B)
    <3>1. F \o <<x>> \in Seq(Delivered) /\ Len(F \o <<x>>) = Len(F) + 1 BY <1>3, ConcatProperties
    <3>2. Len((F \o <<x>>) \o B) = Len(F \o <<x>>) + Len(B) BY <1>3, <3>1, ConcatProperties
    <3> QED BY <1>5, <3>1, <3>2
  <2> HIDE DEF D
  <2>11. Feed!RemoveAt(Pending, 1) = D
    <3>1. <<>> \o <<h>> = <<h>> /\ <<>> \o D = D /\ Len(<<>>) + 1 = 1
      BY <2>6, <2>7, ConcatEmptySeq, EmptySeq
    <3>2. Feed!RemoveAt((<<>> \o <<h>>) \o D, Len(<<>>) + 1) = <<>> \o D
      BY <2>5, <2>6, <2>7, RemoveBetween
    <3> QED BY <2>9, <3>1, <3>2
  <2>12. 1 \in 1..(Len(Pending) - QueueSize)
    <3>1. Len(F) \in Nat /\ Len(B) \in Nat BY <1>3
    <3> QED BY <1>0, <1>3, <1>8, <2>10, <3>1
  <2> QED BY <2>8, <2>11, <2>12 DEF Feed!MayLose
<1>9. Len(inputQueue) \in Nat BY <1>1
<1> QED BY <1>0, <1>7, <1>8, <1>9

LEMMA TakeBegins ==
  ASSUME QueueInv, ProcTake
  PROVE  Feed!Begin
<1> DEFINE F == MessageSamples(inputQueue)
           E == Marked(raw)
           B == AppliedSamples(sensorQueue)
           h == TheOnly(inputQueue[1])
<1>1. taken = {} /\ inputQueue # <<>> /\ inputQueue \in Seq(Messages) BY DEF ProcTake, QueueInv
<1>2. /\ taken' = inputQueue[1] /\ inputQueue' = Tail(inputQueue)
      /\ raw' = raw /\ sensorQueue' = sensorQueue /\ newest' = newest
  BY DEF ProcTake, sensorVars, acqVars
<1>3. /\ F \in Seq(Delivered) /\ Len(F) = Len(inputQueue) /\ E \in Seq(Delivered)
      /\ B \in Seq(Delivered) /\ Pending = (F \o E) \o B
  BY PendingParts DEF Pending
<1>4. inputQueue[1] \in Messages /\ 1 \in 1..Len(inputQueue) /\ Len(inputQueue) # 0
  <2>1. Len(inputQueue) \in Nat \ {0} BY <1>1, EmptySeq
  <2> QED BY <1>1, <2>1
<1>5. F[1] = h /\ F # <<>> BY <1>1, <1>3, <1>4, MessageSeq
<1>6. Pending' = (Tail(F) \o E) \o B BY <1>1, <1>2, TailMaps DEF Pending
<1>7. Working = Nothing /\ Working' = h
  <2>1. inputQueue[1] # {} BY <1>4 DEF Messages
  <2> QED BY <1>1, <1>2, <2>1 DEF Working
<1> HIDE DEF F, E, B, h
<1>8. Pending = <<h>> \o Pending'
  <2>1. F = <<h>> \o Tail(F) /\ Tail(F) \in Seq(Delivered) /\ h \in Delivered
    BY <1>3, <1>5, HeadFirst
  <2>2. <<h>> \in Seq(Delivered) /\ Tail(F) \o E \in Seq(Delivered) BY <1>3, <2>1, ConcatProperties
  <2> DEFINE t == Tail(F)
  <2>3. t \in Seq(Delivered) /\ E \in Seq(Delivered) /\ B \in Seq(Delivered) BY <1>3, <2>1
  <2>4. F \o E = <<h>> \o (t \o E)
    <3> HIDE DEF t
    <3>1. (<<h>> \o t) \o E = <<h>> \o (t \o E) BY ONLY <2>2, <2>3, ConcatAssociative
    <3> QED BY <2>1, <3>1 DEF t
  <2>5. (<<h>> \o (t \o E)) \o B = <<h>> \o ((t \o E) \o B)
    <3> DEFINE y == t \o E
    <3>1. y \in Seq(Delivered) /\ <<h>> \in Seq(Delivered) /\ B \in Seq(Delivered) BY <2>2, <2>3
    <3> HIDE DEF t, y
    <3>2. (<<h>> \o y) \o B = <<h>> \o (y \o B) BY ONLY <3>1, ConcatAssociative
    <3> QED BY <3>2 DEF y
  <2> QED BY <1>3, <1>6, <2>4, <2>5
<1>9. h \in Delivered BY <1>4, MessageOne DEF h
<1>10. Pending' \in Seq(Delivered)
  <2>1. Tail(F) \in Seq(Delivered) BY <1>3, <1>5, HeadTailProperties
  <2>2. Tail(F) \o E \in Seq(Delivered) BY <1>3, <2>1, ConcatProperties
  <2> QED BY <1>3, <1>6, <2>2, ConcatProperties
<1>11. Pending # <<>> /\ Head(Pending) = h /\ Tail(Pending) = Pending'
  <2> DEFINE r == Pending'
             q == <<h>> \o r
  <2>1. r \in Seq(Delivered) BY <1>10
  <2>2. q \in Seq(Delivered) /\ q # <<>> /\ Head(q) = h /\ Tail(q) = r
    <3> HIDE DEF r
    <3>1. <<h>> \in Seq(Delivered) /\ Len(<<h>>) = 1 /\ <<h>>[1] = h BY <1>9
    <3>2. /\ q \in Seq(Delivered) /\ Len(q) = 1 + Len(r)
          /\ \A i \in 1..(1 + Len(r)) : q[i] = IF i <= 1 THEN <<h>>[i] ELSE r[i - 1]
      BY <2>1, <3>1, ConcatProperties
    <3> HIDE DEF q
    <3>3. Len(r) \in Nat BY <2>1
    <3>4. q # <<>> /\ q[1] = h BY <3>1, <3>2, <3>3
    <3>5. /\ Tail(q) \in Seq(Delivered) /\ Len(Tail(q)) = Len(q) - 1
          /\ \A i \in 1..Len(Tail(q)) : Tail(q)[i] = q[i + 1]
      BY <3>2, <3>4, HeadTailProperties
    <3>6. \A i \in 1..Len(r) : i + 1 \in 1..(1 + Len(r)) /\ ~(i + 1 <= 1) /\ (i + 1) - 1 = i
      BY <3>3
    <3>7. \A i \in 1..Len(r) : Tail(q)[i] = r[i] BY <3>2, <3>3, <3>5, <3>6
    <3>8. Tail(q) = r BY <2>1, <3>2, <3>3, <3>5, <3>7, SeqEqual
    <3> QED BY <3>2, <3>4, <3>8
  <2> QED BY <1>8, <2>2
<1>12. Newest' = Newest BY <1>2 DEF Newest
<1> QED BY <1>7, <1>11, <1>12
        DEF Feed!Begin, Newest, Pending, Working, MessageSamples, Marked, AppliedSamples, h

\* The two queues and the two threads keep the promise of SampleFeed: samples are
\* processed in the order in which the sensors gave them, each at most once, and one
\* is lost only when QueueSize newer ones wait behind it.
THEOREM QueuesFeedInOrder == ThreadSpec => ImplementsSampleFeed
<1>1. ThreadInit => Feed!FeedInit([ch \in Channels |-> Nothing])
  <2> SUFFICES ASSUME ThreadInit PROVE Feed!FeedInit([ch \in Channels |-> Nothing]) OBVIOUS
  <2>1. Applied(Nothing) = Nothing BY DEF Applied, Nothing
  <2>2. Newest = [ch \in Channels |-> Nothing] BY <2>1 DEF ThreadInit, Newest
  <2>3. Pending = <<>> /\ Working = Nothing
    <3>1. inputQueue = <<>> /\ sensorQueue = <<>> /\ raw = {} /\ taken = {} BY DEF ThreadInit
    <3>2. MessageSamples(<<>>) = <<>> /\ AppliedSamples(<<>>) = <<>> /\ Marked({}) = <<>>
      BY DEF MessageSamples, AppliedSamples, Marked
    <3>3. <<>> \o <<>> = <<>> BY <3>1, ConcatEmptySeq, EmptySeq
    <3> QED BY <3>1, <3>2, <3>3 DEF Pending, Working
  <2> QED BY <2>2, <2>3
          DEF Feed!FeedInit, Newest, Pending, Working, MessageSamples, Marked, AppliedSamples
<1>2. QueueInv /\ [ThreadNext]_threadVars => [Feed!FeedNext]_(Feed!feedVars)
  <2> SUFFICES ASSUME QueueInv, [ThreadNext]_threadVars
               PROVE  Feed!FeedNext \/ UNCHANGED Feed!feedVars
    OBVIOUS
  <2>u. Newest' = Newest /\ Pending' = Pending /\ Working' = Working => UNCHANGED Feed!feedVars
    BY DEF Feed!feedVars, Newest, Pending, Working, MessageSamples, Marked, AppliedSamples
  <2>v. newest' = newest => Newest' = Newest BY DEF Newest
  <2>p. inputQueue' = inputQueue /\ raw' = raw /\ sensorQueue' = sensorQueue => Pending' = Pending
    BY DEF Pending
  <2>w. taken' = taken => Working' = Working BY DEF Working
  <2>1. ASSUME NEW ch \in Channels, OnTimer(ch) PROVE Feed!FeedNext
    BY <2>1, PushGives DEF OnTimer, Feed!FeedNext
  <2>2. CASE AcqTake
    <3>1. newest' = newest /\ taken' = taken BY <2>2 DEF AcqTake, sensorVars, procVars
    <3> QED BY <2>2, <2>u, <2>v, <2>w, <3>1, TakeStutters
  <2>3. CASE AcqPublish
    <3>1. newest' = newest /\ taken' = taken BY <2>3 DEF AcqPublish, sensorVars, procVars
    <3>2. Pending' \in Feed!MayLose(Pending) /\ Newest' = Newest /\ Working' = Working
      BY <2>3, <2>v, <2>w, <3>1, PublishLoses
    <3> QED BY <3>2
            DEF Feed!FeedNext, Feed!Lose, Newest, Pending, Working, MessageSamples, Marked,
                AppliedSamples
  <2>4. CASE ProcTake BY <2>4, TakeBegins DEF Feed!FeedNext
  <2>5. CASE ProcEvaluate
    <3>1. /\ newest' = newest /\ inputQueue' = inputQueue /\ raw' = raw
          /\ sensorQueue' = sensorQueue /\ taken # {} /\ taken' = {}
      BY <2>5 DEF ProcEvaluate, sensorVars, acqVars
    <3>2. Working # Nothing
      <4>1. Working \in Delivered BY <3>1, MessageOne DEF QueueInv, Working
      <4>2. Working.channel \in Channels BY <4>1 DEF Delivered, Readable
      <4> QED BY <4>2 DEF Nothing, Channels
    <3>3. Working' = Nothing BY <3>1 DEF Working
    <3> QED BY <2>v, <2>p, <3>1, <3>2, <3>3
            DEF Feed!FeedNext, Feed!Finish, Newest, Pending, Working, MessageSamples, Marked,
                AppliedSamples
  <2>6. CASE \/ AcqAcquire \/ AcqSleep \/ AcqRing \/ ProcAcquire \/ ProcSleep
             \/ TimerReturns \/ ButtonMoves \/ ButtonInterrupt \/ ButtonEdgeDetected
             \/ DebounceFires \/ Halted \/ UNCHANGED threadVars
    <3>1. UNCHANGED <<newest, inputQueue, raw, sensorQueue, taken>>
      BY <2>6 DEF AcqAcquire, AcqSleep, AcqRing, ProcAcquire, ProcSleep, TimerReturns,
                  ReleaseSensorBell, DebouncedButtonPressed, ButtonMoves, ButtonInterrupt,
                  ButtonEdgeDetected, DebounceFires, Halted, threadVars, others, sensorVars,
                  acqVars, procVars
    <3> QED BY <2>u, <2>v, <2>p, <2>w, <3>1
  <2> QED BY <2>1, <2>2, <2>3, <2>4, <2>5, <2>6 DEF ThreadNext, AcqStep, ProcStep
<1> QED BY <1>1, <1>2, QueueInit, QueueNext, PTL DEF ThreadSpec, ImplementsSampleFeed
=============================================================================
