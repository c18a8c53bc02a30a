----------------------------- MODULE BmsThreads -----------------------------
(***************************************************************************)
(* The application's threads around the processing core:                   *)
(*   - the timer task, which runs the sampling callbacks and the debounce  *)
(*     callback one at a time (acquisition_thread.cpp, main.cpp),          *)
(*   - the acquisition thread, which drains the sensor queue and publishes *)
(*     one message per sample,                                             *)
(*   - the processing thread, which drains its input queue,                *)
(*   - the button interrupt and the work queue that starts the debounce    *)
(*     timer.                                                              *)
(* A notification is binary: releasing it twice wakes its thread once.     *)
(* Threads may be preempted between any two locked sections, so every      *)
(* locked section is an action.  Values that a message does not mark as    *)
(* new are never read, so a message is the set of its new readings.        *)
(***************************************************************************)
EXTENDS Processing, SequencesExt

CONSTANTS
  Environments,     \* what the sensors may answer, and how often the button moves
  QueueSize,        \* kSensorQueueSize, kQueueDepth
  WorkSize          \* entries of the work queue

Reading(ch, valid, x) == [channel |-> ch, valid |-> valid, value |-> x]

ASSUME ThreadsAssumption ==
  /\ {QueueSize, WorkSize} \subseteq Nat \ {0}
  /\ \A e \in Environments :
       /\ e.moves \in Nat
       /\ \A s \in e.readings :
            /\ s \in [channel : Channels, valid : BOOLEAN, value : Int]
            /\ Samples(s.channel) # {}
            /\ s.valid => s.value \in Samples(s.channel) \/ (s.channel = "voltage" /\ s.value < 0)

VARIABLES
  readings,                  \* what the sensors may answer
  newest,                    \* the last answer of each sensor
  sensorQueue, sensorBell,   \* sensor_queue_ and its notification
  acq, raw,                  \* acquisition thread: where it is; raw_inputs_ marked new
  inputQueue, inputBell,     \* queue_ and its notification
  proc, taken,               \* processing thread: where it is; the message it works on
  timer, level,              \* timer task: the callback it is in; the level read
  button, moves,             \* the input pin; how often it will still change
  edge, work, armed,         \* pending interrupt, queued work, debounce timer running
  touched, crashed           \* history: the button moved; PW_CRASH

timerVars == <<timer, level>>
acqVars == <<acq, raw>>
procVars == <<proc, taken>>
buttonVars == <<button, moves, edge, work, armed, touched, crashed>>
sensorVars == <<readings, newest>>
threadVars == <<vars, sensorVars, sensorQueue, sensorBell, acqVars, inputQueue, inputBell,
                procVars, timerVars, buttonVars>>

ThreadInit ==
  /\ Init
  /\ \E e \in Environments : readings = e.readings /\ moves = e.moves
  /\ newest = [ch \in Channels |-> Nothing]
  /\ sensorQueue = <<>> /\ sensorBell = FALSE
  /\ acq = "wait" /\ raw = {}
  /\ inputQueue = <<>> /\ inputBell = FALSE
  /\ proc = "wait" /\ taken = {}
  /\ timer = "idle" /\ level = FALSE
  /\ button \in BOOLEAN /\ edge = FALSE /\ work = 0 /\ armed = FALSE
  /\ touched = FALSE /\ crashed = FALSE

-----------------------------------------------------------------------------
(* Sampling callbacks, in the timer task *)

\* Mutated form of Enqueued: a full queue takes nothing.
Refusing(q, x) == IF Len(q) >= QueueSize THEN q ELSE Append(q, x)
Enqueued(q, x) == IF Len(q) >= QueueSize THEN Append(Tail(q), x) ELSE Append(q, x)

PushSensorSample(s) ==
  /\ timer = "idle" /\ timer' = "pushed"
  /\ newest' = [newest EXCEPT ![s.channel] = s]
  /\ sensorQueue' = Enqueued(sensorQueue, s)
  /\ UNCHANGED <<vars, readings, sensorBell, acqVars, inputQueue, inputBell, procVars, level,
                 buttonVars>>

OnTimer(ch) ==
  ~crashed /\ \E s \in {x \in readings : x.channel = ch} : PushSensorSample(s)

ReleaseSensorBell ==
  /\ timer = "pushed" /\ timer' = "idle"
  /\ sensorBell' = TRUE
  /\ UNCHANGED <<vars, sensorVars, sensorQueue, acqVars, inputQueue, inputBell, procVars, level,
                 buttonVars>>

-----------------------------------------------------------------------------
(* Acquisition thread *)

AcqAcquire ==
  /\ acq = "wait" /\ sensorBell
  /\ acq' = "drain" /\ sensorBell' = FALSE
  /\ UNCHANGED <<vars, sensorVars, sensorQueue, raw, inputQueue, inputBell, procVars, timerVars,
                 buttonVars>>

\* A negative voltage is not a voltage.
AnyVoltage(s) == [s EXCEPT !.value = IF s.channel = "voltage" /\ @ < 0 THEN 0 ELSE @]  \* mutated form
Applied(s) ==
  IF s.channel = "voltage" /\ s.value < 0 THEN [s EXCEPT !.valid = FALSE, !.value = 0] ELSE s

\* PopSensorSample and ApplySensorSample.
AcqTake ==
  /\ acq = "drain" /\ sensorQueue # <<>>
  /\ raw' = {s \in raw : s.channel # sensorQueue[1].channel} \cup {Applied(sensorQueue[1])}
  /\ sensorQueue' = Tail(sensorQueue)
  /\ acq' = "publish"
  /\ UNCHANGED <<vars, sensorVars, sensorBell, inputQueue, inputBell, procVars, timerVars,
                 buttonVars>>

AcqSleep ==
  /\ acq = "drain" /\ sensorQueue = <<>> /\ acq' = "wait"
  /\ UNCHANGED <<vars, sensorVars, sensorQueue, sensorBell, raw, inputQueue, inputBell, procVars,
                 timerVars, buttonVars>>

\* PublishRawInputs up to the end of the locked section of PostRawInputs.
MarksKept == raw        \* mutated form of MarksCleared
MarksCleared == {}
AcqPublish ==
  /\ acq = "publish" /\ acq' = "ring"
  /\ inputQueue' = Enqueued(inputQueue, raw)
  /\ raw' = MarksCleared
  /\ UNCHANGED <<vars, sensorVars, sensorQueue, sensorBell, inputBell, procVars, timerVars,
                 buttonVars>>

AcqOnce == "wait"       \* mutated form of AcqAgain: if instead of while
AcqAgain == "drain"
AcqRing ==
  /\ acq = "ring" /\ acq' = AcqAgain
  /\ inputBell' = TRUE
  /\ UNCHANGED <<vars, sensorVars, sensorQueue, sensorBell, raw, inputQueue, procVars, timerVars,
                 buttonVars>>

-----------------------------------------------------------------------------
(* Processing thread *)

ProcAcquire ==
  /\ proc = "wait" /\ inputBell
  /\ proc' = "drain" /\ inputBell' = FALSE
  /\ UNCHANGED <<vars, sensorVars, sensorQueue, sensorBell, acqVars, inputQueue, taken, timerVars,
                 buttonVars>>

\* PopRawInputs and the unlocked part of ProcessSample.
ProcTake ==
  /\ proc = "drain" /\ taken = {} /\ inputQueue # <<>>
  /\ taken' = inputQueue[1] /\ inputQueue' = Tail(inputQueue)
  /\ \E s \in inputQueue[1] :
       \/ s.valid /\ FilterValid(s.channel, s.value)
       \/ ~s.valid /\ FilterInvalid(s.channel)
  /\ UNCHANGED <<sensorVars, sensorQueue, sensorBell, acqVars, inputBell, proc, timerVars,
                 buttonVars>>

ProcEvaluate ==
  /\ taken # {} /\ taken' = {}
  /\ Evaluate
  /\ UNCHANGED <<sensorVars, sensorQueue, sensorBell, acqVars, inputQueue, inputBell, proc,
                 timerVars, buttonVars>>

ProcSleep ==
  /\ proc = "drain" /\ taken = {} /\ inputQueue = <<>>
  /\ proc' = "wait"
  /\ UNCHANGED <<vars, sensorVars, sensorQueue, sensorBell, acqVars, inputQueue, inputBell, taken,
                 timerVars, buttonVars>>

-----------------------------------------------------------------------------
(* Button *)

others == <<sensorVars, sensorQueue, sensorBell, acqVars, inputQueue, inputBell, procVars>>

RisingEdge(b) == b       \* mutated form of Interrupting
Interrupting(b) == TRUE  \* both edges

ButtonMoves ==
  /\ ~crashed /\ moves > 0 /\ moves' = moves - 1
  /\ button' = ~button /\ touched' = TRUE
  /\ edge' = (edge \/ Interrupting(button'))
  /\ UNCHANGED <<vars, others, timerVars, work, armed, crashed>>

\* HAL_GPIO_EXTI_Callback: CheckPushWork crashes when the work queue is full.
ButtonInterrupt ==
  /\ ~crashed /\ edge /\ edge' = FALSE
  /\ \/ work < WorkSize /\ work' = work + 1 /\ UNCHANGED crashed
     \/ work = WorkSize /\ crashed' = TRUE /\ UNCHANGED work
  /\ UNCHANGED <<vars, others, timerVars, button, moves, armed, touched>>

\* In the work queue thread: cancel and start the debounce timer.
ButtonEdgeDetected ==
  /\ ~crashed /\ work > 0 /\ work' = work - 1
  /\ armed' = TRUE
  /\ UNCHANGED <<vars, others, timerVars, button, moves, edge, touched, crashed>>

\* The debounce timer fires in the timer task: read the level, then report it.
DebounceFires ==
  /\ ~crashed /\ armed /\ timer = "idle"
  /\ armed' = FALSE /\ timer' = "debounce" /\ level' = button
  /\ UNCHANGED <<vars, others, button, moves, edge, work, touched, crashed>>

DebouncedButtonPressed ==
  /\ timer = "debounce" /\ timer' = "idle" /\ level' = FALSE
  /\ SetChargerConnected(level)
  /\ UNCHANGED <<others, buttonVars>>

Halted == crashed /\ UNCHANGED threadVars

-----------------------------------------------------------------------------
TimerReturns == ~crashed /\ (ReleaseSensorBell \/ DebouncedButtonPressed)
AcqStep == ~crashed /\ (AcqAcquire \/ AcqTake \/ AcqSleep \/ AcqPublish \/ AcqRing)
ProcStep == ~crashed /\ (ProcAcquire \/ ProcTake \/ ProcEvaluate \/ ProcSleep)

ThreadNext ==
  \/ \E ch \in Channels : OnTimer(ch)
  \/ TimerReturns
  \/ AcqStep \/ ProcStep
  \/ ButtonMoves \/ ButtonInterrupt \/ ButtonEdgeDetected \/ DebounceFires
  \/ Halted

ThreadSpec == ThreadInit /\ [][ThreadNext]_threadVars

\* No thread is starved for ever (the periods are long compared with the work), an
\* interrupt is taken, and the timer task serves every timer in turn.
FairThreads ==
  /\ ThreadSpec
  /\ WF_threadVars(TimerReturns) /\ WF_threadVars(AcqStep) /\ WF_threadVars(ProcStep)
  /\ WF_threadVars(ButtonInterrupt) /\ WF_threadVars(ButtonEdgeDetected)
  /\ SF_threadVars(DebounceFires) /\ SF_threadVars(OnTimer("voltage"))

-----------------------------------------------------------------------------
(* Properties *)

\* "Each raw message marks only the channel that changed" (README.md, Runtime Data
\* Flow), whatever was in the queues before.
OneNewChannel == \A i \in DOMAIN inputQueue : Cardinality(inputQueue[i]) = 1

\* A thread sleeps only while its queue is empty or a notification is on its way,
\* although several entries may share one notification.
NoLostWakeup ==
  /\ acq = "wait" /\ sensorQueue # <<>> => sensorBell \/ timer = "pushed"
  /\ proc = "wait" /\ inputQueue # <<>> => inputBell \/ acq = "ring"

\* The two queues and the two threads implement SampleFeed.
TheOnly(m) == CHOOSE s \in m : TRUE
Feed == INSTANCE SampleFeed WITH
  NoSample <- Nothing,
  newest <- [ch \in Channels |-> Applied(newest[ch])],
  pending <- [i \in DOMAIN inputQueue |-> TheOnly(inputQueue[i])]
             \o (IF raw = {} THEN <<>> ELSE <<TheOnly(raw)>>)
             \o [i \in DOMAIN sensorQueue |-> Applied(sensorQueue[i])],
  working <- IF taken = {} THEN Nothing ELSE TheOnly(taken)
ImplementsSampleFeed ==
  /\ Feed!FeedInit([ch \in Channels |-> Nothing])
  /\ [][Feed!FeedNext]_(Feed!feedVars)

\* What the threads do to the core is what Processing allows: its invariants hold
\* here too.
ImplementsProcessing == Spec

\* A pack whose voltage stays too high is disconnected and stays so, whatever the
\* charger does; unless the queues fill up again and again with another channel, when
\* the samples dropped could always be those of the voltage.
VoltageTooHigh == newest["voltage"].valid /\ newest["voltage"].value > OvLimit
Crowded ==
  /\ Len(sensorQueue) = QueueSize \/ Len(inputQueue) = QueueSize
  /\ \E s \in readings : s.channel # "voltage"
Reacts == <>[](VoltageTooHigh /\ ~Crowded /\ ~crashed) => <>[](fsm.state = "Secure")

\* Once the button is settled after a move the state machine knows its level, however
\* interrupts, work and the debounce timer interleaved.
ChargerFollows ==
  \A b \in BOOLEAN :
    <>[](touched /\ button = b /\ ~crashed) => <>[](fsm.charger = b)
=============================================================================
