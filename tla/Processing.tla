----------------------------- MODULE Processing -----------------------------
(***************************************************************************)
(* The processing thread (application/threads/processing_thread.cpp):      *)
(* median filters, fault detection with hysteresis, current stress, and    *)
(* the state machine they drive together with the timer thread that        *)
(* reports the charger.  A raw message marks one channel as new            *)
(* (AcquisitionThreadCore publishes after every sample).  The processing   *)
(* thread filters it without the lock, then evaluates it under the lock;   *)
(* a charger change may come between the two.                              *)
(***************************************************************************)
EXTENDS BmsFsm, Integers, FiniteSets

CONSTANTS
  VoltageSamples, CurrentSamples, TemperatureSamples,   \* what the sensors may deliver
  Window,                                               \* of the median filters
  OvLimit, OvRecovery, UvLimit, UvRecovery,             \* mV
  OtLimit, OtRecovery, UtLimit, UtRecovery,             \* m degC
  LevelMa, LevelMs,      \* overcurrent levels: threshold and allowed time
  CutoffMa,              \* trips at once
  RecoveryMa, RecoveryMs,
  StressScale, Period    \* full stress; current sample period in ms

Levels == {"low", "medium", "high"}

ASSUME LimitAssumption ==
  /\ {OvLimit, OvRecovery, UvLimit, UvRecovery} \subseteq Nat
  /\ {OtLimit, OtRecovery, UtLimit, UtRecovery} \subseteq Int
  /\ UvLimit < UvRecovery /\ UvRecovery < OvRecovery /\ OvRecovery < OvLimit
  /\ UtLimit < UtRecovery /\ UtRecovery < OtRecovery /\ OtRecovery < OtLimit

ASSUME CurrentAssumption ==
  /\ LevelMa \in [Levels -> Nat] /\ LevelMs \in [Levels -> Nat \ {0}]
  /\ {CutoffMa, RecoveryMa, RecoveryMs, StressScale, Period} \subseteq Nat \ {0}
  /\ RecoveryMa < LevelMa["low"] /\ LevelMa["low"] < LevelMa["medium"]
  /\ LevelMa["medium"] < LevelMa["high"] /\ LevelMa["high"] < CutoffMa
  /\ \A l \in Levels : Period <= LevelMs[l] /\ LevelMs[l] <= StressScale * Period

\* So are the times of bms_parameters.hpp: shorter at a higher level, and the share of
\* the stress that one sample adds is not rounded.  Only TripsInTime needs it.
ExactTimes ==
  /\ LevelMs["high"] <= LevelMs["medium"] /\ LevelMs["medium"] <= LevelMs["low"]
  /\ \A l \in Levels : (StressScale * Period) % LevelMs[l] = 0

ASSUME SampleAssumption ==
  /\ Window \in Nat \ {0}
  /\ VoltageSamples \subseteq Nat /\ CurrentSamples \subseteq Int /\ TemperatureSamples \subseteq Int

Channels == {"voltage", "current", "temperature"}
Samples(ch) ==
  IF ch = "voltage" THEN VoltageSamples
  ELSE IF ch = "current" THEN CurrentSamples ELSE TemperatureSamples

VARIABLES
  window,     \* per channel the last samples, oldest first
  inFlight,   \* the sample that is filtered and not yet evaluated
  faults,     \* fault_status_, and with it the *_fault_active_ latches
  bad,        \* channels whose last sample was invalid
  stress,     \* current_stress_
  cooled,     \* current_recovery_elapsed_ms_
  fsm,        \* bms_fsm_
  hot, cool   \* history: ms at or above each level; ms below the recovery current

vars == <<window, inFlight, faults, bad, stress, cooled, fsm, hot, cool>>

Nothing == [channel |-> "none", valid |-> FALSE, value |-> 0]

Init ==
  /\ window = [ch \in Channels |-> <<>>]
  /\ inFlight = Nothing
  /\ faults = NoFault /\ bad = {}
  /\ stress = 0 /\ cooled = 0
  /\ fsm = InitContext
  /\ hot = [l \in Levels |-> 0] /\ cool = 0

-----------------------------------------------------------------------------
(* Filter: MedianFilter::Apply *)

Push(w, x) == Append(IF Len(w) < Window THEN w ELSE Tail(w), x)

\* The reading that std::sort puts at index k: at most k are smaller, more than k
\* are not greater.
Sorted(w, k) ==
  CHOOSE v \in {w[i] : i \in 1..Len(w)} :
    /\ Cardinality({i \in 1..Len(w) : w[i] < v}) <= k
    /\ Cardinality({i \in 1..Len(w) : w[i] <= v}) > k

Maximum(w) == Sorted(w, Len(w) - 1)    \* mutated form of Median
Median(w) == Sorted(w, Len(w) \div 2)

FilterValid(ch, x) ==
  /\ inFlight = Nothing
  /\ window' = [window EXCEPT ![ch] = Push(@, x)]
  /\ inFlight' = [channel |-> ch, valid |-> TRUE, value |-> Median(window'[ch])]
  /\ UNCHANGED <<faults, bad, stress, cooled, fsm, hot, cool>>

FilterInvalid(ch) ==
  /\ inFlight = Nothing
  /\ inFlight' = [channel |-> ch, valid |-> FALSE, value |-> 0]
  /\ UNCHANGED <<window, faults, bad, stress, cooled, fsm, hot, cool>>

-----------------------------------------------------------------------------
(* Detection *)

Latched(active, x, limit, recovery) == active \/ x < limit    \* mutated form of DetectBelow
DetectBelow(active, x, limit, recovery) ==
  \/ ~active /\ x < limit
  \/ active /\ ~(x > recovery)
WrongWay(active, x, limit, recovery) ==    \* mutated form of DetectAbove
  \/ ~active /\ x > limit
  \/ active /\ ~(x > recovery)
DetectAbove(active, x, limit, recovery) ==
  \/ ~active /\ x > limit
  \/ active /\ ~(x < recovery)

AbsoluteCurrentMa(x) == IF x >= 0 THEN x ELSE -x

StressIncrement(a) ==
  IF a >= CutoffMa THEN StressScale
  ELSE LET reached == {l \in Levels : a >= LevelMa[l]}
       IN IF reached = {} THEN 0
          ELSE LET top == CHOOSE l \in reached : \A k \in reached : LevelMa[k] <= LevelMa[l]
               IN (StressScale * Period) \div LevelMs[top]

Unbounded(s, inc) == s + inc    \* mutated form
Accumulated(s, inc) == IF s > StressScale - inc THEN StressScale ELSE s + inc

\* Milliseconds of recovery after a sample of a mA while the fault is active.
KeepsCooling(a) ==      \* mutated form: the band below the first level does not reset it
  IF StressIncrement(a) > 0 THEN 0
  ELSE IF a < RecoveryMa /\ cooled + Period < RecoveryMs THEN cooled + Period
  ELSE IF a < RecoveryMa THEN RecoveryMs ELSE cooled
Cooling(a) ==
  IF StressIncrement(a) > 0 \/ a >= RecoveryMa THEN 0
  ELSE IF cooled + Period >= RecoveryMs THEN RecoveryMs ELSE cooled + Period

FullAbove(s) == s > StressScale    \* mutated form of FullStress
FullStress(s) == s >= StressScale

\* The new values of the overcurrent latch, stress and cooled.
Evaluated(a) ==
  LET inc == StressIncrement(a)
      s == Accumulated(stress, inc)
      c == Cooling(a)
  IN IF ~faults["overcurrent"]
       THEN [active |-> FullStress(s), stress |-> s,
             cooled |-> IF FullStress(s) THEN 0 ELSE cooled]
     ELSE IF c >= RecoveryMs
       THEN [active |-> FALSE, stress |-> 0, cooled |-> 0]
     ELSE [active |-> TRUE, stress |-> IF inc > 0 THEN StressScale ELSE stress, cooled |-> c]

\* fault_status_ after a valid voltage or temperature sample.
VoltageFaults(x) ==
  [faults EXCEPT !["overvoltage"] = DetectAbove(@, x, OvLimit, OvRecovery),
                 !["undervoltage"] = DetectBelow(@, x, UvLimit, UvRecovery)]
TemperatureFaults(x) ==
  [faults EXCEPT !["overtemperature"] = DetectAbove(@, x, OtLimit, OtRecovery),
                 !["undertemperature"] = DetectBelow(@, x, UtLimit, UtRecovery)]

WithSensors(f) == [f EXCEPT !["sensor_fault"] = (bad' # {})]

DetectCurrent(x) ==
  LET a == AbsoluteCurrentMa(x)
      e == Evaluated(a)
  IN /\ faults' = WithSensors([faults EXCEPT !["overcurrent"] = e.active])
     /\ stress' = e.stress /\ cooled' = e.cooled
     /\ hot' = [l \in Levels |-> IF a < LevelMa[l] THEN 0
                                 ELSE IF hot[l] + Period >= LevelMs[l] THEN LevelMs[l]
                                 ELSE hot[l] + Period]
     /\ cool' = IF a >= RecoveryMa THEN 0
                ELSE IF cool + Period >= RecoveryMs THEN RecoveryMs ELSE cool + Period

\* The locked part of ProcessSample: EvaluateFaults.
Evaluate ==
  LET ch == inFlight.channel
      x == inFlight.value
  IN /\ inFlight # Nothing
     /\ inFlight' = Nothing
     /\ bad' = IF inFlight.valid THEN bad \ {ch} ELSE bad \cup {ch}
     /\ \/ /\ ~inFlight.valid
           /\ faults' = WithSensors(faults)
           /\ UNCHANGED <<stress, cooled, hot, cool>>
        \/ /\ inFlight.valid /\ ch = "voltage"
           /\ faults' = WithSensors(VoltageFaults(x))
           /\ UNCHANGED <<stress, cooled, hot, cool>>
        \/ /\ inFlight.valid /\ ch = "temperature"
           /\ faults' = WithSensors(TemperatureFaults(x))
           /\ UNCHANGED <<stress, cooled, hot, cool>>
        \/ /\ inFlight.valid /\ ch = "current"
           /\ DetectCurrent(x)
     /\ fsm' = UpdateFaultStatus(Called(fsm), faults')
     /\ UNCHANGED window

\* The debounce timer reports the settled button: SetChargerConnected.
WithCharger(c, connected) ==
  IF connected THEN HandleChargerConnected(c) ELSE HandleChargerDisconnected(c)

SetChargerConnected(connected) ==
  /\ fsm' = UpdateFaultStatus(WithCharger(Called(fsm), connected), faults)
  /\ UNCHANGED <<window, inFlight, faults, bad, stress, cooled, hot, cool>>

Sample(ch) == FilterInvalid(ch) \/ \E x \in Samples(ch) : FilterValid(ch, x)

Next ==
  \/ \E ch \in {c \in Channels : Samples(c) # {}} : Sample(ch)
  \/ Evaluate
  \/ \E b \in BOOLEAN : SetChargerConnected(b)

Spec == Init /\ [][Next]_vars

\* The three timers go on sampling and the thread goes on processing.
FairSpec ==
  /\ Spec
  /\ WF_vars(Evaluate)
  /\ \A ch \in {c \in Channels : Samples(c) # {}} : SF_vars(Sample(ch))

-----------------------------------------------------------------------------
(* Properties *)

TypeOK ==
  /\ window \in [Channels -> Seq(Int)] /\ \A ch \in Channels : Len(window[ch]) <= Window
  /\ inFlight = Nothing \/ inFlight \in [channel : Channels, valid : BOOLEAN, value : Int]
  /\ faults \in FaultStatuses
  /\ bad \subseteq Channels
  /\ stress \in 0..StressScale /\ cooled \in 0..RecoveryMs
  /\ fsm \in Contexts
  /\ hot \in [Levels -> Nat] /\ cool \in Nat

\* Between any two steps of the two threads the state machine protects the pack
\* against the faults that are known (Settled, in BmsFsm): a sample and a charger
\* change may come in any order.
RelaysSafe == Settled(fsm, faults)

\* The limits of one quantity never trip together, although one sample may jump
\* over both thresholds: UpdateFaultStatus looks at one of them only.
OneLimitAtATime ==
  /\ ~(faults["overvoltage"] /\ faults["undervoltage"])
  /\ ~(faults["overtemperature"] /\ faults["undertemperature"])

\* A limit trips only when enough samples of the filter window are beyond it, so a
\* single spike in a full window trips nothing (median_filter.hpp).
Beyond(ch, limit) == Cardinality({i \in 1..Len(window[ch]) : window[ch][i] > limit})
Below(ch, limit) == Cardinality({i \in 1..Len(window[ch]) : window[ch][i] < limit})
SpikesRejected ==
  [][/\ ~faults["overvoltage"] /\ faults'["overvoltage"] =>
          2 * Beyond("voltage", OvLimit) >= Len(window["voltage"])
     /\ ~faults["undervoltage"] /\ faults'["undervoltage"] =>
          2 * Below("voltage", UvLimit) > Len(window["voltage"])]_vars

\* A current that stays at or above a level for the time allowed at that level has
\* tripped, whatever currents came before it.
TripsInTime == \A l \in Levels : hot[l] >= LevelMs[l] => faults["overcurrent"]

\* An overcurrent fault clears only after the current stayed below the recovery
\* current for the whole recovery delay, without a bounce.
ClearsAfterDelay ==
  [][faults["overcurrent"] /\ ~faults'["overcurrent"] => cool' >= RecoveryMs]_vars

\* Once every reading is and stays calm, the state machine leaves Secure for good.
Calm ==
  /\ bad = {}
  /\ \A ch \in Channels : Samples(ch) # {} => window[ch] # <<>>
  /\ \A i \in DOMAIN window["voltage"] :
       UvRecovery < window["voltage"][i] /\ window["voltage"][i] < OvRecovery
  /\ \A i \in DOMAIN window["temperature"] :
       UtRecovery < window["temperature"][i] /\ window["temperature"][i] < OtRecovery
  /\ \A i \in DOMAIN window["current"] : AbsoluteCurrentMa(window["current"][i]) < RecoveryMa
  /\ inFlight = Nothing \/ inFlight.valid

Released == <>[]Calm => <>[](fsm.state # "Secure")

\* README.md:122-123 and bms_fsm_test.cpp:63: Secure is left only when all inputs are
\* nominal, so no relay closes in a call that is about a protective fault.
Passed(s) == \E i \in 2..Len(fsm.path) : fsm.path[i] = s
SecureUntilNominal ==
  fsm.path[1] = "Secure" /\ Protective(faults) => ~Passed("IdleDischarge") /\ ~Passed("Charge")
=============================================================================
