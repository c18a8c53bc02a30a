-------------------------- MODULE Processing_proofs --------------------------
(***************************************************************************)
(* Theorems about the battery management state machine and the processing  *)
(* thread, for all samples, limits and filter windows.                     *)
(***************************************************************************)
EXTENDS Processing, FiniteSetTheorems, TLAPS

-----------------------------------------------------------------------------
(* Events of the state machine *)

\* The state and the charger flag agree.
Coherent(c) ==
  /\ c.state = "Charge" => c.charger
  /\ c.state = "IdleDischarge" => ~c.charger

LEMMA SetStateContext ==
  ASSUME NEW c \in Contexts, NEW s \in BmsStates
  PROVE  /\ SetState(c, s) \in Contexts
         /\ SetState(c, s).state = s
         /\ SetState(c, s).charger = c.charger
         /\ SetState(c, s).nominal = c.nominal
<1>1. CASE c.state = s BY <1>1 DEF SetState
<1>2. CASE c.state # s
  <2> DEFINE d == [c EXCEPT !.state = s]
  <2>1. d \in Contexts /\ d.state = s /\ d.charger = c.charger /\ d.nominal = c.nominal
    BY DEF Contexts
  <2>2. SetState(c, s) = [d EXCEPT !.path = Append(d.path, s)] BY <1>2 DEF SetState, Enter
  <2>3. Append(d.path, s) \in Seq(BmsStates) BY <2>1 DEF Contexts
  <2> HIDE DEF d
  <2> QED BY <2>1, <2>2, <2>3 DEF Contexts
<1> QED BY <1>1, <1>2

LEMMA SetNominalContext ==
  ASSUME NEW c \in Contexts, NEW i \in Inputs, NEW b \in BOOLEAN
  PROVE  /\ SetNominal(c, i, b) \in Contexts
         /\ SetNominal(c, i, b).state = c.state
         /\ SetNominal(c, i, b).charger = c.charger
         /\ SetNominal(c, i, b).nominal = [c.nominal EXCEPT ![i] = b]
  BY DEF SetNominal, Contexts

LEMMA FaultEvent ==
  ASSUME NEW c \in Contexts, NEW i \in Inputs, NEW d, d = HandleFault(c, i)
  PROVE  /\ d \in Contexts /\ Coherent(d)
         /\ d.state = "Secure"
         /\ d.nominal = [c.nominal EXCEPT ![i] = FALSE]
<1> DEFINE e == SetNominal(c, i, FALSE)
<1>1. e \in Contexts /\ e.nominal = [c.nominal EXCEPT ![i] = FALSE] BY SetNominalContext
<1>2. d = SetState(e, "Secure") BY DEF HandleFault
<1> HIDE DEF e
<1> QED BY <1>1, <1>2, SetStateContext DEF Coherent, BmsStates

LEMMA LowVoltageEvent ==
  ASSUME NEW c \in Contexts, Coherent(c), NEW d, d = HandleVoltageTooLow(c)
  PROVE  /\ d \in Contexts /\ Coherent(d)
         /\ d.state # "IdleDischarge"
         /\ c.state = "Secure" => d.state = "Secure"
         /\ d.nominal = [c.nominal EXCEPT !["voltage"] = FALSE]
<1> DEFINE e == SetNominal(c, "voltage", FALSE)
<1>1. /\ e \in Contexts /\ e.state = c.state /\ e.charger = c.charger
      /\ e.nominal = [c.nominal EXCEPT !["voltage"] = FALSE]
  BY SetNominalContext DEF Inputs
<1>2. d = IF c.state = "IdleDischarge" THEN SetState(e, "Secure") ELSE e
  BY DEF HandleVoltageTooLow
<1> HIDE DEF e
<1>3. CASE c.state = "IdleDischarge"
  <2>1. d = SetState(e, "Secure") BY <1>2, <1>3
  <2> QED BY <1>1, <1>3, <2>1, SetStateContext DEF Coherent, BmsStates
<1>4. CASE c.state # "IdleDischarge" BY <1>1, <1>2, <1>4 DEF Coherent
<1> QED BY <1>3, <1>4

LEMMA NominalEvent ==
  ASSUME NEW c \in Contexts, Coherent(c), NEW i \in Inputs, NEW d, d = HandleNominal(c, i)
  PROVE  /\ d \in Contexts /\ Coherent(d)
         /\ d.nominal = [c.nominal EXCEPT ![i] = TRUE]
         /\ d.state = "Secure" => \E j \in Inputs : ~d.nominal[j]
         /\ (\E j \in Inputs : ~d.nominal[j]) => d.state = c.state
<1> DEFINE e == SetNominal(c, i, TRUE)
<1>1. /\ e \in Contexts /\ e.state = c.state /\ e.charger = c.charger
      /\ e.nominal = [c.nominal EXCEPT ![i] = TRUE]
  BY SetNominalContext
<1>2. d = IF c.state = "Secure" /\ AllInputsNominal(e) THEN ReturnToOperatingState(e) ELSE e
  BY DEF HandleNominal
<1> HIDE DEF e
<1>3. CASE c.state = "Secure" /\ AllInputsNominal(e)
  <2>1. d = SetState(e, IF e.charger THEN "Charge" ELSE "IdleDischarge")
    BY <1>2, <1>3 DEF ReturnToOperatingState
  <2>2. /\ d \in Contexts /\ d.charger = e.charger /\ d.nominal = e.nominal
        /\ d.state = IF e.charger THEN "Charge" ELSE "IdleDischarge"
    BY <1>1, <2>1, SetStateContext DEF BmsStates
  <2> QED BY <1>1, <1>3, <2>2 DEF AllInputsNominal, Coherent
<1>4. CASE ~(c.state = "Secure" /\ AllInputsNominal(e))
  BY <1>1, <1>2, <1>4 DEF AllInputsNominal, Coherent
<1> QED BY <1>3, <1>4

-----------------------------------------------------------------------------
(* UpdateFaultStatus *)

FaultOf(i, f) ==
  CASE i = "sensor" -> f["sensor_fault"]
    [] i = "voltage" -> f["overvoltage"] \/ f["undervoltage"]
    [] i = "temperature" -> f["overtemperature"] \/ f["undertemperature"]
    [] i = "current" -> f["overcurrent"]
ProtectiveOf(i, f) == IF i = "voltage" THEN f["overvoltage"] ELSE FaultOf(i, f)

\* What holds after the events of the inputs in D have been handled.
Told(c, f, D) ==
  /\ c \in Contexts /\ Coherent(c)
  /\ \A i \in D : c.nominal[i] = ~FaultOf(i, f)
  /\ \A i \in D : ProtectiveOf(i, f) => c.state = "Secure"
  /\ "voltage" \in D /\ f["undervoltage"] => c.state # "IdleDischarge"

\* The input that is told adds to what holds, whatever the state it is told in.
LEMMA ToldFault ==
  ASSUME NEW c, NEW f \in FaultStatuses, NEW D \in SUBSET Inputs, Told(c, f, D),
         NEW i \in Inputs, FaultOf(i, f)
  PROVE  Told(HandleFault(c, i), f, D \cup {i})
<1> DEFINE d == HandleFault(c, i)
<1>1. c \in Contexts BY DEF Told
<1>2. /\ d \in Contexts /\ Coherent(d) /\ d.state = "Secure"
      /\ d.nominal = [c.nominal EXCEPT ![i] = FALSE]
  BY <1>1, FaultEvent
<1>3. c.nominal \in [Inputs -> BOOLEAN] BY <1>1 DEF Contexts
<1> HIDE DEF d
<1>4. \A j \in D \cup {i} : d.nominal[j] = ~FaultOf(j, f) BY <1>2, <1>3 DEF Told
<1>5. Told(d, f, D \cup {i}) BY <1>2, <1>4 DEF Told
<1> QED BY <1>5 DEF d

LEMMA ToldNominal ==
  ASSUME NEW c, NEW f \in FaultStatuses, NEW D \in SUBSET Inputs, Told(c, f, D),
         NEW i \in Inputs, ~FaultOf(i, f)
  PROVE  /\ Told(HandleNominal(c, i), f, D \cup {i})
         /\ HandleNominal(c, i).state = "Secure" => \E j \in Inputs : ~HandleNominal(c, i).nominal[j]
<1> DEFINE d == HandleNominal(c, i)
<1>1. c \in Contexts /\ Coherent(c) BY DEF Told
<1>2. /\ d \in Contexts /\ Coherent(d)
      /\ d.nominal = [c.nominal EXCEPT ![i] = TRUE]
      /\ d.state = "Secure" => \E j \in Inputs : ~d.nominal[j]
      /\ (\E j \in Inputs : ~d.nominal[j]) => d.state = c.state
  BY <1>1, NominalEvent
<1>3. c.nominal \in [Inputs -> BOOLEAN] BY <1>1 DEF Contexts
<1> HIDE DEF d
<1>4. \A j \in D \cup {i} : d.nominal[j] = ~FaultOf(j, f) BY <1>2, <1>3 DEF Told
<1>5. ASSUME NEW j \in D \cup {i}, FaultOf(j, f) PROVE d.state = c.state /\ j \in D
  BY <1>2, <1>4, <1>5
<1>6. \A j \in Inputs : ProtectiveOf(j, f) => FaultOf(j, f) BY DEF ProtectiveOf, FaultOf
<1>7. \A j \in D \cup {i} : ProtectiveOf(j, f) => d.state = "Secure"
  BY <1>5, <1>6 DEF Told
<1>8. "voltage" \in D \cup {i} /\ f["undervoltage"] => d.state # "IdleDischarge"
  BY <1>5 DEF Told, FaultOf
<1>9. Told(d, f, D \cup {i}) BY <1>2, <1>4, <1>7, <1>8 DEF Told
<1> QED BY <1>2, <1>9 DEF d

LEMMA ToldLowVoltage ==
  ASSUME NEW c, NEW f \in FaultStatuses, NEW D \in SUBSET Inputs, Told(c, f, D),
         ~f["overvoltage"], f["undervoltage"]
  PROVE  Told(HandleVoltageTooLow(c), f, D \cup {"voltage"})
<1> DEFINE d == HandleVoltageTooLow(c)
<1>1. c \in Contexts /\ Coherent(c) BY DEF Told
<1>2. /\ d \in Contexts /\ Coherent(d)
      /\ d.state # "IdleDischarge"
      /\ c.state = "Secure" => d.state = "Secure"
      /\ d.nominal = [c.nominal EXCEPT !["voltage"] = FALSE]
  BY <1>1, LowVoltageEvent
<1>3. c.nominal \in [Inputs -> BOOLEAN] BY <1>1 DEF Contexts
<1> HIDE DEF d
<1>4. ASSUME NEW j \in D \cup {"voltage"} PROVE d.nominal[j] = ~FaultOf(j, f)
  <2>1. CASE j = "voltage"
    <3>1. FaultOf(j, f) BY <2>1 DEF FaultOf
    <3>2. d.nominal[j] = FALSE BY <1>2, <1>3, <2>1 DEF Inputs
    <3> QED BY <3>1, <3>2
  <2>2. CASE j # "voltage"
    <3>1. j \in D /\ j \in Inputs BY <2>2
    <3>2. d.nominal[j] = c.nominal[j] BY <1>2, <1>3, <2>2, <3>1
    <3> QED BY <3>1, <3>2 DEF Told
  <2> QED BY <2>1, <2>2
<1>5. \A j \in D \cup {"voltage"} : ProtectiveOf(j, f) => d.state = "Secure"
  BY <1>2 DEF Told, ProtectiveOf
<1>6. Told(d, f, D \cup {"voltage"}) BY <1>2, <1>4, <1>5 DEF Told
<1> QED BY <1>6 DEF d

\* The state after UpdateFaultStatus is determined by the faults alone, up to what is
\* tolerated, although each event is dispatched to the state the ones before it led to
\* (bms_fsm.cpp:238-270).
LEMMA UpdateSettles ==
  ASSUME NEW c \in Contexts, Coherent(c), NEW f \in FaultStatuses
  PROVE  UpdateFaultStatus(c, f) \in Contexts /\ Settled(UpdateFaultStatus(c, f), f)
<1> DEFINE c0 == Start(c)
           c1 == SensorEvent(c0, f)
           c2 == VoltageEvent(c1, f)
           c3 == TemperatureEvent(c2, f)
           c4 == CurrentEvent(c3, f)
<1>b. \A k \in FaultKinds : f[k] \in BOOLEAN BY DEF FaultStatuses
<1>0. Told(c0, f, {})
  <2>1. c0 \in Contexts /\ c0.state = c.state /\ c0.charger = c.charger
    <3>1. CASE c.started BY <3>1 DEF Start
    <3>2. CASE ~c.started
      <4> DEFINE d == [c EXCEPT !.started = TRUE]
      <4>1. d \in Contexts /\ d.state = c.state /\ d.charger = c.charger BY DEF Contexts
      <4>2. c0 = [d EXCEPT !.path = Append(d.path, c.state)] BY <3>2 DEF Start, Enter
      <4>3. Append(d.path, c.state) \in Seq(BmsStates) BY <4>1 DEF Contexts
      <4> HIDE DEF d, c0
      <4> QED BY <4>1, <4>2, <4>3 DEF Contexts
    <3> QED BY <3>1, <3>2
  <2> QED BY <2>1 DEF Told, Coherent
<1> HIDE DEF c0
<1>1. Told(c1, f, {"sensor"})
  <2>1. CASE f["sensor_fault"]
    <3>1. c1 = HandleFault(c0, "sensor") /\ FaultOf("sensor", f) BY <2>1 DEF SensorEvent, FaultOf
    <3>2. Told(HandleFault(c0, "sensor"), f, {} \cup {"sensor"}) BY <1>0, <3>1, ToldFault DEF Inputs
    <3> QED BY <3>1, <3>2
  <2>2. CASE ~f["sensor_fault"]
    <3>1. c1 = HandleNominal(c0, "sensor") /\ ~FaultOf("sensor", f) BY <2>2 DEF SensorEvent, FaultOf
    <3>2. Told(HandleNominal(c0, "sensor"), f, {} \cup {"sensor"}) BY <1>0, <3>1, ToldNominal DEF Inputs
    <3> QED BY <3>1, <3>2
  <2> QED BY <2>1, <2>2
<1> HIDE DEF c1
<1>2. Told(c2, f, {"sensor", "voltage"})
  <2> DEFINE D == {"sensor"}
  <2>0. D \in SUBSET Inputs /\ "voltage" \in Inputs /\ D \cup {"voltage"} = {"sensor", "voltage"}
    BY DEF Inputs
  <2>1. Told(c1, f, D) BY <1>1
  <2> HIDE DEF D
  <2>2. CASE f["overvoltage"]
    <3>1. c2 = HandleFault(c1, "voltage") /\ FaultOf("voltage", f) BY <2>2 DEF VoltageEvent, FaultOf
    <3>2. Told(HandleFault(c1, "voltage"), f, D \cup {"voltage"}) BY <2>0, <2>1, <3>1, ToldFault
    <3> QED BY <2>0, <3>1, <3>2
  <2>3. CASE ~f["overvoltage"] /\ f["undervoltage"]
    <3>1. c2 = HandleVoltageTooLow(c1) BY <2>3 DEF VoltageEvent
    <3>2. Told(HandleVoltageTooLow(c1), f, D \cup {"voltage"}) BY <2>0, <2>1, <2>3, ToldLowVoltage
    <3> QED BY <2>0, <3>1, <3>2
  <2>4. CASE ~f["overvoltage"] /\ ~f["undervoltage"]
    <3>1. c2 = HandleNominal(c1, "voltage") /\ ~FaultOf("voltage", f) BY <2>4 DEF VoltageEvent, FaultOf
    <3>2. Told(HandleNominal(c1, "voltage"), f, D \cup {"voltage"}) BY <2>0, <2>1, <3>1, ToldNominal
    <3> QED BY <2>0, <3>1, <3>2
  <2> QED BY <2>2, <2>3, <2>4
<1> HIDE DEF c2
<1>3. Told(c3, f, {"sensor", "voltage", "temperature"})
  <2> DEFINE D == {"sensor", "voltage"}
  <2>0. /\ D \in SUBSET Inputs /\ "temperature" \in Inputs
        /\ D \cup {"temperature"} = {"sensor", "voltage", "temperature"}
    BY DEF Inputs
  <2>1. Told(c2, f, D) BY <1>2
  <2> HIDE DEF D
  <2>2. CASE f["overtemperature"] \/ f["undertemperature"]
    <3>1. c3 = HandleFault(c2, "temperature") /\ FaultOf("temperature", f)
      BY <2>2 DEF TemperatureEvent, FaultOf
    <3>2. Told(HandleFault(c2, "temperature"), f, D \cup {"temperature"})
      BY <2>0, <2>1, <3>1, ToldFault
    <3> QED BY <2>0, <3>1, <3>2
  <2>3. CASE ~(f["overtemperature"] \/ f["undertemperature"])
    <3>1. c3 = HandleNominal(c2, "temperature") /\ ~FaultOf("temperature", f)
      BY <2>3 DEF TemperatureEvent, FaultOf
    <3>2. Told(HandleNominal(c2, "temperature"), f, D \cup {"temperature"})
      BY <2>0, <2>1, <3>1, ToldNominal
    <3> QED BY <2>0, <3>1, <3>2
  <2> QED BY <2>2, <2>3
<1> HIDE DEF c3
<1>4. /\ Told(c4, f, Inputs)
      /\ ~f["overcurrent"] /\ c4.state = "Secure" => \E j \in Inputs : ~c4.nominal[j]
  <2> DEFINE D == {"sensor", "voltage", "temperature"}
  <2>0. D \in SUBSET Inputs /\ "current" \in Inputs /\ D \cup {"current"} = Inputs BY DEF Inputs
  <2>1. Told(c3, f, D) BY <1>3
  <2> HIDE DEF D
  <2>2. CASE f["overcurrent"]
    <3>1. c4 = HandleFault(c3, "current") /\ FaultOf("current", f) BY <2>2 DEF CurrentEvent, FaultOf
    <3>2. Told(HandleFault(c3, "current"), f, D \cup {"current"}) BY <2>0, <2>1, <3>1, ToldFault
    <3> QED BY <2>0, <2>2, <3>1, <3>2
  <2>3. CASE ~f["overcurrent"]
    <3>1. c4 = HandleNominal(c3, "current") /\ ~FaultOf("current", f) BY <2>3 DEF CurrentEvent, FaultOf
    <3>2. /\ Told(HandleNominal(c3, "current"), f, D \cup {"current"})
          /\ HandleNominal(c3, "current").state = "Secure"
               => \E j \in Inputs : ~HandleNominal(c3, "current").nominal[j]
      BY <2>0, <2>1, <3>1, ToldNominal
    <3> QED BY <2>0, <3>1, <3>2
  <2> QED BY <2>2, <2>3
<1>5. UpdateFaultStatus(c, f) = c4 BY DEF UpdateFaultStatus, c0, c1, c2, c3
<1> HIDE DEF c4
<1>6. c4.state = "Secure" => \E k \in FaultKinds : f[k]
  BY <1>4, <1>b DEF Told, FaultOf, Inputs, FaultKinds
<1>7. Protective(f) => c4.state = "Secure"
  BY <1>4, <1>b DEF Told, Protective, ProtectiveOf, FaultOf, Inputs, FaultKinds
<1> QED BY <1>4, <1>5, <1>6, <1>7 DEF Told, Settled, Coherent, Inputs

-----------------------------------------------------------------------------
(* The two threads *)

SafeInv == faults \in FaultStatuses /\ fsm \in Contexts /\ Settled(fsm, faults)

LEMMA SafeInit == Init => SafeInv
  BY DEF Init, SafeInv, FaultStatuses, NoFault, InitContext, Contexts, BmsStates, Settled,
     Protective, FaultKinds

LEMMA CalledContext ==
  ASSUME SafeInv
  PROVE  Called(fsm) \in Contexts /\ Coherent(Called(fsm))
<1>1. <<fsm.state>> \in Seq(BmsStates) BY DEF SafeInv, Contexts
<1> QED BY <1>1 DEF SafeInv, Called, Contexts, Settled, Coherent

LEMMA ChargerSafe == SafeInv /\ (\E b \in BOOLEAN : SetChargerConnected(b)) => SafeInv'
<1> SUFFICES ASSUME SafeInv, NEW b \in BOOLEAN, SetChargerConnected(b) PROVE SafeInv' OBVIOUS
<1> DEFINE c == Called(fsm)
           d == WithCharger(c, b)
<1>1. c \in Contexts /\ Coherent(c) BY CalledContext
<1> HIDE DEF c
<1>2. d \in Contexts /\ Coherent(d)
  <2>1. \A x \in BOOLEAN : /\ [c EXCEPT !.charger = x] \in Contexts
                           /\ [c EXCEPT !.charger = x].charger = x
                           /\ [c EXCEPT !.charger = x].state = c.state
    BY <1>1 DEF Contexts
  <2> QED BY <1>1, <2>1, SetStateContext
          DEF WithCharger, HandleChargerConnected, HandleChargerDisconnected, Coherent, Contexts, BmsStates
<1>3. fsm' = UpdateFaultStatus(d, faults) /\ faults' = faults BY DEF SetChargerConnected, c
<1> HIDE DEF d
<1> QED BY <1>2, <1>3, UpdateSettles DEF SafeInv

LEMMA EvaluateSafe == SafeInv /\ Evaluate => SafeInv'
<1> SUFFICES ASSUME SafeInv, Evaluate PROVE SafeInv' OBVIOUS
<1>1. ASSUME NEW f \in FaultStatuses PROVE WithSensors(f) \in FaultStatuses
  BY DEF WithSensors, FaultStatuses, FaultKinds
<1>2. faults' \in FaultStatuses
  <2>1. \A x : VoltageFaults(x) \in FaultStatuses
    BY DEF SafeInv, VoltageFaults, DetectAbove, DetectBelow, FaultStatuses, FaultKinds
  <2>2. \A x : TemperatureFaults(x) \in FaultStatuses
    BY DEF SafeInv, TemperatureFaults, DetectAbove, DetectBelow, FaultStatuses, FaultKinds
  <2>3. \A a : Evaluated(a).active \in BOOLEAN
    <3> TAKE a
    <3> DEFINE st == Accumulated(stress, StressIncrement(a))
    <3>1. FullStress(st) \in BOOLEAN BY DEF FullStress
    <3> HIDE DEF st
    <3>2. CASE ~faults["overcurrent"] BY <3>1, <3>2 DEF Evaluated, st
    <3>3. CASE faults["overcurrent"]
      <4>1. CASE Cooling(a) >= RecoveryMs BY <3>3, <4>1 DEF Evaluated
      <4>2. CASE ~(Cooling(a) >= RecoveryMs) BY <3>3, <4>2 DEF Evaluated
      <4> QED BY <4>1, <4>2
    <3> QED BY <3>2, <3>3
  <2>4. \A x : [faults EXCEPT !["overcurrent"] = Evaluated(AbsoluteCurrentMa(x)).active] \in FaultStatuses
    BY <2>3 DEF SafeInv, FaultStatuses
  <2> QED BY <1>1, <2>1, <2>2, <2>4 DEF Evaluate, DetectCurrent, SafeInv
<1>3. Called(fsm) \in Contexts /\ Coherent(Called(fsm)) BY CalledContext
<1>4. fsm' = UpdateFaultStatus(Called(fsm), faults') BY DEF Evaluate
<1> QED BY <1>2, <1>3, <1>4, UpdateSettles DEF SafeInv

\* In every order of samples and charger changes, for all limits and readings: a
\* protective fault keeps both relays open, the discharge relay is closed only without
\* any fault, each relay is closed only with its side connected, and Secure is held
\* only while there is a fault.
THEOREM RelaysAreSafe == Spec => []RelaysSafe
<1>1. SafeInv /\ [Next]_vars => SafeInv'
  <2> SUFFICES ASSUME SafeInv, [Next]_vars PROVE SafeInv' OBVIOUS
  <2>1. CASE \E ch \in {c \in Channels : Samples(c) # {}} : Sample(ch)
    BY <2>1 DEF Sample, FilterValid, FilterInvalid, SafeInv
  <2>2. CASE UNCHANGED vars BY <2>2 DEF vars, SafeInv
  <2> QED BY <2>1, <2>2, ChargerSafe, EvaluateSafe DEF Next
<1> QED BY <1>1, SafeInit, PTL DEF Spec, SafeInv, RelaysSafe


-----------------------------------------------------------------------------
(* The median filter.  Sorted is defined by a CHOOSE over the readings of  *)
(* the window, so that its properties rest on a reading of that rank.      *)

\* Among the elements of V one has an inclusion-minimal set g[v] of positions.
LEMMA MinimalBy ==
  ASSUME NEW n \in Nat, NEW V, V # {}, NEW g \in [V -> SUBSET (1..n)]
  PROVE  \E v \in V : \A u \in V : g[u] \subseteq g[v] => g[u] = g[v]
<1> DEFINE F == {g[v] : v \in V}
<1>1. IsFiniteSet(1..n) BY FS_Interval
<1>2. F \subseteq FiniteSubsetsOf(1..n) /\ F # {} BY <1>1, FS_FiniteSubsetsOfFinite
<1>3. \E A \in F : \A B \in F : ~(<<B, A>> \in StrictSubsetOrdering(1..n))
  <2> HIDE DEF F
  <2> QED BY <1>2, FS_StrictSubsetOrderingWellFounded, WFMin
<1>4. PICK v \in V : \A u \in V : ~(<<g[u], g[v]>> \in StrictSubsetOrdering(1..n)) BY <1>3
<1>5. \A u \in V : g[u] \in FiniteSubsetsOf(1..n) BY <1>2
<1> QED BY <1>4, <1>5 DEF StrictSubsetOrdering

AtMost(w, v) == {i \in 1..Len(w) : w[i] <= v}
Under(w, v) == {i \in 1..Len(w) : w[i] < v}
Over(w, v) == {i \in 1..Len(w) : w[i] > v}
Readings(w) == {w[i] : i \in 1..Len(w)}

\* Of the readings that a set contains one is the greatest.
LEMMA GreatestReading ==
  ASSUME NEW w \in Seq(Int), NEW V, V \subseteq Readings(w), V # {}
  PROVE  \E v \in V : \A u \in V : u <= v
<1>0. V \subseteq Int /\ Len(w) \in Nat BY DEF Readings
<1>1. PICK v \in V : \A u \in V : Over(w, u) \subseteq Over(w, v) => Over(w, u) = Over(w, v)
  <2> DEFINE n == Len(w)
             g == [v \in V |-> Over(w, v)]
  <2>1. g \in [V -> SUBSET (1..n)] BY DEF Over
  <2>2. \E v \in V : \A u \in V : g[u] \subseteq g[v] => g[u] = g[v]
    <3>1. n \in Nat /\ V # {} BY <1>0
    <3> HIDE DEF g, n
    <3> QED BY ONLY <3>1, <2>1, MinimalBy
  <2> QED BY <2>2
<1>2. ASSUME NEW u \in V, u > v PROVE FALSE
  <2>1. PICK i \in 1..Len(w) : u = w[i] BY DEF Readings
  <2>2. i \in Over(w, v) /\ i \notin Over(w, u) BY <1>0, <1>2, <2>1 DEF Over
  <2>3. Over(w, u) \subseteq Over(w, v)
    <3>1. \A j \in 1..Len(w) : w[j] \in Int OBVIOUS
    <3> QED BY <1>0, <1>2, <3>1 DEF Over
  <2> QED BY <1>1, <2>2, <2>3
<1> QED BY <1>0, <1>2

LEMMA PositionCounts ==
  ASSUME NEW n \in Nat, NEW S \in SUBSET (1..n)
  PROVE  IsFiniteSet(S) /\ Cardinality(S) \in Nat /\ Cardinality(S) <= n
<1>1. IsFiniteSet(1..n) /\ Cardinality(1..n) = n BY FS_Interval
<1> QED BY <1>1, FS_Subset, FS_CardinalityType

\* std::sort puts one of the readings at each index of the window.
LEMMA SortedRank ==
  ASSUME NEW w \in Seq(Int), NEW k \in Nat, k < Len(w), NEW v, v = Sorted(w, k)
  PROVE  /\ v \in Readings(w) /\ v \in Int
         /\ Cardinality(Under(w, v)) <= k /\ Cardinality(AtMost(w, v)) > k
<1> DEFINE n == Len(w)
           T == {u \in Readings(w) : Cardinality(AtMost(w, u)) > k}
<1>0. n \in Nat /\ n # 0 /\ \A i \in 1..n : w[i] \in Int OBVIOUS
<1>i. Readings(w) \subseteq Int BY DEF Readings
<1>c. \A u : Cardinality(Under(w, u)) \in Nat /\ Cardinality(AtMost(w, u)) \in Nat
  <2>1. \A u : Under(w, u) \in SUBSET (1..n) /\ AtMost(w, u) \in SUBSET (1..n)
    BY DEF Under, AtMost
  <2> QED BY <1>0, <2>1, PositionCounts
<1>1. T # {}
  <2>1. Readings(w) # {}
    <3>1. w[1] \in Readings(w) BY <1>0 DEF Readings
    <3> QED BY <3>1
  <2>2. PICK u \in Readings(w) : \A x \in Readings(w) : x <= u BY <2>1, GreatestReading
  <2>3. AtMost(w, u) = 1..n BY <2>2 DEF AtMost, Readings
  <2>4. Cardinality(1..n) = n
    <3> HIDE DEF n, T
    <3> QED BY <1>0, FS_Interval
  <2> QED BY <2>2, <2>3, <2>4
<1>2. PICK u \in T : \A x \in T : AtMost(w, x) \subseteq AtMost(w, u) => AtMost(w, x) = AtMost(w, u)
  <2> DEFINE g == [x \in T |-> AtMost(w, x)]
  <2>1. g \in [T -> SUBSET (1..n)] BY DEF AtMost
  <2>2. \E x \in T : \A y \in T : g[y] \subseteq g[x] => g[y] = g[x]
    <3> HIDE DEF g, T, n
    <3>1. n \in Nat BY <1>0
    <3> QED BY ONLY <3>1, <1>1, <2>1, MinimalBy
  <2> QED BY <2>2
<1>3. u \in Readings(w) /\ u \in Int /\ Cardinality(AtMost(w, u)) > k BY <1>i
<1>4. Cardinality(Under(w, u)) <= k
  <2> SUFFICES ASSUME Cardinality(Under(w, u)) > k PROVE FALSE BY <1>c
  <2> DEFINE Low == {x \in Readings(w) : x < u}
  <2>1. Under(w, u) # {}
    <3>1. Cardinality({}) = 0 BY FS_EmptySet
    <3>2. ASSUME Under(w, u) = {} PROVE FALSE
      <4>1. Cardinality(Under(w, u)) = 0 BY <3>1, <3>2
      <4> HIDE DEF T, n
      <4> QED BY <4>1
    <3> QED BY <3>2
  <2>2. Low # {} /\ Low \subseteq Readings(w) BY <2>1 DEF Under, Readings
  <2>3. PICK x \in Low : \A y \in Low : y <= x
    <3> HIDE DEF Low
    <3> QED BY <2>2, GreatestReading
  <2>4. x \in Readings(w) /\ x \in Int /\ x < u BY <2>3, <1>i
  <2>5. Under(w, u) = AtMost(w, x)
    <3>1. ASSUME NEW i \in 1..n PROVE w[i] < u <=> w[i] <= x
      <4>1. w[i] \in Readings(w) /\ w[i] \in Int BY <1>0 DEF Readings
      <4>2. w[i] < u => w[i] <= x BY <2>3, <4>1
      <4> QED BY <1>3, <2>4, <4>1, <4>2
    <3> QED BY <3>1 DEF Under, AtMost
  <2>6. x \in T BY <2>4, <2>5
  <2>7. AtMost(w, x) \subseteq AtMost(w, u)
    BY <1>0, <1>3, <2>4 DEF AtMost
  <2>8. PICK j \in 1..n : u = w[j] BY <1>3 DEF Readings
  <2>9. j \in AtMost(w, u) /\ j \notin AtMost(w, x) BY <1>0, <2>4, <2>8 DEF AtMost
  <2> QED BY <1>2, <2>6, <2>7, <2>9
<1>5. v = CHOOSE x \in Readings(w) : Cardinality(Under(w, x)) <= k /\ Cardinality(AtMost(w, x)) > k
  BY DEF Sorted, Readings, Under, AtMost
<1>6. v \in Readings(w) /\ Cardinality(Under(w, v)) <= k /\ Cardinality(AtMost(w, v)) > k
  <2> HIDE DEF T, n
  <2> QED BY <1>3, <1>4, <1>5
<1> QED BY <1>i, <1>6

LEMMA MedianRank ==
  ASSUME NEW w \in Seq(Int), w # <<>>
  PROVE  /\ Median(w) \in Int
         /\ Cardinality(Under(w, Median(w))) <= Len(w) \div 2
         /\ Cardinality(AtMost(w, Median(w))) > Len(w) \div 2
<1> DEFINE k == Len(w) \div 2
<1>1. k \in Nat /\ k < Len(w)
  <2>1. Len(w) \in Nat /\ Len(w) # 0 OBVIOUS
  <2>2. \A n \in Nat : n # 0 => n \div 2 \in Nat /\ n \div 2 < n OBVIOUS
  <2> QED BY <2>1, <2>2
<1>2. Median(w) = Sorted(w, k) BY DEF Median
<1> HIDE DEF k
<1>3. /\ Sorted(w, k) \in Int
      /\ Cardinality(Under(w, Sorted(w, k))) <= k /\ Cardinality(AtMost(w, Sorted(w, k))) > k
  BY <1>1, SortedRank
<1> QED BY <1>2, <1>3 DEF k

LEMMA PushWindow ==
  ASSUME NEW w \in Seq(Int), Len(w) <= Window, NEW x \in Int
  PROVE  Push(w, x) \in Seq(Int) /\ Push(w, x) # <<>> /\ Len(Push(w, x)) <= Window
<1>1. CASE Len(w) < Window
  <2>1. Push(w, x) = Append(w, x) BY <1>1 DEF Push
  <2> QED BY <1>1, <2>1, SampleAssumption
<1>2. CASE ~(Len(w) < Window)
  <2>1. Push(w, x) = Append(Tail(w), x) BY <1>2 DEF Push
  <2>2. Len(w) # 0 /\ w # <<>> BY <1>2, SampleAssumption
  <2>3. Tail(w) \in Seq(Int) /\ Len(Tail(w)) = Len(w) - 1 BY <2>2
  <2> QED BY <2>1, <2>3, SampleAssumption
<1> QED BY <1>1, <1>2

-----------------------------------------------------------------------------
(* The overcurrent levels and the stress they add *)

LEMMA LevelFacts ==
  /\ \A l \in Levels : LevelMa[l] \in Nat /\ LevelMs[l] \in Nat \ {0} /\ Period <= LevelMs[l]
  /\ StressScale \in Nat \ {0} /\ Period \in Nat \ {0} /\ RecoveryMs \in Nat \ {0}
  /\ CutoffMa \in Nat /\ RecoveryMa \in Nat
  /\ RecoveryMa < LevelMa["low"] /\ LevelMa["low"] < LevelMa["medium"]
  /\ LevelMa["medium"] < LevelMa["high"] /\ LevelMa["high"] < CutoffMa
  BY CurrentAssumption

\* The stress that a sample at level l adds.
Share(l) == (StressScale * Period) \div LevelMs[l]

LEMMA ShareBound == \A l \in Levels : Share(l) \in 0..StressScale
<1>1. ASSUME NEW s \in Nat, NEW p \in Nat, NEW m \in Nat \ {0}, p <= m
      PROVE  (s * p) \div m \in 0..s
  <2> DEFINE q == (s * p) \div m
  <2>1. s * p \in Nat /\ s * p <= s * m BY <1>1
  <2>2. q \in Nat /\ q * m <= s * p
    <3>1. \A x \in Nat : x \div m \in Nat /\ (x \div m) * m <= x OBVIOUS
    <3> QED BY <2>1, <3>1
  <2> HIDE DEF q
  <2>3. q * m <= s * m BY <2>1, <2>2
  <2>4. q <= s BY <2>2, <2>3
  <2> QED BY <2>2, <2>4 DEF q
<1> QED BY <1>1, LevelFacts DEF Share

\* The level whose share is added is the highest that the current reaches.
LEMMA HighestLevel ==
  ASSUME NEW a \in Nat
  PROVE  /\ a >= CutoffMa => StressIncrement(a) = StressScale
         /\ a >= LevelMa["high"] /\ a < CutoffMa => StressIncrement(a) = Share("high")
         /\ a >= LevelMa["medium"] /\ a < LevelMa["high"] => StressIncrement(a) = Share("medium")
         /\ a >= LevelMa["low"] /\ a < LevelMa["medium"] => StressIncrement(a) = Share("low")
         /\ a < LevelMa["low"] => StressIncrement(a) = 0
<1> DEFINE reached == {l \in Levels : a >= LevelMa[l]}
           top == CHOOSE l \in reached : \A k \in reached : LevelMa[k] <= LevelMa[l]
<1>1. a < CutoffMa => StressIncrement(a) = IF reached = {} THEN 0 ELSE Share(top)
  BY LevelFacts DEF StressIncrement, Share
<1>2. Levels = {"low", "medium", "high"} BY DEF Levels
<1>3. ASSUME NEW l \in reached, \A k \in reached : k # l => LevelMa[k] < LevelMa[l] PROVE top = l
  <2>1. \A k \in reached : LevelMa[k] \in Nat BY LevelFacts
  <2> HIDE DEF reached
  <2>2. \A k \in reached : LevelMa[k] <= LevelMa[l] BY <1>3, <2>1
  <2>3. top \in reached /\ \A k \in reached : LevelMa[k] <= LevelMa[top] BY <2>2
  <2> HIDE DEF top
  <2> QED BY <1>3, <2>1, <2>3
<1>4. a >= LevelMa["high"] => reached # {} /\ top = "high"
  <2> HAVE a >= LevelMa["high"]
  <2>1. "high" \in reached BY <1>2
  <2>2. \A k \in reached : k # "high" => LevelMa[k] < LevelMa["high"] BY <1>2, LevelFacts
  <2> HIDE DEF reached, top
  <2> QED BY <1>3, <2>1, <2>2
<1>5. a >= LevelMa["medium"] /\ a < LevelMa["high"] => reached # {} /\ top = "medium"
  <2> HAVE a >= LevelMa["medium"] /\ a < LevelMa["high"]
  <2>1. "medium" \in reached BY <1>2
  <2>2. \A k \in reached : k # "medium" => LevelMa[k] < LevelMa["medium"] BY <1>2, LevelFacts
  <2> HIDE DEF reached, top
  <2> QED BY <1>3, <2>1, <2>2
<1>6. a >= LevelMa["low"] /\ a < LevelMa["medium"] => reached # {} /\ top = "low"
  <2> HAVE a >= LevelMa["low"] /\ a < LevelMa["medium"]
  <2>1. "low" \in reached BY <1>2
  <2>2. \A k \in reached : k # "low" => LevelMa[k] < LevelMa["low"] BY <1>2, LevelFacts
  <2> HIDE DEF reached, top
  <2> QED BY <1>3, <2>1, <2>2
<1>7. a < LevelMa["low"] => reached = {} BY <1>2, LevelFacts
<1>8. a >= CutoffMa => StressIncrement(a) = StressScale BY DEF StressIncrement
<1> HIDE DEF reached, top
<1>9. /\ {LevelMa["low"], LevelMa["medium"], LevelMa["high"], CutoffMa} \subseteq Nat
      /\ LevelMa["low"] < LevelMa["medium"] /\ LevelMa["medium"] < LevelMa["high"]
      /\ LevelMa["high"] < CutoffMa
  BY <1>2, LevelFacts
<1>a. a >= LevelMa["high"] /\ a < CutoffMa => StressIncrement(a) = Share("high") BY <1>1, <1>4
<1>b. a >= LevelMa["medium"] /\ a < LevelMa["high"] => StressIncrement(a) = Share("medium")
  BY <1>1, <1>5, <1>9
<1>c. a >= LevelMa["low"] /\ a < LevelMa["medium"] => StressIncrement(a) = Share("low")
  BY <1>1, <1>6, <1>9
<1>d. a < LevelMa["low"] => StressIncrement(a) = 0 BY <1>1, <1>7, <1>9
<1> QED BY <1>8, <1>a, <1>b, <1>c, <1>d

LEMMA IncrementBound ==
  ASSUME NEW a \in Nat
  PROVE  StressIncrement(a) \in 0..StressScale
<1>1. StressIncrement(a) \in {0, StressScale} \cup {Share(l) : l \in Levels}
  BY HighestLevel, LevelFacts DEF Levels
<1> QED BY <1>1, ShareBound, LevelFacts

-----------------------------------------------------------------------------
(* Types, and what relates the data of the thread *)

\* The sample in flight is the median of its window.
FlightInv ==
  inFlight.valid => /\ window[inFlight.channel] # <<>>
                    /\ inFlight.value = Median(window[inFlight.channel])

\* The recovery time that counts is no longer than the calm that there was.
CoolInv == cooled <= cool /\ (~faults["overcurrent"] => cooled = 0)

DataInv == TypeOK /\ FlightInv /\ CoolInv

LEMMA DataInit == Init => DataInv
<1> SUFFICES ASSUME Init PROVE DataInv OBVIOUS
<1>1. SafeInv BY SafeInit
<1>2. window \in [Channels -> Seq(Int)] /\ \A ch \in Channels : Len(window[ch]) <= Window
  BY SampleAssumption DEF Init
<1>3. stress \in 0..StressScale /\ cooled \in 0..RecoveryMs /\ hot \in [Levels -> Nat]
      /\ cool = 0 /\ cooled = 0 /\ bad = {} /\ inFlight = Nothing
  BY LevelFacts DEF Init
<1> QED BY <1>1, <1>2, <1>3 DEF SafeInv, DataInv, TypeOK, FlightInv, CoolInv, Nothing

LEMMA FlightType ==
  ASSUME DataInv, inFlight # Nothing
  PROVE  inFlight.channel \in Channels /\ inFlight.valid \in BOOLEAN /\ inFlight.value \in Int
  BY DEF DataInv, TypeOK

LEMMA SampleInt ==
  ASSUME NEW ch \in Channels, NEW x \in Samples(ch)
  PROVE  x \in Int
  BY SampleAssumption DEF Samples, Channels

LEMMA FilterData ==
  ASSUME DataInv, NEW ch \in Channels, Sample(ch)
  PROVE  DataInv'
<1>u. UNCHANGED <<faults, bad, stress, cooled, fsm, hot, cool>>
  BY DEF Sample, FilterValid, FilterInvalid
<1>1. CASE FilterInvalid(ch)
  <2>1. window' = window /\ inFlight' = [channel |-> ch, valid |-> FALSE, value |-> 0]
    BY <1>1 DEF FilterInvalid
  <2>2. TypeOK' BY <1>u, <2>1 DEF DataInv, TypeOK
  <2> QED BY <1>u, <2>1, <2>2 DEF DataInv, FlightInv, CoolInv
<1>2. ASSUME NEW x \in Samples(ch), FilterValid(ch, x) PROVE DataInv'
  <2> DEFINE w == Push(window[ch], x)
  <2>1. w \in Seq(Int) /\ w # <<>> /\ Len(w) <= Window
    BY SampleInt, PushWindow DEF DataInv, TypeOK
  <2>2. window' = [window EXCEPT ![ch] = w] BY <1>2 DEF FilterValid
  <2>3. window'[ch] = w BY <2>2 DEF DataInv, TypeOK
  <2>4. inFlight' = [channel |-> ch, valid |-> TRUE, value |-> Median(w)]
    BY <1>2, <2>3 DEF FilterValid
  <2> HIDE DEF w
  <2>5. Median(w) \in Int BY <2>1, MedianRank
  <2>6. window' \in [Channels -> Seq(Int)] /\ \A c \in Channels : Len(window'[c]) <= Window
    BY <2>1, <2>2 DEF DataInv, TypeOK
  <2>7. TypeOK' BY <1>u, <2>4, <2>5, <2>6 DEF DataInv, TypeOK
  <2> QED BY <1>u, <2>1, <2>3, <2>4, <2>7 DEF DataInv, FlightInv, CoolInv
<1> QED BY <1>1, <1>2 DEF Sample

\* What one current sample does to the overcurrent latch, the stress and the recovery.
LEMMA EvaluatedCases ==
  ASSUME DataInv, NEW a \in Nat, NEW e, e = Evaluated(a)
  PROVE  /\ e.active \in BOOLEAN /\ e.stress \in 0..StressScale /\ e.cooled \in 0..RecoveryMs
         /\ ~e.active => e.cooled = 0 /\ e.stress < StressScale
         /\ e.cooled > 0 => a < RecoveryMa /\ e.cooled <= cooled + Period
         /\ ~e.active /\ ~faults["overcurrent"] => e.stress = stress + StressIncrement(a)
         /\ ~e.active /\ faults["overcurrent"] => a < RecoveryMa /\ cooled + Period >= RecoveryMs
<1> DEFINE inc == StressIncrement(a)
           s == Accumulated(stress, inc)
           c == Cooling(a)
<1>0. /\ stress \in 0..StressScale /\ cooled \in 0..RecoveryMs
      /\ StressScale \in Nat \ {0} /\ RecoveryMs \in Nat \ {0} /\ Period \in Nat \ {0}
      /\ RecoveryMa \in Nat
      /\ ~faults["overcurrent"] => cooled = 0
  BY LevelFacts DEF DataInv, TypeOK, CoolInv
<1>1. inc \in 0..StressScale BY IncrementBound
<1>2. s \in 0..StressScale /\ (s < StressScale => s = stress + inc)
  BY <1>0, <1>1 DEF Accumulated
<1>3. /\ c \in 0..RecoveryMs
      /\ c > 0 => a < RecoveryMa /\ c <= cooled + Period
  <2> HIDE DEF inc
  <2>1. c = IF inc > 0 \/ a >= RecoveryMa THEN 0
            ELSE IF cooled + Period >= RecoveryMs THEN RecoveryMs ELSE cooled + Period
    BY DEF Cooling, inc
  <2> HIDE DEF c
  <2> QED BY <1>0, <2>1
<1>4. FullStress(s) <=> s = StressScale BY <1>0, <1>2 DEF FullStress
<1>5. CASE ~faults["overcurrent"]
  <2>1. e = [active |-> FullStress(s), stress |-> s,
             cooled |-> IF FullStress(s) THEN 0 ELSE cooled]
    BY <1>5 DEF Evaluated
  <2>2. FullStress(s) \in BOOLEAN BY DEF FullStress
  <2> HIDE DEF s, inc
  <2>3. e.active = FullStress(s) /\ e.stress = s /\ e.cooled = 0 BY <1>0, <1>5, <2>1
  <2> QED BY <1>0, <1>2, <1>4, <1>5, <2>2, <2>3 DEF inc
<1>6. CASE faults["overcurrent"] /\ c >= RecoveryMs
  <2>1. e = [active |-> FALSE, stress |-> 0, cooled |-> 0] BY <1>6 DEF Evaluated
  <2> HIDE DEF c, s, inc
  <2> QED BY <1>0, <1>3, <1>6, <2>1
<1>7. CASE faults["overcurrent"] /\ ~(c >= RecoveryMs)
  <2>1. e = [active |-> TRUE, stress |-> IF inc > 0 THEN StressScale ELSE stress, cooled |-> c]
    BY <1>7 DEF Evaluated
  <2> HIDE DEF c, s, inc
  <2> QED BY <1>0, <1>3, <2>1
<1> QED BY <1>5, <1>6, <1>7

LEMMA DetectFrame ==
  ASSUME DataInv, Evaluate, ~(inFlight.valid /\ inFlight.channel = "current")
  PROVE  /\ UNCHANGED <<stress, cooled, hot, cool>>
         /\ faults'["overcurrent"] = faults["overcurrent"]
<1>1. faults \in FaultStatuses BY DEF DataInv, TypeOK
<1> QED BY <1>1 DEF Evaluate, WithSensors, VoltageFaults, TemperatureFaults, FaultStatuses, FaultKinds

LEMMA DetectStep ==
  ASSUME DataInv, Evaluate, inFlight.valid, inFlight.channel = "current",
         NEW a, a = AbsoluteCurrentMa(inFlight.value), NEW e, e = Evaluated(a)
  PROVE  /\ a \in Nat
         /\ faults'["overcurrent"] = e.active /\ stress' = e.stress /\ cooled' = e.cooled
         /\ hot' = [l \in Levels |-> IF a < LevelMa[l] THEN 0
                                     ELSE IF hot[l] + Period >= LevelMs[l] THEN LevelMs[l]
                                     ELSE hot[l] + Period]
         /\ cool' = IF a >= RecoveryMa THEN 0
                    ELSE IF cool + Period >= RecoveryMs THEN RecoveryMs ELSE cool + Period
<1>1. inFlight # Nothing BY DEF Evaluate
<1>2. a \in Nat BY <1>1, FlightType DEF AbsoluteCurrentMa
<1>3. DetectCurrent(inFlight.value) BY DEF Evaluate
<1>4. faults' = WithSensors([faults EXCEPT !["overcurrent"] = e.active])
  BY <1>3 DEF DetectCurrent
<1>5. faults'["overcurrent"] = e.active
  BY <1>4 DEF WithSensors, DataInv, TypeOK, FaultStatuses, FaultKinds
<1> QED BY <1>2, <1>3, <1>5 DEF DetectCurrent

LEMMA EvaluateData ==
  ASSUME DataInv, SafeInv, Evaluate
  PROVE  DataInv'
<1>1. SafeInv' BY EvaluateSafe
<1>2. window' = window /\ inFlight' = Nothing BY DEF Evaluate
<1>3. bad' \subseteq Channels
  <2>1. inFlight.channel \in Channels BY FlightType DEF Evaluate
  <2> QED BY <2>1 DEF Evaluate, DataInv, TypeOK
<1>4. /\ stress' \in 0..StressScale /\ cooled' \in 0..RecoveryMs
      /\ hot' \in [Levels -> Nat] /\ cool' \in Nat /\ CoolInv'
  <2>1. CASE ~(inFlight.valid /\ inFlight.channel = "current")
    BY <2>1, DetectFrame DEF DataInv, TypeOK, CoolInv
  <2>2. CASE inFlight.valid /\ inFlight.channel = "current"
    <3> DEFINE a == AbsoluteCurrentMa(inFlight.value)
               e == Evaluated(a)
    <3>1. /\ a \in Nat
          /\ faults'["overcurrent"] = e.active /\ stress' = e.stress /\ cooled' = e.cooled
          /\ hot' = [l \in Levels |-> IF a < LevelMa[l] THEN 0
                                      ELSE IF hot[l] + Period >= LevelMs[l] THEN LevelMs[l]
                                      ELSE hot[l] + Period]
          /\ cool' = IF a >= RecoveryMa THEN 0
                     ELSE IF cool + Period >= RecoveryMs THEN RecoveryMs ELSE cool + Period
      BY <2>2, DetectStep
    <3>2. /\ e.active \in BOOLEAN /\ e.stress \in 0..StressScale /\ e.cooled \in 0..RecoveryMs
          /\ ~e.active => e.cooled = 0
          /\ e.cooled > 0 => a < RecoveryMa /\ e.cooled <= cooled + Period
      BY <3>1, EvaluatedCases
    <3> HIDE DEF a, e
    <3>3. hot \in [Levels -> Nat] /\ cool \in Nat /\ cooled \in Nat /\ cooled <= cool
      BY LevelFacts DEF DataInv, TypeOK, CoolInv
    <3>4. hot' \in [Levels -> Nat] BY <3>1, <3>3, LevelFacts
    <3>5. cool' \in Nat /\ cooled' <= cool' BY <3>1, <3>2, <3>3, LevelFacts
    <3> QED BY <3>1, <3>2, <3>4, <3>5 DEF CoolInv
  <2> QED BY <2>1, <2>2
<1>5. TypeOK' BY <1>1, <1>2, <1>3, <1>4 DEF DataInv, TypeOK, SafeInv
<1> QED BY <1>2, <1>4, <1>5 DEF DataInv, FlightInv, Nothing

LEMMA ChargerData ==
  ASSUME DataInv, SafeInv, NEW b \in BOOLEAN, SetChargerConnected(b)
  PROVE  DataInv'
<1>1. SafeInv' BY ChargerSafe
<1>2. UNCHANGED <<window, inFlight, faults, bad, stress, cooled, hot, cool>>
  BY DEF SetChargerConnected
<1> QED BY <1>1, <1>2 DEF DataInv, TypeOK, FlightInv, CoolInv, SafeInv

LEMMA DataNext == DataInv /\ SafeInv /\ [Next]_vars => DataInv' /\ SafeInv'
<1> SUFFICES ASSUME DataInv, SafeInv, [Next]_vars PROVE DataInv' /\ SafeInv' OBVIOUS
<1>1. ASSUME NEW ch \in Channels, Sample(ch) PROVE SafeInv'
  BY <1>1 DEF Sample, FilterValid, FilterInvalid, SafeInv
<1>2. CASE UNCHANGED vars BY <1>2 DEF vars, DataInv, TypeOK, FlightInv, CoolInv, SafeInv
<1> QED BY <1>1, <1>2, FilterData, EvaluateSafe, EvaluateData, ChargerSafe, ChargerData DEF Next

\* Every variable keeps its range: the stress and the recovery time never leave theirs,
\* and the windows never outgrow the filter.
THEOREM ProcessingTypes == Spec => []TypeOK
<1>1. Init => DataInv /\ SafeInv BY DataInit, SafeInit
<1> QED BY <1>1, DataNext, PTL DEF Spec, DataInv

-----------------------------------------------------------------------------
(* Overcurrent *)

\* An overcurrent fault is cleared only after the current stayed below the recovery
\* current for the whole delay: neither a bounce nor a charger change shortens it.
THEOREM RecoveryWaits == Spec => ClearsAfterDelay
<1> DEFINE Clears == faults["overcurrent"] /\ ~faults'["overcurrent"]
<1>1. ASSUME DataInv, Evaluate, Clears PROVE cool' >= RecoveryMs
  <2> DEFINE a == AbsoluteCurrentMa(inFlight.value)
             e == Evaluated(a)
  <2>1. inFlight.valid /\ inFlight.channel = "current" BY <1>1, DetectFrame
  <2>2. /\ a \in Nat /\ faults'["overcurrent"] = e.active
        /\ cool' = IF a >= RecoveryMa THEN 0
                   ELSE IF cool + Period >= RecoveryMs THEN RecoveryMs ELSE cool + Period
    BY <1>1, <2>1, DetectStep
  <2>3. ~e.active => a < RecoveryMa /\ cooled + Period >= RecoveryMs
    BY <1>1, <2>2, EvaluatedCases
  <2> HIDE DEF a, e
  <2>4. cool \in Nat /\ cooled \in Nat /\ cooled <= cool
    BY <1>1, LevelFacts DEF DataInv, TypeOK, CoolInv
  <2>5. Period \in Nat /\ RecoveryMs \in Nat /\ RecoveryMa \in Nat BY LevelFacts
  <2> QED BY <1>1, <2>2, <2>3, <2>4, <2>5
<1>2. DataInv /\ [Next]_vars => [Clears => cool' >= RecoveryMs]_vars
  BY <1>1 DEF Next, Sample, FilterValid, FilterInvalid, SetChargerConnected
<1>3. Init => DataInv /\ SafeInv BY DataInit, SafeInit
<1> QED BY <1>2, <1>3, DataNext, PTL DEF Spec, ClearsAfterDelay

\* While nothing has tripped, the stress is at least what each level's time asks for.
StressInv ==
  ~faults["overcurrent"] =>
    /\ stress < StressScale
    /\ \A l \in Levels : hot[l] <= LevelMs[l] /\ StressScale * hot[l] <= stress * LevelMs[l]

\* A sample at a level adds no less than the share of that level.
LEMMA ReachedShare ==
  ASSUME ExactTimes, NEW l \in Levels, NEW a \in Nat, a >= LevelMa[l]
  PROVE  StressIncrement(a) \in Nat /\ StressIncrement(a) * LevelMs[l] >= StressScale * Period
<1>1. ASSUME NEW k \in Levels, LevelMs[k] <= LevelMs[l]
      PROVE  Share(k) \in Nat /\ Share(k) * LevelMs[l] >= StressScale * Period
  <2> DEFINE x == StressScale * Period
  <2>1. /\ x \in Nat /\ x % LevelMs[k] = 0
        /\ LevelMs[k] \in Nat \ {0} /\ LevelMs[l] \in Nat \ {0}
    BY LevelFacts DEF ExactTimes
  <2>2. Share(k) = x \div LevelMs[k] BY DEF Share
  <2>3. \A y \in Nat, m \in Nat \ {0} : y % m = 0 => (y \div m) \in Nat /\ (y \div m) * m = y
    OBVIOUS
  <2> HIDE DEF x
  <2>4. Share(k) \in Nat /\ Share(k) * LevelMs[k] = x BY <2>1, <2>2, <2>3
  <2>5. \A q, m, n \in Nat : m <= n => q * m <= q * n OBVIOUS
  <2>6. Share(k) * LevelMs[k] <= Share(k) * LevelMs[l] BY <1>1, <2>1, <2>4, <2>5
  <2> QED BY <2>1, <2>4, <2>6 DEF x
<1>2. StressScale * LevelMs[l] >= StressScale * Period
  <2>1. \A q, m, n \in Nat : m <= n => q * m <= q * n OBVIOUS
  <2> QED BY <2>1, LevelFacts
<1>3. Levels = {"low", "medium", "high"} BY DEF Levels
<1>4. /\ {LevelMa["low"], LevelMa["medium"], LevelMa["high"], CutoffMa} \subseteq Nat
      /\ LevelMa["low"] < LevelMa["medium"] /\ LevelMa["medium"] < LevelMa["high"]
      /\ LevelMa["high"] < CutoffMa
  BY <1>3, LevelFacts
<1>5. /\ {LevelMs["low"], LevelMs["medium"], LevelMs["high"]} \subseteq Nat
      /\ LevelMs["high"] <= LevelMs["medium"] /\ LevelMs["medium"] <= LevelMs["low"]
  BY <1>3, LevelFacts DEF ExactTimes
<1>6. \/ StressIncrement(a) = StressScale
      \/ \E k \in Levels : StressIncrement(a) = Share(k) /\ LevelMs[k] <= LevelMs[l]
  <2>1. CASE a >= CutoffMa BY <2>1, HighestLevel
  <2>2. CASE a < CutoffMa /\ a >= LevelMa["high"]
    <3>1. StressIncrement(a) = Share("high") BY <2>2, HighestLevel
    <3>2. LevelMs["high"] <= LevelMs[l] BY <1>3, <1>5
    <3> QED BY <1>3, <3>1, <3>2
  <2>3. CASE a < LevelMa["high"] /\ a >= LevelMa["medium"]
    <3>1. StressIncrement(a) = Share("medium") BY <2>3, HighestLevel
    <3>2. l # "high" BY <1>4, <2>3
    <3>3. LevelMs["medium"] <= LevelMs[l] BY <1>3, <1>5, <3>2
    <3> QED BY <1>3, <3>1, <3>3
  <2>4. CASE a < LevelMa["medium"]
    <3>1. l = "low" BY <1>3, <1>4, <2>4
    <3>2. StressIncrement(a) = Share("low") BY <2>4, <3>1, HighestLevel
    <3> QED BY <1>5, <3>1, <3>2
  <2> QED BY <1>4, <2>1, <2>2, <2>3, <2>4
<1> QED BY <1>1, <1>2, <1>6, LevelFacts

LEMMA EvaluateStress ==
  ASSUME ExactTimes, DataInv, StressInv, Evaluate
  PROVE  StressInv'
<1>1. CASE ~(inFlight.valid /\ inFlight.channel = "current")
  BY <1>1, DetectFrame DEF StressInv
<1>2. CASE inFlight.valid /\ inFlight.channel = "current"
  <2> SUFFICES ASSUME ~faults'["overcurrent"]
               PROVE  /\ stress' < StressScale
                      /\ \A l \in Levels : /\ hot'[l] <= LevelMs[l]
                                           /\ StressScale * hot'[l] <= stress' * LevelMs[l]
    BY DEF StressInv
  <2> DEFINE a == AbsoluteCurrentMa(inFlight.value)
             e == Evaluated(a)
  <2>1. /\ a \in Nat
        /\ faults'["overcurrent"] = e.active /\ stress' = e.stress
        /\ hot' = [l \in Levels |-> IF a < LevelMa[l] THEN 0
                                    ELSE IF hot[l] + Period >= LevelMs[l] THEN LevelMs[l]
                                    ELSE hot[l] + Period]
    BY <1>2, DetectStep
  <2>2. /\ e.stress \in 0..StressScale
        /\ ~e.active => e.stress < StressScale
        /\ ~e.active /\ ~faults["overcurrent"] => e.stress = stress + StressIncrement(a)
        /\ ~e.active /\ faults["overcurrent"] => a < RecoveryMa
    BY <2>1, EvaluatedCases
  <2> HIDE DEF a, e
  <2>3. stress' < StressScale /\ stress' \in Nat BY <2>1, <2>2, LevelFacts
  <2>4. ASSUME NEW l \in Levels
        PROVE  hot'[l] <= LevelMs[l] /\ StressScale * hot'[l] <= stress' * LevelMs[l]
    <3>0. /\ LevelMs[l] \in Nat /\ LevelMa[l] \in Nat /\ StressScale \in Nat /\ Period \in Nat
          /\ hot[l] \in Nat /\ stress \in Nat
          /\ hot'[l] = IF a < LevelMa[l] THEN 0
                       ELSE IF hot[l] + Period >= LevelMs[l] THEN LevelMs[l] ELSE hot[l] + Period
      BY <2>1, LevelFacts DEF DataInv, TypeOK
    <3>1. CASE a < LevelMa[l]
      <4>1. hot'[l] = 0 /\ StressScale * 0 = 0 BY <3>0, <3>1
      <4>2. stress' * LevelMs[l] \in Nat BY <2>3, <3>0
      <4> QED BY <3>0, <4>1, <4>2
    <3>2. CASE a >= LevelMa[l]
      <4>1. ~faults["overcurrent"]
        <5>1. RecoveryMa < LevelMa[l]
          <6>1. Levels = {"low", "medium", "high"} BY DEF Levels
          <6>2. \A k \in Levels : LevelMa[k] \in Nat BY LevelFacts
          <6> QED BY <6>1, <6>2, LevelFacts
        <5> QED BY <2>1, <2>2, <3>0, <3>2, <5>1, LevelFacts
      <4>2. stress' = stress + StressIncrement(a) BY <2>1, <2>2, <4>1
      <4>3. StressIncrement(a) \in Nat /\ StressIncrement(a) * LevelMs[l] >= StressScale * Period
        BY <2>1, <3>2, ReachedShare
      <4>4. StressScale * hot[l] <= stress * LevelMs[l] BY <4>1 DEF StressInv
      <4>5. hot'[l] \in Nat /\ hot'[l] <= hot[l] + Period /\ hot'[l] <= LevelMs[l]
        BY <2>1, <3>0, <3>2
      <4>6. stress' * LevelMs[l] = stress * LevelMs[l] + StressIncrement(a) * LevelMs[l]
        <5>1. \A x, y, m \in Nat : (x + y) * m = x * m + y * m OBVIOUS
        <5> QED BY <3>0, <4>2, <4>3, <5>1
      <4>7. StressScale * (hot[l] + Period) = StressScale * hot[l] + StressScale * Period
        <5>1. \A s, x, y \in Nat : s * (x + y) = s * x + s * y OBVIOUS
        <5> QED BY <3>0, <5>1
      <4>8. StressScale * hot'[l] <= StressScale * (hot[l] + Period)
        <5>1. \A q, m, n \in Nat : m <= n => q * m <= q * n OBVIOUS
        <5>2. hot[l] + Period \in Nat BY <3>0
        <5> QED BY <3>0, <4>5, <5>1, <5>2
      <4>9. \A q, m \in Nat : q * m \in Nat OBVIOUS
      <4>p. /\ StressScale * hot[l] \in Nat /\ StressScale * Period \in Nat
            /\ StressScale * hot'[l] \in Nat
            /\ stress * LevelMs[l] \in Nat /\ StressIncrement(a) * LevelMs[l] \in Nat
        BY <3>0, <4>3, <4>5, <4>9
      <4> QED BY <4>3, <4>4, <4>5, <4>6, <4>7, <4>8, <4>p
    <3> QED BY <2>1, <3>0, <3>1, <3>2
  <2> QED BY <2>3, <2>4
<1> QED BY <1>1, <1>2

\* A current that stays at or above a level for the time allowed at that level has
\* tripped, whatever currents came before it: the stress that mixed levels add up to is
\* never less than what the time at one level alone would have brought.
THEOREM TripsWithoutDelay ==
  ASSUME ExactTimes
  PROVE  Spec => []TripsInTime
<1>1. Init => StressInv
  <2>1. \A m \in Nat : 0 * m = 0 /\ m * 0 = 0 OBVIOUS
  <2> QED BY <2>1, LevelFacts DEF Init, StressInv
<1>2. DataInv /\ StressInv /\ [Next]_vars => StressInv'
  <2>1. CASE \E ch \in Channels : Sample(ch)
    BY <2>1 DEF Sample, FilterValid, FilterInvalid, StressInv
  <2>2. CASE \E b \in BOOLEAN : SetChargerConnected(b)
    BY <2>2 DEF SetChargerConnected, StressInv
  <2>3. CASE UNCHANGED vars BY <2>3 DEF vars, StressInv
  <2> QED BY <2>1, <2>2, <2>3, EvaluateStress DEF Next
<1>3. DataInv /\ StressInv => TripsInTime
  <2> SUFFICES ASSUME DataInv, StressInv, NEW l \in Levels, hot[l] >= LevelMs[l],
                      ~faults["overcurrent"]
               PROVE  FALSE
    BY DEF TripsInTime
  <2>1. /\ hot[l] <= LevelMs[l] /\ StressScale * hot[l] <= stress * LevelMs[l]
        /\ stress < StressScale
    BY DEF StressInv
  <2>2. /\ hot[l] \in Nat /\ stress \in Nat /\ StressScale \in Nat
        /\ LevelMs[l] \in Nat \ {0}
    BY LevelFacts DEF DataInv, TypeOK
  <2>3. hot[l] = LevelMs[l] BY <2>1, <2>2
  <2>4. \A s, t \in Nat, m \in Nat \ {0} : s < t => s * m < t * m OBVIOUS
  <2>5. stress * LevelMs[l] < StressScale * LevelMs[l] BY <2>1, <2>2, <2>4
  <2>6. \A q, m \in Nat : q * m \in Nat OBVIOUS
  <2> QED BY <2>1, <2>2, <2>3, <2>5, <2>6
<1>4. Init => DataInv /\ SafeInv BY DataInit, SafeInit
<1> QED BY <1>1, <1>2, <1>3, <1>4, DataNext, PTL DEF Spec

-----------------------------------------------------------------------------
(* Limits *)

LEMMA VoltageStep ==
  ASSUME DataInv, Evaluate, NEW k \in {"overvoltage", "undervoltage"},
         faults'[k] # faults[k]
  PROVE  inFlight.valid /\ inFlight.channel = "voltage"
<1>1. faults \in FaultStatuses BY DEF DataInv, TypeOK
<1> QED BY <1>1 DEF Evaluate, DetectCurrent, WithSensors, TemperatureFaults, FaultStatuses, FaultKinds

LEMMA LimitsExclude == DataInv /\ OneLimitAtATime /\ Evaluate => OneLimitAtATime'
<1> SUFFICES ASSUME DataInv, OneLimitAtATime, Evaluate PROVE OneLimitAtATime' OBVIOUS
<1>0. faults \in FaultStatuses BY DEF DataInv, TypeOK
<1>1. inFlight.channel \in Channels /\ inFlight.value \in Int BY FlightType DEF Evaluate
<1> DEFINE x == inFlight.value
<1>2. ASSUME NEW low \in Int, NEW lowRecovery \in Int, NEW high \in Int, NEW highRecovery \in Int,
             low < lowRecovery, lowRecovery < highRecovery, highRecovery < high,
             NEW p, NEW q, NEW y \in Int
      PROVE  ~(DetectAbove(p, y, high, highRecovery) /\ DetectBelow(q, y, low, lowRecovery))
  BY <1>2 DEF DetectAbove, DetectBelow
<1>3. /\ {OvLimit, OvRecovery, UvLimit, UvRecovery} \subseteq Int
      /\ {OtLimit, OtRecovery, UtLimit, UtRecovery} \subseteq Int
      /\ UvLimit < UvRecovery /\ UvRecovery < OvRecovery /\ OvRecovery < OvLimit
      /\ UtLimit < UtRecovery /\ UtRecovery < OtRecovery /\ OtRecovery < OtLimit
  BY LimitAssumption
<1> HIDE DEF x
<1>4. CASE inFlight.valid /\ inFlight.channel = "voltage"
  <2>1. faults' = WithSensors(VoltageFaults(x)) BY <1>4 DEF Evaluate, x
  <2>2. /\ faults'["overvoltage"] = DetectAbove(faults["overvoltage"], x, OvLimit, OvRecovery)
        /\ faults'["undervoltage"] = DetectBelow(faults["undervoltage"], x, UvLimit, UvRecovery)
        /\ faults'["overtemperature"] = faults["overtemperature"]
        /\ faults'["undertemperature"] = faults["undertemperature"]
    BY <1>0, <2>1 DEF WithSensors, VoltageFaults, FaultStatuses, FaultKinds
  <2>3. x \in Int BY <1>1 DEF x
  <2>4. ~(faults'["overvoltage"] /\ faults'["undervoltage"]) BY <1>2, <1>3, <2>2, <2>3
  <2> QED BY <2>2, <2>4 DEF OneLimitAtATime
<1>5. CASE inFlight.valid /\ inFlight.channel = "temperature"
  <2>1. faults' = WithSensors(TemperatureFaults(x)) BY <1>5 DEF Evaluate, x
  <2>2. /\ faults'["overtemperature"]
             = DetectAbove(faults["overtemperature"], x, OtLimit, OtRecovery)
        /\ faults'["undertemperature"]
             = DetectBelow(faults["undertemperature"], x, UtLimit, UtRecovery)
        /\ faults'["overvoltage"] = faults["overvoltage"]
        /\ faults'["undervoltage"] = faults["undervoltage"]
    BY <1>0, <2>1 DEF WithSensors, TemperatureFaults, FaultStatuses, FaultKinds
  <2>3. x \in Int BY <1>1 DEF x
  <2>4. ~(faults'["overtemperature"] /\ faults'["undertemperature"]) BY <1>2, <1>3, <2>2, <2>3
  <2> QED BY <2>2, <2>4 DEF OneLimitAtATime
<1>6. CASE ~(inFlight.valid /\ inFlight.channel \in {"voltage", "temperature"})
  <2>1. \A k \in FaultKinds \ {"sensor_fault", "overcurrent"} : faults'[k] = faults[k]
    BY <1>0, <1>6 DEF Evaluate, DetectCurrent, WithSensors, FaultStatuses, FaultKinds
  <2> QED BY <2>1 DEF OneLimitAtATime, FaultKinds
<1> QED BY <1>1, <1>4, <1>5, <1>6

\* The two limits of one quantity never trip together, although one reading may jump
\* over both thresholds and each latch holds on until its own recovery:
\* UpdateFaultStatus reports one of them only (bms_fsm.cpp:247-261).
THEOREM LimitsAreExclusive == Spec => []OneLimitAtATime
<1>1. Init => OneLimitAtATime BY DEF Init, OneLimitAtATime, NoFault, FaultKinds
<1>2. DataInv /\ OneLimitAtATime /\ [Next]_vars => OneLimitAtATime'
  BY LimitsExclude
     DEF Next, Sample, FilterValid, FilterInvalid, SetChargerConnected, vars, OneLimitAtATime
<1>3. Init => DataInv /\ SafeInv BY DataInit, SafeInit
<1> QED BY <1>1, <1>2, <1>3, DataNext, PTL DEF Spec

LEMMA MedianAbove ==
  ASSUME NEW w \in Seq(Int), w # <<>>, NEW limit \in Int, Median(w) > limit
  PROVE  2 * Cardinality(Over(w, limit)) >= Len(w)
<1> DEFINE n == Len(w)
           m == Median(w)
<1>1. n \in Nat /\ \A i \in 1..n : w[i] \in Int OBVIOUS
<1>2. m \in Int /\ Cardinality(Under(w, m)) <= n \div 2 BY MedianRank
<1>3. AtMost(w, limit) \subseteq Under(w, m) BY <1>1, <1>2 DEF AtMost, Under
<1>4. Over(w, limit) = (1..n) \ AtMost(w, limit) BY <1>1 DEF AtMost, Over
<1> HIDE DEF n, m
<1>5. IsFiniteSet(1..n) /\ Cardinality(1..n) = n BY <1>1, FS_Interval
<1>6. Under(w, m) \subseteq 1..n /\ AtMost(w, limit) \subseteq 1..n BY DEF Under, AtMost, n
<1>7. IsFiniteSet(Under(w, m)) BY <1>5, <1>6, FS_Subset
<1>8. /\ IsFiniteSet(AtMost(w, limit))
      /\ Cardinality(AtMost(w, limit)) <= Cardinality(Under(w, m))
  BY <1>3, <1>7, FS_Subset
<1>9. Cardinality(Over(w, limit)) = n - Cardinality(AtMost(w, limit))
  <2>1. (1..n) \cap AtMost(w, limit) = AtMost(w, limit) BY <1>6
  <2>2. Cardinality((1..n) \ AtMost(w, limit))
          = Cardinality(1..n) - Cardinality((1..n) \cap AtMost(w, limit))
    BY <1>5, FS_Difference
  <2> QED BY <1>4, <1>5, <2>1, <2>2
<1>10. Cardinality(AtMost(w, limit)) \in Nat /\ Cardinality(Under(w, m)) \in Nat
  BY <1>7, <1>8, FS_CardinalityType
<1>11. \A y \in Nat : y \div 2 \in Nat /\ 2 * (y \div 2) <= y OBVIOUS
<1>12. 2 * Cardinality(Over(w, limit)) >= n BY <1>1, <1>2, <1>8, <1>9, <1>10, <1>11
<1> QED BY <1>12 DEF n

LEMMA MedianBelow ==
  ASSUME NEW w \in Seq(Int), w # <<>>, NEW limit \in Int, Median(w) < limit
  PROVE  2 * Cardinality(Under(w, limit)) > Len(w)
<1> DEFINE n == Len(w)
           m == Median(w)
<1>1. n \in Nat /\ \A i \in 1..n : w[i] \in Int OBVIOUS
<1>2. m \in Int /\ Cardinality(AtMost(w, m)) > n \div 2 BY MedianRank
<1>3. AtMost(w, m) \subseteq Under(w, limit) BY <1>1, <1>2 DEF AtMost, Under
<1> HIDE DEF m
<1>4. Under(w, limit) \in SUBSET (1..n) /\ AtMost(w, m) \in SUBSET (1..n) BY DEF Under, AtMost
<1> HIDE DEF n
<1>5. IsFiniteSet(Under(w, limit)) /\ Cardinality(Under(w, limit)) \in Nat
  BY <1>1, <1>4, PositionCounts
<1>6. Cardinality(AtMost(w, m)) <= Cardinality(Under(w, limit)) BY <1>3, <1>5, FS_Subset
<1>7. Cardinality(AtMost(w, m)) \in Nat BY <1>1, <1>4, PositionCounts
<1>8. \A y \in Nat : y \div 2 \in Nat /\ 2 * (y \div 2) + 1 >= y OBVIOUS
<1>9. 2 * Cardinality(Under(w, limit)) > n BY <1>1, <1>2, <1>5, <1>6, <1>7, <1>8
<1> QED BY <1>9 DEF n

\* A limit trips only when at least half of the readings in the filter window are beyond
\* it, whatever the window's size: a single spike in a full window trips nothing.
THEOREM SpikesAreRejected == Spec => SpikesRejected
<1> DEFINE OnlyWhenBeyond ==
             /\ ~faults["overvoltage"] /\ faults'["overvoltage"] =>
                  2 * Beyond("voltage", OvLimit) >= Len(window["voltage"])
             /\ ~faults["undervoltage"] /\ faults'["undervoltage"] =>
                  2 * Below("voltage", UvLimit) > Len(window["voltage"])
<1>1. ASSUME DataInv, Evaluate PROVE OnlyWhenBeyond
  <2>0. /\ faults \in FaultStatuses
        /\ OvLimit \in Int /\ UvLimit \in Int
        /\ window["voltage"] \in Seq(Int)
    BY <1>1, LimitAssumption DEF DataInv, TypeOK, Channels
  <2> DEFINE w == window["voltage"]
  <2>1. ASSUME inFlight.valid, inFlight.channel = "voltage"
        PROVE  /\ w # <<>> /\ inFlight.value = Median(w)
               /\ faults'["overvoltage"]
                    = DetectAbove(faults["overvoltage"], Median(w), OvLimit, OvRecovery)
               /\ faults'["undervoltage"]
                    = DetectBelow(faults["undervoltage"], Median(w), UvLimit, UvRecovery)
    <3>1. w # <<>> /\ inFlight.value = Median(w) BY <1>1, <2>1 DEF DataInv, FlightInv
    <3>2. faults' = WithSensors(VoltageFaults(inFlight.value)) BY <1>1, <2>1 DEF Evaluate
    <3> QED BY <2>0, <3>1, <3>2 DEF WithSensors, VoltageFaults, FaultStatuses, FaultKinds
  <2> HIDE DEF w
  <2>2. w \in Seq(Int) BY <2>0 DEF w
  <2>3. ASSUME ~faults["overvoltage"], faults'["overvoltage"]
        PROVE  2 * Cardinality(Over(w, OvLimit)) >= Len(w)
    <3>1. inFlight.valid /\ inFlight.channel = "voltage" BY <1>1, <2>3, VoltageStep
    <3>2. w # <<>> /\ Median(w) > OvLimit BY <2>1, <2>3, <3>1 DEF DetectAbove
    <3> QED BY <2>0, <2>2, <3>2, MedianAbove
  <2>4. ASSUME ~faults["undervoltage"], faults'["undervoltage"]
        PROVE  2 * Cardinality(Under(w, UvLimit)) > Len(w)
    <3>1. inFlight.valid /\ inFlight.channel = "voltage" BY <1>1, <2>4, VoltageStep
    <3>2. w # <<>> /\ Median(w) < UvLimit BY <2>1, <2>4, <3>1 DEF DetectBelow
    <3> QED BY <2>0, <2>2, <3>2, MedianBelow
  <2> QED BY <2>3, <2>4 DEF Beyond, Below, Over, Under, w
<1>2. DataInv /\ [Next]_vars => [OnlyWhenBeyond]_vars
  BY <1>1 DEF Next, Sample, FilterValid, FilterInvalid, SetChargerConnected
<1>3. Init => DataInv /\ SafeInv BY DataInit, SafeInit
<1> QED BY <1>2, <1>3, DataNext, PTL DEF Spec, SpikesRejected
=============================================================================
