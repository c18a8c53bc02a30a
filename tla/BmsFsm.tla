------------------------------- MODULE BmsFsm -------------------------------
(***************************************************************************)
(* The state machine of the battery management system                      *)
(* (application/domain/bms_fsm.cpp) as functions on its context: each       *)
(* handler maps a context to the next one.  Entering a state switches the  *)
(* relays at once, so a context also records its path: the state in which   *)
(* the current call found it and every state entered since.                *)
(***************************************************************************)
EXTENDS Naturals, Sequences

BmsStates == {"IdleDischarge", "Charge", "Secure"}
Inputs == {"voltage", "temperature", "current", "sensor"}
FaultKinds == {"sensor_fault", "overvoltage", "undervoltage", "overtemperature",
               "undertemperature", "overcurrent"}
FaultStatuses == [FaultKinds -> BOOLEAN]
NoFault == [k \in FaultKinds |-> FALSE]

Contexts ==
  [state : BmsStates, started : BOOLEAN, charger : BOOLEAN, nominal : [Inputs -> BOOLEAN],
   path : Seq(BmsStates)]

InitContext ==
  [state |-> "IdleDischarge", started |-> FALSE, charger |-> FALSE,
   nominal |-> [i \in Inputs |-> TRUE], path |-> <<"IdleDischarge">>]

-----------------------------------------------------------------------------
Called(c) == [c EXCEPT !.path = <<c.state>>]    \* a call from outside begins
Enter(c, s) == [c EXCEPT !.path = Append(@, s)]

SetState(c, s) == IF c.state = s THEN c ELSE Enter([c EXCEPT !.state = s], s)

Start(c) == IF c.started THEN c ELSE Enter([c EXCEPT !.started = TRUE], c.state)

AllInputsNominal(c) == \A i \in Inputs : c.nominal[i]

ReturnToOperatingState(c) == SetState(c, IF c.charger THEN "Charge" ELSE "IdleDischarge")

SetNominal(c, i, b) == [c EXCEPT !.nominal[i] = b]

(* Events *)

HandleChargerConnected(c) ==
  LET d == [c EXCEPT !.charger = TRUE] IN
  IF c.state = "IdleDischarge" THEN SetState(d, "Charge") ELSE d

HandleChargerDisconnected(c) ==
  LET d == [c EXCEPT !.charger = FALSE] IN
  IF c.state = "Charge" THEN SetState(d, "IdleDischarge") ELSE d

\* VoltageTooHigh, TemperatureTooHigh and TooLow, CurrentTooHigh, SensorFault.
HandleFault(c, i) == SetState(SetNominal(c, i, FALSE), "Secure")

\* Mutated form: tolerated in every state.
AlwaysTolerated(c) == SetNominal(c, "voltage", FALSE)

\* Charge and Secure tolerate it.
HandleVoltageTooLow(c) ==
  LET d == SetNominal(c, "voltage", FALSE) IN
  IF c.state = "IdleDischarge" THEN SetState(d, "Secure") ELSE d

\* Mutated form: Secure is left when this input is nominal.
ForgetsOthers(c, i) ==
  LET d == SetNominal(c, i, TRUE) IN
  IF c.state = "Secure" THEN ReturnToOperatingState(d) ELSE d

HandleNominal(c, i) ==
  LET d == SetNominal(c, i, TRUE) IN
  IF c.state = "Secure" /\ AllInputsNominal(d) THEN ReturnToOperatingState(d) ELSE d

-----------------------------------------------------------------------------
(* UpdateFaultStatus dispatches one event per input, in this order, each to *)
(* the state that the events before it have led to.                        *)

SensorEvent(c, f) ==
  IF f["sensor_fault"] THEN HandleFault(c, "sensor") ELSE HandleNominal(c, "sensor")

VoltageEvent(c, f) ==
  IF f["overvoltage"] THEN HandleFault(c, "voltage")
  ELSE IF f["undervoltage"] THEN HandleVoltageTooLow(c)
  ELSE HandleNominal(c, "voltage")

TemperatureEvent(c, f) ==
  IF f["overtemperature"] \/ f["undertemperature"] THEN HandleFault(c, "temperature")
  ELSE HandleNominal(c, "temperature")

CurrentEvent(c, f) ==
  IF f["overcurrent"] THEN HandleFault(c, "current") ELSE HandleNominal(c, "current")

UpdateFaultStatus(c, f) ==
  CurrentEvent(TemperatureEvent(VoltageEvent(SensorEvent(Start(c), f), f), f), f)

-----------------------------------------------------------------------------
\* What a context promises about the faults f that it has been told of.
\*  - a fault other than undervoltage keeps the relays open;
\*  - the discharge relay is closed only without any fault;
\*  - the charge relay is closed only with a charger, the discharge relay only
\*    without one;
\*  - Secure is held only while there is a fault.
Protective(f) == \E k \in FaultKinds \ {"undervoltage"} : f[k]

Settled(c, f) ==
  /\ Protective(f) => c.state = "Secure"
  /\ f["undervoltage"] => c.state # "IdleDischarge"
  /\ c.state = "Charge" => c.charger
  /\ c.state = "IdleDischarge" => ~c.charger
  /\ c.state = "Secure" => \E k \in FaultKinds : f[k]
=============================================================================
