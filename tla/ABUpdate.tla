------------------------------ MODULE ABUpdate ------------------------------
(***************************************************************************)
(* What the dual-slot bootloader promises, without slots, metadata pages   *)
(* or frames.  The device has at most one accepted image and at most one   *)
(* image on trial.  A trial image may be started a limited number of times *)
(* and becomes the accepted one only while it runs; the accepted image is  *)
(* started when no trial image is left.  A record write that is lost makes *)
(* the device forget both (the record has a single copy).                  *)
(***************************************************************************)
EXTENDS Naturals

CONSTANTS
  Images,
  NoImage,  \* not one of Images
  Budget    \* starts that a trial image is given, at least 1

VARIABLES
  accepted,   \* the image the device falls back to
  trial,      \* the installed image that is not accepted yet
  budget,     \* starts the trial image has left
  running     \* the image that runs

vars == <<accepted, trial, budget, running>>

Maybe == Images \cup {NoImage}

Init == accepted = NoImage /\ trial = NoImage /\ budget = 0 /\ running = NoImage

Install ==
  /\ running = NoImage
  /\ trial' \in Images /\ budget' = Budget
  /\ UNCHANGED <<accepted, running>>

StartTrial ==
  /\ running = NoImage /\ trial # NoImage /\ budget > 0
  /\ running' = trial /\ budget' = budget - 1
  /\ UNCHANGED <<accepted, trial>>

StartAccepted ==
  /\ running = NoImage /\ trial = NoImage /\ accepted # NoImage
  /\ running' = accepted
  /\ UNCHANGED <<accepted, trial, budget>>

Accept ==
  /\ trial # NoImage /\ running = trial
  /\ accepted' = trial /\ trial' = NoImage /\ budget' = 0
  /\ UNCHANGED running

Reject ==
  /\ running = NoImage /\ trial # NoImage
  /\ trial' = NoImage /\ budget' = 0
  /\ UNCHANGED <<accepted, running>>

Stop ==
  /\ running # NoImage
  /\ running' = NoImage
  /\ UNCHANGED <<accepted, trial, budget>>

\* A metadata write is lost, with or without the board stopping.
Forget ==
  /\ accepted' = NoImage /\ trial' = NoImage /\ budget' = 0
  /\ running' \in {running, NoImage}

Next == Install \/ StartTrial \/ StartAccepted \/ Accept \/ Reject \/ Stop \/ Forget

Spec == Init /\ [][Next]_vars
=============================================================================
