----------------------------- MODULE SampleFeed -----------------------------
(***************************************************************************)
(* What the two queues between the sensors and the processing thread       *)
(* promise together: samples are processed in the order in which the       *)
(* sensors gave them, each at most once, and one is lost only when         *)
(* QueueSize newer ones wait behind it ("drops the oldest raw input to     *)
(* keep the newest safety data").                                          *)
(***************************************************************************)
EXTENDS Naturals, Sequences, SequencesExt

CONSTANTS QueueSize, NoSample

VARIABLES
  newest,      \* per channel the last sample the sensor gave
  pending,     \* samples on their way, oldest first
  working      \* the sample in processing, or NoSample

feedVars == <<newest, pending, working>>

FeedInit(first) == newest = first /\ pending = <<>> /\ working = NoSample

\* Any one sample may go that has QueueSize newer ones behind it.
MayLose(q) == {q} \cup {RemoveAt(q, i) : i \in 1..(Len(q) - QueueSize)}

\* The sensor gives a sample: it is the last one on its way.
Give ==
  /\ pending' # <<>>
  /\ LET s == Last(pending') IN
       /\ newest' = [newest EXCEPT ![s.channel] = s]
       /\ pending' \in MayLose(Append(pending, s))
  /\ UNCHANGED working

Lose == pending' \in MayLose(pending) /\ UNCHANGED <<newest, working>>

Begin ==
  /\ working = NoSample /\ pending # <<>>
  /\ working' = Head(pending) /\ pending' = Tail(pending)
  /\ UNCHANGED newest

Finish == working # NoSample /\ working' = NoSample /\ UNCHANGED <<newest, pending>>

FeedNext == Give \/ Lose \/ Begin \/ Finish
=============================================================================
