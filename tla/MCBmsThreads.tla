---------------------------- MODULE MCBmsThreads ----------------------------
(***************************************************************************)
(* BmsThreads for TLC: queues of two, a work queue of one, and three       *)
(* environments: a voltage above the limit sampled next to a current, a    *)
(* voltage sensor that answers below zero, and a button that bounces while *)
(* the voltage is too high.                                                *)
(***************************************************************************)
EXTENDS BmsThreads

MCVoltages == {9}
MCCurrents == {1}
NoSamples == {}

MinusTwo == -2
MinusFour == -4
MCLevelMa == [l \in Levels |-> CASE l = "low" -> 4 [] l = "medium" -> 6 [] l = "high" -> 8]
MCLevelMs == [l \in Levels |-> CASE l = "low" -> 6 [] l = "medium" -> 4 [] l = "high" -> 2]

High == Reading("voltage", TRUE, 9)
Sampling == [moves |-> 0, readings |-> {High, Reading("current", TRUE, 1)}]
Negative == [moves |-> 0, readings |-> {Reading("voltage", TRUE, -1)}]
Bouncing == [moves |-> 3, readings |-> {High}]
MCEnvironments == {Sampling, Negative, Bouncing}
=============================================================================
