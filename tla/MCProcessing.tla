---------------------------- MODULE MCProcessing ----------------------------
(***************************************************************************)
(* Small instances of Processing for TLC.  The limits keep the order of    *)
(* bms_parameters.hpp; samples lie on and beside every threshold.  The     *)
(* allowed times are multiples of the sample period, as in the code.       *)
(***************************************************************************)
EXTENDS Processing, TLC

\* UvLimit 2, UvRecovery 4, OvRecovery 6, OvLimit 8
MCVoltages == {1, 2, 3, 5, 7, 8, 9}
FewVoltages == {1, 5, 9}
\* UtLimit -4, UtRecovery -2, OtRecovery 2, OtLimit 4
MCTemperatures == {-5, 0, 3, 5}
FewTemperatures == {0, 5}
\* RecoveryMa 2, levels 4, 6, 8, cutoff 10
FewCurrents == {1, -10}
SomeCurrents == {1, 3, 4, 6, -10}

NoSamples == {}

\* Ranks find what sorting finds: the k-th sample of the sorted window (median_filter.hpp:27-40).
ASSUME RanksSort ==
  \A w \in UNION {[1..n -> -1..1] : n \in 1..5} :
    \A k \in 0..(Len(w) - 1) : Sorted(w, k) = SortSeq(w, <)[k + 1]

ASSUME ExactTimes

MinusTwo == -2
MinusFour == -4
MCLevelMa == [l \in Levels |-> CASE l = "low" -> 4 [] l = "medium" -> 6 [] l = "high" -> 8]
MCLevelMs == [l \in Levels |-> CASE l = "low" -> 6 [] l = "medium" -> 4 [] l = "high" -> 2]
=============================================================================
