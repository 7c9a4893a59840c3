----------------------------- MODULE MCSortition -----------------------------
(***************************************************************************)
(* The calls whose outcomes TLC can count: total_stake^draws < 2^31.       *)
(***************************************************************************)
EXTENDS Sortition

MaxDelta(total_stake) ==
    CASE total_stake = 1 -> 10
      [] total_stake = 2 -> 10
      [] total_stake = 3 -> 5
      [] total_stake = 4 -> 3
      [] total_stake \in 5 .. 9 -> 1

ThresholdCalls ==
    UNION {[fn : {"confirmation_threshold", "fork_threshold"}, total_stake : {w},
            tau : 1 .. w, delta_r : 1 .. MaxDelta(w)] : w \in 1 .. 9}

SortitionCalls ==
    UNION {[fn : {"run_sortition"}, total_stake : {w}, tau : 1 .. w,
            stake : 0 .. w, hash : 0 .. Grid - 1] : w \in 1 .. 4}

MCCalls == ThresholdCalls \cup SortitionCalls

\* The call of the documented chance: one of two stakes, two of them the node's.
TwoStakes == [fn : {"run_sortition"}, total_stake : {2}, tau : {1},
              stake : 1 .. 2, hash : 0 .. Grid - 1]
=============================================================================
