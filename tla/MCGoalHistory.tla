----------------------------- MODULE MCGoalHistory -----------------------------
(* Small instances of GoalHistory.                                          *)
EXTENDS GoalHistory, TLC

Rule(type, count) == [type |-> type, count |-> count]

MCRules == {Rule("threshold_count", 1), Rule("manual_status", 0)}

MCSymmetry == Permutations(Versions) \cup Permutations(Measures)
=============================================================================
