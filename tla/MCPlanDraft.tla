---------------------------- MODULE MCPlanDraft ----------------------------
(***************************************************************************)
(* Instances of PlanDraft for TLC.                                         *)
(***************************************************************************)
EXTENDS PlanDraft, TLC

\* Pages, bundles and Measures of the Active plan are interchangeable.
Symmetry == Permutations(Admins) \cup Permutations(Bundles)
            \cup Permutations(Sources)
=============================================================================
