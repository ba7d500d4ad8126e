-------------------------- MODULE MCPlanActivation --------------------------
(***************************************************************************)
(* Instances of PlanActivation for TLC.                                    *)
(***************************************************************************)
EXTENDS PlanActivationInv, TLC

\* Identities, request slots and writer slots are interchangeable; so are
\* the plans that are not in use at the start.
Symmetry == Permutations(Ids) \cup Permutations(Requests)
            \cup Permutations(Writers) \cup Permutations(Plans \ {First})
=============================================================================
