----------------------------- MODULE PlanSwitch -----------------------------
(***************************************************************************)
(* What the plan lifecycle promises an Admin, without saying how: an       *)
(* Organization always reports against one Active Strategic Plan, a new    *)
(* plan takes over in one step, and a change whose saving was acknowledged *)
(* is never taken back, not even when an operator undoes a switch.         *)
(* PlanActivation.tla implements this with write pauses, backups, restart  *)
(* reconciliation and a restore command.                                   *)
(***************************************************************************)
EXTENDS Naturals

CONSTANTS Plans,    \* identities of strategic_plans rows, used and unused
          First     \* the plan that is Active in a fresh installation

VARIABLES state,    \* lifecycle state of each plan, "none" while unused
          saved     \* how many acknowledged changes the database holds

vars == <<state, saved>>

States == {"none", "draft", "active", "archived", "cancelled"}

Drafts == {p \in Plans : state[p] = "draft"}

Init == /\ state = [p \in Plans |-> IF p = First THEN "active" ELSE "none"]
        /\ saved = 0

\* Any acknowledged change that leaves the lifecycle alone.
Save == /\ saved' = saved + 1
        /\ UNCHANGED state

Prepare(p) == /\ state[p] = "none"
              /\ Drafts = {}
              /\ state' = [state EXCEPT ![p] = "draft"]
              /\ saved' = saved + 1

Discard(p) == /\ state[p] = "draft"
              /\ state' = [state EXCEPT ![p] = "cancelled"]
              /\ saved' = saved + 1

\* The Draft q replaces the Active plan p: no state in between is visible.
Switch(p, q) == /\ state[p] = "active"
                /\ state[q] = "draft"
                /\ state' = [state EXCEPT ![p] = "archived", ![q] = "active"]
                /\ UNCHANGED saved

\* An operator takes the last switch back. Nothing saved is lost.
Undo(p, q) == /\ state[p] = "archived"
              /\ state[q] = "active"
              /\ Drafts = {}
              /\ state' = [state EXCEPT ![p] = "active", ![q] = "draft"]
              /\ UNCHANGED saved

Next == \/ Save
        \/ \E p \in Plans : Prepare(p) \/ Discard(p)
        \/ \E p, q \in Plans : Switch(p, q) \/ Undo(p, q)

Spec == Init /\ [][Next]_vars
=============================================================================
