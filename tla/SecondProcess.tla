---------------------------- MODULE SecondProcess ----------------------------
(***************************************************************************)
(* An operator runs scripts/setup-admin.ts in a console of the machine     *)
(* while the server is serving, as docs/operator-provisioning.md directs.  *)
(* Its getDb() opens the database like the server's does, and every open   *)
(* runs the restart reconciliation, which takes an operation that is under *)
(* way in the server for one a crash left behind.                          *)
(***************************************************************************)
EXTENDS PlanActivation

VARIABLE tool       \* the command: where it is and what it has read

toolVars == <<vars, tool>>

Off == [pc |-> "off", seen |-> [i \in Ids |-> "none"], single |-> TRUE]

ToolInit == Init /\ tool = Off

\* The pending operations and the count of Active plans are read before the
\* reconciliation takes the write lock.
ToolRead ==
    /\ up /\ tool = Off
    /\ tool' = [pc |-> "read", seen |-> SeenNow,
                single |-> \E p \in Plans : SingleActive(plan, p)]
    /\ UNCHANGED vars

ToolReconcile ==
    /\ tool.pc = "read"
    /\ Reconcile(tool.seen, tool.single)
    /\ tool' = [Off EXCEPT !.pc = "open"]
    /\ UNCHANGED <<plan, users, readiness, kept, backup, process, ghosts>>

\* updateUserPassword, and setUserDisabled if the account was disabled.
ToolSave ==
    /\ tool.pc = "open"
    /\ ~TriggersAbort
    /\ Acknowledge
    /\ users' = TRUE
    /\ UNCHANGED <<plan, op, readiness, backup, process, told, tool>>

ToolExit ==
    /\ tool.pc = "open"
    /\ tool' = Off
    /\ UNCHANGED vars

\* The service does not restart between the two steps of the opening.
ToolNext ==
    \/ Next /\ (tool.pc = "read" => up' = up) /\ UNCHANGED tool
    \/ ToolRead \/ ToolReconcile \/ ToolSave \/ ToolExit

ToolSpec == ToolInit /\ [][ToolNext]_toolVars
=============================================================================
