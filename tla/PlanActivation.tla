--------------------------- MODULE PlanActivation ---------------------------
(***************************************************************************)
(* Activation of a successor plan: features/plans/server.ts activateDraft, *)
(* the write pause it holds in the meta table and the triggers that        *)
(* enforce it (lib/db.ts), the restart reconciliation, and the operator's  *)
(* restore command (scripts/plan-activation-recovery.ts), running against  *)
(* the ordinary mutations of the same Node process.                        *)
(*                                                                         *)
(* Atomicity. One action is one SQLite transaction. The process has one    *)
(* JavaScript thread: a request gives it up only while it awaits its body  *)
(* or the backup, and keeps it ("thread") from the end of the backup to    *)
(* its answer. The process may crash between any two transactions.         *)
(*                                                                         *)
(* plan_activation_internal_write is set and reset inside each transaction *)
(* that needs it and so never visible: the transactions of the activation  *)
(* itself simply are not subject to Paused.                                *)
(***************************************************************************)
EXTENDS Naturals

CONSTANTS
    Plans,          \* identities of strategic_plans rows, used and unused
    First,          \* the plan that is Active at the start
    NoPlan,         \* no predecessor
    Ids,            \* activation identities the browsers generate
    NoId,           \* strategic_plans.activation_id IS NULL
    Requests,       \* activation requests that may be in flight together
    NoRequest,      \* the JavaScript thread is not inside an activation
    Writers,        \* ordinary mutation requests that may be in flight
    NoBackup,       \* no backup file of that identity exists
    MaxWrites       \* bound: acknowledged ordinary changes

ASSUME DistinctSentinels ==
    /\ First \in Plans
    /\ NoPlan \notin Plans
    /\ NoId \notin Ids
    /\ NoRequest \notin Requests
    /\ MaxWrites \in Nat

VARIABLES
    plan,           \* strategic_plans
    op,             \* plan_activation_operations
    meta,           \* the safety markers and the authoritative write counter
    users,          \* whether the Admin behind the requests still is one
    readiness,      \* what evaluateDraftReadiness says of the current Draft
    kept,           \* ghost: acknowledged changes the database holds
    backup,         \* backup files, by activation identity
    acknowledged,   \* ghost: changes some client was told are saved
    told,           \* ghost: what clients were told of each identity
    up,             \* the server process runs and has opened the database
    req,            \* activation requests in flight
    writer,         \* ordinary mutation requests in flight
    thread          \* the activation that occupies the JavaScript thread

durable == <<plan, op, meta, users, readiness, kept>>
process == <<up, req, writer, thread>>
ghosts  == <<acknowledged, told>>
vars    == <<durable, backup, process, ghosts>>

-----------------------------------------------------------------------------
\* Rows and requests.

States == {"none", "draft", "active", "archived", "cancelled"}

Phases == {"none", "pausing", "backup_verified", "committed_unverified",
           "verified", "failed_precommit", "verification_failed",
           "integrity_incident"}

PrecommitPhases == {"pausing", "backup_verified"}

PendingPhases == PrecommitPhases \cup
    {"committed_unverified", "verification_failed", "integrity_incident"}

\* No row of that identity, no request in that slot.
NoOp == [phase |-> "none", pred |-> NoPlan, succ |-> NoPlan,
         backedUp |-> FALSE, committed |-> FALSE, witness |-> 0]

Idle == [pc |-> "idle", id |-> NoId, pred |-> NoPlan, succ |-> NoPlan,
         rev |-> 0, ack |-> FALSE]

Resting == [kind |-> "idle", plan |-> NoPlan, rev |-> 0]

Readiness == {"blocked", "excepted", "clear"}

\* Ordinary mutations: a recorded result, a structure change outside the
\* Plans guide, an account change, and the guide's own create, edit, cancel.
Kinds == {"result", "structure", "account", "create", "edit", "cancel"}

IsActive(p) == plan[p].state = "active"
IsDraft(p)  == plan[p].state = "draft"

SingleActive(pl, p) == \A q \in Plans : pl[q].state = "active" <=> q = p

Pending == {i \in Ids : op[i].phase \in PendingPhases}

Paused == meta.pause

\* The ..._activation_pause and ..._plan_pause triggers abort the statement.
\* Mutated form: a table the triggers were not installed on.
TriggersAbort_Missing == FALSE
TriggersAbort == Paused

\* The image a backup holds: the whole database.
Image == [plan |-> plan, op |-> op, counter |-> meta.counter,
          users |-> users, readiness |-> readiness, kept |-> kept]

-----------------------------------------------------------------------------
Init ==
    /\ plan = [p \in Plans |->
                 [state |-> IF p = First THEN "active" ELSE "none",
                  pred |-> NoPlan, rev |-> 1, act |-> NoId, results |-> 0]]
    /\ op = [i \in Ids |-> NoOp]
    /\ meta = [pause |-> FALSE, blocked |-> FALSE, counter |-> 0]
    /\ users = TRUE
    /\ readiness = "blocked"
    /\ kept = 0
    /\ backup = [i \in Ids |-> NoBackup]
    /\ acknowledged = 0
    /\ told = [i \in Ids |-> {}]
    /\ up = TRUE
    /\ req = [r \in Requests |-> Idle]
    /\ writer = [w \in Writers |-> Resting]
    /\ thread = NoRequest

-----------------------------------------------------------------------------
(***************************************************************************)
(* The activation request.                                                 *)
(***************************************************************************)

\* requireAdmin and assertMutationRequest passed: the handler awaits the
\* body. The page shows the Draft's whole-plan revision; the identity may be
\* a fresh one or the one of an earlier attempt (plan-activation-identity.ts).
Submit(r, i, p, ack) ==
    /\ up /\ thread = NoRequest
    /\ req[r] = Idle
    /\ users
    /\ plan[p].pred \in Plans
    /\ Paused \/ (~meta.blocked /\ \E q \in Plans : SingleActive(plan, q))
    /\ req' = [req EXCEPT ![r] =
                 [pc |-> "body", id |-> i, pred |-> plan[p].pred, succ |-> p,
                  rev |-> plan[p].rev, ack |-> ack]]
    /\ UNCHANGED <<durable, backup, up, writer, thread, ghosts>>

\* An earlier attempt under this identity is on record.
HasPrior(q) == \/ op[q.id].phase # "none"
               \/ \E p \in Plans : plan[p].act = q.id

\* What existingActivationResult lets the client conclude.
PriorAnswer(q) ==
    IF op[q.id].phase = "none"
    THEN IF plan[q.succ].act = q.id THEN {"activated"} ELSE {}
    ELSE IF op[q.id].pred # q.pred \/ op[q.id].succ # q.succ THEN {}
    ELSE CASE op[q.id].phase = "verified"         -> {"activated"}
           [] op[q.id].phase = "failed_precommit" -> {"unchanged"}
           [] OTHER                               -> {}

AnswerPrior(r) ==
    /\ up /\ thread = NoRequest
    /\ req[r].pc = "body"
    /\ HasPrior(req[r])
    /\ told' = [told EXCEPT ![req[r].id] = @ \cup PriorAnswer(req[r])]
    /\ req' = [req EXCEPT ![r] = Idle]
    /\ UNCHANGED <<durable, backup, up, writer, thread, acknowledged>>

\* requireCurrentDraft at the reviewed revision, readiness with the single
\* Active predecessor rule, and the acknowledgement of what is overridden.
Activatable(q) ==
    /\ IsDraft(q.succ)
    /\ plan[q.succ].rev = q.rev
    /\ SingleActive(plan, q.pred)
    /\ readiness # "blocked"
    /\ readiness = "excepted" => q.ack

\* The first transaction: record the operation and pause every save.
Begin(r) ==
    /\ up /\ thread = NoRequest
    /\ req[r].pc = "body"
    /\ ~HasPrior(req[r])
    /\ Activatable(req[r])
    /\ ~Paused
    /\ op' = [op EXCEPT ![req[r].id] =
                [NoOp EXCEPT !.phase = "pausing",
                             !.pred = req[r].pred, !.succ = req[r].succ]]
    /\ meta' = [meta EXCEPT !.pause = TRUE, !.blocked = FALSE]
    /\ req' = [req EXCEPT ![r].pc = "backup"]
    /\ UNCHANGED <<plan, users, readiness, kept, backup, up, writer, thread,
                   ghosts>>

\* A check fails, another activation holds the pause, or the transaction
\* itself fails: an error answer that says nothing about the identity.
Refuse(r) ==
    /\ up /\ thread = NoRequest
    /\ req[r].pc = "body"
    /\ ~HasPrior(req[r])
    /\ req' = [req EXCEPT ![r] = Idle]
    /\ UNCHANGED <<durable, backup, up, writer, thread, ghosts>>

\* SQLite copies the database while the request awaits; refuses to overwrite.
CopyDatabase(r) ==
    /\ up
    /\ req[r].pc = "backup"
    /\ backup[req[r].id] = NoBackup
    /\ backup' = [backup EXCEPT ![req[r].id] = Image]
    /\ req' = [req EXCEPT ![r].pc = "copied"]
    /\ UNCHANGED <<durable, up, writer, thread, ghosts>>

\* The copy is verified; the request continues on the thread and notes it.
RecordBackup(r) ==
    LET q == req[r] IN
    /\ up /\ thread = NoRequest
    /\ q.pc = "copied"
    /\ backup[q.id].plan[q.pred].state = "active"
    /\ backup[q.id].plan[q.succ].state = "draft"
    /\ op' = IF op[q.id].phase = "pausing"
             THEN [op EXCEPT ![q.id].phase = "backup_verified",
                             ![q.id].backedUp = TRUE]
             ELSE op
    /\ req' = [req EXCEPT ![r].pc = "recorded"]
    /\ thread' = r
    /\ UNCHANGED <<plan, meta, users, readiness, kept, backup, up, writer,
                   ghosts>>

\* The backup or its note fails: close the operation, reopen saves.
FailBackup(r) ==
    /\ up /\ thread = NoRequest
    /\ req[r].pc \in {"backup", "copied"}
    /\ op' = [op EXCEPT ![req[r].id].phase = "failed_precommit"]
    /\ meta' = [meta EXCEPT !.pause = FALSE, !.blocked = FALSE]
    /\ told' = [told EXCEPT ![req[r].id] = @ \cup {"unchanged"}]
    /\ req' = [req EXCEPT ![r] = Idle]
    /\ UNCHANGED <<plan, users, readiness, kept, backup, up, writer, thread,
                   acknowledged>>

\* Mutated forms: the predecessor stays Active, or is closed as cancelled.
Switched_KeepsPredecessor(q) ==
    [plan EXCEPT ![q.succ].state = "active", ![q.succ].act = q.id]
Switched_CancelsPredecessor(q) ==
    [plan EXCEPT ![q.pred].state = "cancelled",
                 ![q.succ].state = "active", ![q.succ].act = q.id]

\* The new Active plan's row. Stamping the open overrides fires their
\* whole-plan trigger and advances its revision.
Stamped == IF readiness = "excepted" THEN 1 ELSE 0
Promoted(row, i) ==
    [row EXCEPT !.state = "active", !.act = i, !.rev = @ + Stamped]

Retired(row) == [row EXCEPT !.state = "archived"]

\* The plans after the lifecycle transaction.
Switched(q) == [p \in Plans |-> IF p = q.succ THEN Promoted(plan[p], q.id)
                                ELSE IF p = q.pred THEN Retired(plan[p])
                                ELSE plan[p]]

\* The checks the lifecycle transaction repeats.
\* Mutated form: the authority checked before the body arrived is trusted.
CommitAllowed_AuthorityAtAdmission(q) == IsActive(q.pred) /\ Activatable(q)
CommitAllowed(q) == users /\ IsActive(q.pred) /\ Activatable(q)

\* The lifecycle transaction, with every check repeated inside it. The
\* operation's own update is conditional and its row count is not inspected.
Commit(r) ==
    LET q == req[r] IN
    /\ up /\ thread = r
    /\ q.pc = "recorded"
    /\ CommitAllowed(q)
    /\ plan' = Switched(q)
    /\ meta' = [pause |-> TRUE, blocked |-> FALSE,
                counter |-> meta.counter + 1]
    /\ op' = IF op[q.id].phase = "backup_verified"
             THEN [op EXCEPT ![q.id].phase = "committed_unverified",
                             ![q.id].committed = TRUE,
                             ![q.id].witness = meta.counter + 1]
             ELSE op
    /\ req' = [req EXCEPT ![r].pc = "committed"]
    /\ UNCHANGED <<users, readiness, kept, backup, up, writer, thread, ghosts>>

\* A check fails or the transaction does: close the operation, reopen saves.
RefuseCommit(r) ==
    LET i == req[r].id IN
    /\ up /\ thread = r
    /\ req[r].pc = "recorded"
    /\ op' = IF op[i].phase \in PrecommitPhases
             THEN [op EXCEPT ![i].phase = "failed_precommit"]
             ELSE op
    /\ meta' = [meta EXCEPT !.pause = FALSE, !.blocked = FALSE]
    /\ told' = [told EXCEPT ![i] = @ \cup {"unchanged"}]
    /\ req' = [req EXCEPT ![r] = Idle]
    /\ thread' = NoRequest
    /\ UNCHANGED <<plan, users, readiness, kept, backup, up, writer,
                   acknowledged>>

\* The committed transition, seen by fresh queries. The two lifecycle events
\* are written with it and never deleted: activation_id stands for them.
CommittedState(i, p, q) ==
    /\ SingleActive(plan, q)
    /\ plan[p].state = "archived"
    /\ plan[q].act = i

Verify(r) ==
    LET q == req[r] IN
    /\ up /\ thread = r
    /\ q.pc = "committed"
    /\ CommittedState(q.id, q.pred, q.succ)
    /\ op' = IF op[q.id].phase = "committed_unverified"
             THEN [op EXCEPT ![q.id].phase = "verified"]
             ELSE op
    /\ meta' = [meta EXCEPT !.pause = FALSE, !.blocked = FALSE]
    /\ told' = [told EXCEPT ![q.id] = @ \cup {"activated"}]
    /\ req' = [req EXCEPT ![r] = Idle]
    /\ thread' = NoRequest
    /\ UNCHANGED <<plan, users, readiness, kept, backup, up, writer,
                   acknowledged>>

\* A query, the Board scope, the foreign-key check or the final transaction
\* fails: keep saves paused and ask for the operator.
FailVerification(r) ==
    /\ up /\ thread = r
    /\ req[r].pc = "committed"
    /\ op' = [op EXCEPT ![req[r].id].phase = "verification_failed"]
    /\ meta' = [meta EXCEPT !.pause = TRUE, !.blocked = TRUE]
    /\ req' = [req EXCEPT ![r] = Idle]
    /\ thread' = NoRequest
    /\ UNCHANGED <<plan, users, readiness, kept, backup, up, writer, ghosts>>

\* The transaction of a catch block fails too: the request ends with an
\* error and the database stays where the last transaction left it.
FailCleanup(r) ==
    /\ up
    /\ \/ thread = r
       \/ thread = NoRequest /\ req[r].pc \in {"backup", "copied"}
    /\ req' = [req EXCEPT ![r] = Idle]
    /\ thread' = NoRequest
    /\ UNCHANGED <<durable, backup, up, writer, ghosts>>

-----------------------------------------------------------------------------
(***************************************************************************)
(* Ordinary mutations.                                                     *)
(***************************************************************************)

\* The plans a page offers each kind of change for.
Addresses(k, state) ==
    \/ k \in {"result", "account", "structure"} /\ state = "active"
    \/ k \in {"structure", "edit", "cancel"}    /\ state = "draft"
    \/ k = "create"                             /\ state = "none"

\* getPlanWriteSafetyState lets the request in; it then awaits its body. It
\* was composed against plan p at the revision its page shows.
Admit(w, k, p) ==
    /\ up /\ thread = NoRequest
    /\ writer[w] = Resting
    /\ ~Paused /\ ~meta.blocked
    /\ \E q \in Plans : SingleActive(plan, q)
    /\ Addresses(k, plan[p].state)
    /\ writer' = [writer EXCEPT ![w] =
                    [kind |-> k, plan |-> p,
                     rev |-> IF k \in {"edit", "cancel"} THEN plan[p].rev ELSE 0]]
    /\ UNCHANGED <<durable, backup, up, req, thread, ghosts>>

\* A committed ordinary change: counted by the write triggers, acknowledged
\* by the response.
Acknowledge ==
    /\ kept < MaxWrites
    /\ kept' = kept + 1
    /\ acknowledged' = acknowledged + 1
    /\ meta' = [meta EXCEPT !.counter = @ + 1]

\* A result belongs to the Active plan only and leaves revisions alone.
\* Mutated form: the plan was checked when the page was opened.
SaveResult_Unchecked(p) ==
    /\ plan' = [plan EXCEPT ![p].results = @ + 1]
    /\ UNCHANGED <<users, readiness>>
SaveResult(p) ==
    /\ IsActive(p)
    /\ plan' = [plan EXCEPT ![p].results = @ + 1]
    /\ UNCHANGED <<users, readiness>>

\* The whole-plan triggers advance the plan itself and the Draft prepared
\* from it, and put the Draft's section back to review.
SaveStructure(p) ==
    /\ plan[p].state \in {"active", "draft"}
    /\ plan' = [q \in Plans |->
                  IF q = p \/ (IsDraft(q) /\ plan[q].pred = p)
                  THEN [plan[q] EXCEPT !.rev = @ + 1] ELSE plan[q]]
    /\ readiness' \in Readiness
    /\ UNCHANGED users

SaveAccount ==
    /\ users' = ~users
    /\ UNCHANGED <<plan, readiness>>

\* createSuccessorDraft: one Draft at a time, prepared from the Active plan.
CreateDraft(p) ==
    /\ plan[p].state = "none"
    /\ ~\E q \in Plans : IsDraft(q)
    /\ \E a \in Plans :
         /\ SingleActive(plan, a)
         /\ plan' = [plan EXCEPT ![p].state = "draft", ![p].pred = a]
    /\ readiness' \in Readiness
    /\ UNCHANGED users

EditDraft(p, rev) ==
    /\ IsDraft(p) /\ plan[p].rev = rev
    /\ plan' = [plan EXCEPT ![p].rev = @ + 1]
    /\ readiness' \in Readiness
    /\ UNCHANGED users

CancelDraft(p, rev) ==
    /\ IsDraft(p) /\ plan[p].rev = rev
    /\ plan' = [plan EXCEPT ![p].state = "cancelled"]
    /\ readiness' = "blocked"
    /\ UNCHANGED users

\* The body has arrived: the handler's transaction commits, unless a pause
\* trigger or a check of its own aborts it.
Apply(w) ==
    LET m == writer[w] IN
    /\ up /\ thread = NoRequest
    /\ m.kind \in Kinds
    /\ ~TriggersAbort
    /\ Acknowledge
    /\ \/ m.kind = "result"    /\ SaveResult(m.plan)
       \/ m.kind = "structure" /\ SaveStructure(m.plan)
       \/ m.kind = "account"   /\ SaveAccount
       \/ m.kind = "create"    /\ CreateDraft(m.plan)
       \/ m.kind = "edit"      /\ EditDraft(m.plan, m.rev)
       \/ m.kind = "cancel"    /\ CancelDraft(m.plan, m.rev)
    /\ writer' = [writer EXCEPT ![w] = Resting]
    /\ UNCHANGED <<op, backup, up, req, thread, told>>

\* PLAN_WRITES_PAUSED, PLAN_IS_READ_ONLY, a conflict or a dropped connection.
Abort(w) ==
    /\ up /\ thread = NoRequest
    /\ writer[w].kind \in Kinds
    /\ writer' = [writer EXCEPT ![w] = Resting]
    /\ UNCHANGED <<durable, backup, up, req, thread, ghosts>>

-----------------------------------------------------------------------------
(***************************************************************************)
(* Crash, restart reconciliation, operator restore.                        *)
(***************************************************************************)

Crash ==
    /\ up
    /\ up' = FALSE
    /\ req' = [r \in Requests |-> Idle]
    /\ writer' = [w \in Writers |-> Resting]
    /\ thread' = NoRequest
    /\ UNCHANGED <<durable, backup, ghosts>>

\* Mutated form: only the operation row is looked at, and a commit that was
\* never verified counts as not having happened.
ClearlyBefore_PhaseOnly(i, ph, single) ==
    ph \in PrecommitPhases \cup {"committed_unverified"}

\* The single pending operation i, read in phase ph, is clearly before the
\* lifecycle transaction, or clearly after it ("clean": the Board scope
\* exists and the foreign-key check is empty).
ClearlyBefore(i, ph, single) ==
    /\ ph \in PrecommitPhases
    /\ IsActive(op[i].pred) /\ IsDraft(op[i].succ)
    /\ single

ClearlyAfter(i, ph, single, clean) ==
    /\ ph = "committed_unverified"
    /\ plan[op[i].pred].state = "archived"
    /\ IsActive(op[i].succ) /\ plan[op[i].succ].act = i
    /\ single /\ clean

\* Mutated form: the operation is settled and saves are not reopened.
Settle_KeepsPause(i, phase, halt, events) ==
    /\ op' = [op EXCEPT ![i].phase = phase]
    /\ meta' = [meta EXCEPT !.blocked = halt, !.counter = @ + events]

\* What the decision writes for i: phase, markers, and for a forward repair
\* one audited recovery event, which the write triggers count.
Settle(i, phase, halt, events) ==
    /\ op' = [op EXCEPT ![i].phase = phase]
    /\ meta' = [pause |-> halt, blocked |-> halt,
                counter |-> meta.counter + events]

\* Saves stay paused and the service asks for its operator.
Halt == /\ meta' = [meta EXCEPT !.pause = TRUE, !.blocked = TRUE]
        /\ UNCHANGED op

\* reconcileInterruptedPlanActivation, from what its first queries read:
\* the phases of the pending operations and whether one plan is Active.
Decide(i, ph, single, clean) ==
    \/ /\ ClearlyBefore(i, ph, single)
       /\ Settle(i, "failed_precommit", FALSE, 0)
    \/ /\ ClearlyAfter(i, ph, single, clean)
       /\ Settle(i, "verified", FALSE, 1)
    \/ /\ ph \in {"verification_failed", "integrity_incident"}
       /\ Halt
    \/ /\ ph \in PrecommitPhases \cup {"committed_unverified"}
       /\ ~ClearlyBefore(i, ph, single)
       /\ ~ClearlyAfter(i, ph, single, clean)
       /\ Settle(i, "integrity_incident", TRUE, 0)

Reconcile(seen, single) ==
    LET pending == {i \in Ids : seen[i] \in PendingPhases}
    IN  \/ /\ pending = {} /\ single
           /\ UNCHANGED <<op, meta>>
        \/ /\ pending = {} /\ ~single
           /\ Halt
        \/ /\ \E i, j \in pending : i # j
           /\ Halt
        \/ \E i \in pending, clean \in BOOLEAN :
             /\ pending = {i}
             /\ Decide(i, seen[i], single, clean)

SeenNow == [i \in Ids |-> op[i].phase]

Boot ==
    /\ ~up
    /\ Reconcile(SeenNow, \E p \in Plans : SingleActive(plan, p))
    /\ up' = TRUE
    /\ UNCHANGED <<plan, users, readiness, kept, backup, req, writer, thread,
                   ghosts>>

\* verifyNoPostActivationWrites and the backup checks of the restore command.
RestoreAllowed(i) ==
    /\ op[i].phase = "verification_failed" /\ op[i].committed
    /\ op[i].witness = meta.counter
    /\ Paused /\ meta.blocked
    /\ op[i].backedUp /\ backup[i] # NoBackup
    /\ backup[i].plan[op[i].pred].state = "active"
    /\ backup[i].plan[op[i].succ].state = "draft"

\* The operator's restore, run with the service stopped: the image replaces
\* the database, its operation closed and its markers released.
Restore(i) ==
    /\ ~up
    /\ RestoreAllowed(i)
    /\ plan' = backup[i].plan
    /\ op' = [backup[i].op EXCEPT ![i].phase = "failed_precommit"]
    /\ meta' = [pause |-> FALSE, blocked |-> FALSE,
                counter |-> backup[i].counter]
    /\ users' = backup[i].users
    /\ readiness' = backup[i].readiness
    /\ kept' = backup[i].kept
    /\ UNCHANGED <<backup, process, ghosts>>

-----------------------------------------------------------------------------
\* The steps of one activation that follow its first transaction.
Proceed(r) == CopyDatabase(r) \/ RecordBackup(r) \/ Commit(r) \/ Verify(r)

Fail(r) == FailBackup(r) \/ RefuseCommit(r) \/ FailVerification(r)

Answer(r) == AnswerPrior(r) \/ Begin(r) \/ Refuse(r)

Next ==
    \/ \E r \in Requests :
         \/ \E i \in Ids, p \in Plans, ack \in BOOLEAN : Submit(r, i, p, ack)
         \/ Answer(r) \/ Proceed(r) \/ Fail(r) \/ FailCleanup(r)
    \/ \E w \in Writers :
         \/ \E k \in Kinds, p \in Plans : Admit(w, k, p)
         \/ Apply(w) \/ Abort(w)
    \/ Crash \/ Boot
    \/ \E i \in Ids : Restore(i)

Spec == Init /\ [][Next]_vars

\* The JavaScript runtime finishes what it started and the supervisor
\* restarts a stopped service; nothing obliges the operator.
Fairness == /\ WF_vars(Boot)
            /\ \A r \in Requests : WF_vars(Proceed(r) \/ Fail(r))

FairSpec == Spec /\ Fairness

-----------------------------------------------------------------------------
(***************************************************************************)
(* Properties.                                                             *)
(***************************************************************************)

PlanRow == [state : States, pred : Plans \cup {NoPlan}, rev : Nat,
            act : Ids \cup {NoId}, results : Nat]

OpRow == [phase : Phases, pred : Plans \cup {NoPlan},
          succ : Plans \cup {NoPlan}, backedUp : BOOLEAN,
          committed : BOOLEAN, witness : Nat]

BackupFile == [plan : [Plans -> PlanRow], op : [Ids -> OpRow], counter : Nat,
               users : BOOLEAN, readiness : Readiness, kept : Nat]

MetaRow == [pause : BOOLEAN, blocked : BOOLEAN, counter : Nat]

WriterState == {Resting} \cup [kind : Kinds, plan : Plans, rev : Nat]

\* "No backup" is not itself a backup.
ASSUME BackupSentinel == NoBackup \notin BackupFile

RequestState ==
    {Idle} \cup
    [pc : {"body", "backup", "copied", "recorded", "committed"}, id : Ids,
     pred : Plans, succ : Plans, rev : Nat, ack : BOOLEAN]

\* The type invariant: what each table, file and request can hold, and which
\* request may occupy the thread.
TypeOK ==
    /\ plan \in [Plans -> PlanRow]
    /\ op \in [Ids -> OpRow]
    /\ meta \in MetaRow
    /\ users \in BOOLEAN
    /\ readiness \in Readiness
    /\ kept \in Nat
    /\ backup \in [Ids -> BackupFile \cup {NoBackup}]
    /\ acknowledged \in Nat
    /\ told \in [Ids -> SUBSET {"activated", "unchanged"}]
    /\ up \in BOOLEAN
    /\ req \in [Requests -> RequestState]
    /\ writer \in [Writers -> WriterState]
    /\ thread \in Requests \cup {NoRequest}

\* Exactly one plan is Active in every state a query can see, whatever
\* crashes, retries, reconciliations and restores happened.
OneActive == \E p \in Plans : SingleActive(plan, p)

\* There is at most one Draft, and it was prepared from the plan that is
\* Active now: no activation can overtake the preparation of another.
DraftSucceedsActive ==
    \A p \in Plans : IsDraft(p) =>
        /\ plan[p].pred \in Plans /\ IsActive(plan[p].pred)
        /\ \A q \in Plans : IsDraft(q) => q = p

\* The plans that ever took over form one line: each names an Archived
\* predecessor and no two name the same.
InOffice(p) == plan[p].state \in {"active", "archived"}
SingleLine ==
    \A p \in Plans \ {First} : InOffice(p) =>
        /\ plan[p].pred \in Plans /\ plan[plan[p].pred].state = "archived"
        /\ plan[p].act # NoId
        /\ \A q \in Plans : InOffice(q) /\ plan[q].pred = plan[p].pred => q = p

\* Saves are paused exactly while one activation is unresolved: no pause
\* outlives its operation, and no operation loses its pause to a restart.
PauseTracksOperation ==
    /\ Paused <=> Pending # {}
    /\ \A i, j \in Pending : i = j

\* The integrity mark stands exactly while an operation waits for the
\* operator, so that clearing it at the next activation clears nothing real.
BlockTracksIncident ==
    meta.blocked <=>
        \E i \in Ids : op[i].phase \in {"verification_failed",
                                        "integrity_incident"}

\* No acknowledged save is ever missing from the database, not even after
\* the operator restored the image made before the activation.
NothingLost == kept = acknowledged

\* From the verified backup to the end of the operation nothing but the
\* activation itself has been committed ("nothing can commit between backup
\* and verified activation", docs/successor-plans-operator-runbook.md).
BackupIsCurrent ==
    \A i \in Ids :
        op[i].phase \in {"backup_verified", "committed_unverified",
                         "verification_failed"} =>
            /\ backup[i] # NoBackup
            /\ backup[i].kept = kept
            /\ backup[i].users = users
            /\ \A p \in Plans \ {op[i].pred, op[i].succ} :
                 backup[i].plan[p] = plan[p]

\* What a client was told of an activation identity stays true: "activated"
\* is never undone, and after "ended safely before any plan change" no plan
\* carries that identity.
TruthfulAnswers ==
    \A i \in Ids :
        /\ "activated" \in told[i] => \E p \in Plans : plan[p].act = i
        /\ "unchanged" \in told[i] => \A p \in Plans : plan[p].act # i

\* An Archived or Cancelled plan never changes again, its results included,
\* however late a request composed before the switch arrives; only the
\* operator's restore reopens the predecessor of a failed activation.
Closed(p) == plan[p].state \in {"archived", "cancelled"}
ClosedPlansFrozen ==
    [][ \/ \A p \in Plans : Closed(p) => plan'[p] = plan[p]
        \/ \E i \in Ids : Restore(i) ]_vars

\* A plan takes over only by the hand of somebody who is an enabled Admin at
\* that moment, although authority was first checked two awaits earlier.
ActivatedByAdmin ==
    [][ (\E p \in Plans : IsDraft(p) /\ plan'[p].state = "active") => users ]_vars

\* A cleanup transaction failed and the process lives on.
Stranded ==
    /\ up
    /\ Pending # {}
    /\ \A r \in Requests :
         req[r].pc \notin {"backup", "copied", "recorded", "committed"}

\* A pause ends: saves reopen or the operator is called, unless the cleanup
\* of a failed attempt itself failed and the process was not restarted.
PauseResolves == Paused ~> (~Paused \/ meta.blocked \/ Stranded)

\* Activation with all its machinery implements the one-step switch.
Lifecycle == INSTANCE PlanSwitch WITH state <- [p \in Plans |-> plan[p].state],
                                      saved <- kept
ImplementsPlanSwitch == Lifecycle!Spec
=============================================================================
