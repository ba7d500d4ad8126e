------------------------ MODULE PlanActivation_proofs ------------------------
(***************************************************************************)
(* Theorems about PlanActivation, for any set of plans, identities,        *)
(* requests and writers.  The argument is the inductive invariant IInv of  *)
(* PlanActivationInv: it relates each unresolved operation to the plans,   *)
(* to the request that drives it and to the image made for it.             *)
(* The last part is about SecondProcess, where that invariant fails.       *)
(***************************************************************************)
EXTENDS PlanActivationInv, SecondProcess, TLAPS

USE DistinctSentinels, BackupSentinel

LEMMA InitTyped == Init => TypeOK
BY DEF Init, TypeOK, PlanRow, OpRow, RequestState, NoOp, Idle, Resting,
       States, Phases, Readiness, MetaRow, WriterState

-----------------------------------------------------------------------------
(***************************************************************************)
(* Types are preserved by every action.  The tables an action writes are   *)
(* taken one at a time.                                                    *)
(***************************************************************************)

\* A row of plan_activation_operations after one of the updates made to it.
LEMMA RowInPhase ==
    ASSUME NEW o \in OpRow, NEW phase \in Phases
    PROVE  [o EXCEPT !.phase = phase] \in OpRow
BY DEF OpRow

LEMMA RowRequested ==
    ASSUME NEW p \in Plans, NEW q \in Plans
    PROVE  [NoOp EXCEPT !.phase = "pausing", !.pred = p, !.succ = q] \in OpRow
BY DEF OpRow, NoOp, Phases

LEMMA RowCommitted ==
    ASSUME NEW o \in OpRow, NEW n \in Nat
    PROVE  [o EXCEPT !.phase = "committed_unverified",
                     !.committed = TRUE, !.witness = n] \in OpRow
BY DEF OpRow, Phases

LEMMA RowBackedUp ==
    ASSUME NEW o \in OpRow
    PROVE  [o EXCEPT !.phase = "backup_verified", !.backedUp = TRUE] \in OpRow
BY DEF OpRow, Phases

\* A row of strategic_plans likewise.
LEMMA RowActivated ==
    ASSUME NEW row \in PlanRow, NEW i \in Ids, NEW n \in Nat
    PROVE  [row EXCEPT !.state = "active", !.act = i, !.rev = n] \in PlanRow
BY DEF PlanRow, States

LEMMA RowPromoted ==
    ASSUME NEW row \in PlanRow, NEW i \in Ids
    PROVE  Promoted(row, i) \in PlanRow
<1>1. row.rev + Stamped \in Nat
  BY DEF Stamped, PlanRow
<1> QED
  BY <1>1, RowActivated DEF Promoted

LEMMA RowRetired ==
    ASSUME NEW row \in PlanRow
    PROVE  Retired(row) \in PlanRow
BY DEF Retired, PlanRow, States

LEMMA BeginTyped ==
    ASSUME TypeOK, NEW r \in Requests, Begin(r)
    PROVE  TypeOK'
<1> USE DEF TypeOK, RequestState, Idle, Begin
<1>1. op' \in [Ids -> OpRow]
  <2> DEFINE q == req[r]
  <2>1. q.id \in Ids /\ q.pred \in Plans /\ q.succ \in Plans
    OBVIOUS
  <2> QED
    BY <2>1, RowRequested
<1>2. meta' \in MetaRow
  BY DEF MetaRow
<1>3. req' \in [Requests -> RequestState]
  OBVIOUS
<1> QED
  BY <1>1, <1>2, <1>3 DEF ghosts

LEMMA CommitTyped ==
    ASSUME TypeOK, NEW r \in Requests, Commit(r)
    PROVE  TypeOK'
<1> USE DEF TypeOK, RequestState, Idle, Commit
<1>1. plan' \in [Plans -> PlanRow]
  <2>1. req[r].id \in Ids
    OBVIOUS
  <2> QED
    BY <2>1, RowPromoted, RowRetired DEF Switched
<1>2. op' \in [Ids -> OpRow]
  <2> DEFINE q == req[r]
  <2>1. q.id \in Ids
    OBVIOUS
  <2>2. meta.counter + 1 \in Nat
    BY DEF MetaRow
  <2>3. [op[q.id] EXCEPT !.phase = "committed_unverified",
                         !.committed = TRUE,
                         !.witness = meta.counter + 1] \in OpRow
    BY <2>1, <2>2, RowCommitted
  <2> QED
    BY <2>1, <2>3
<1>3. meta' \in MetaRow
  BY DEF MetaRow
<1>4. req' \in [Requests -> RequestState]
  OBVIOUS
<1> QED
  BY <1>1, <1>2, <1>3, <1>4 DEF ghosts

LEMMA VerifyTyped ==
    ASSUME TypeOK, NEW r \in Requests, Verify(r)
    PROVE  TypeOK'
<1> USE DEF TypeOK, RequestState, Idle, Verify
<1>1. op' \in [Ids -> OpRow]
  BY DEF OpRow, Phases
<1>2. meta' \in MetaRow
  BY DEF MetaRow
<1>3. told' \in [Ids -> SUBSET {"activated", "unchanged"}]
  OBVIOUS
<1>4. req' \in [Requests -> RequestState]
  OBVIOUS
<1> QED
  BY <1>1, <1>2, <1>3, <1>4

LEMMA FailBackupTyped ==
    ASSUME TypeOK, NEW r \in Requests, FailBackup(r)
    PROVE  TypeOK'
<1> USE DEF TypeOK, RequestState, Idle, FailBackup
<1>1. op' \in [Ids -> OpRow]
  BY DEF OpRow, Phases
<1>2. meta' \in MetaRow
  BY DEF MetaRow
<1>3. told' \in [Ids -> SUBSET {"activated", "unchanged"}]
  OBVIOUS
<1>4. req' \in [Requests -> RequestState]
  OBVIOUS
<1> QED
  BY <1>1, <1>2, <1>3, <1>4

LEMMA RefuseCommitTyped ==
    ASSUME TypeOK, NEW r \in Requests, RefuseCommit(r)
    PROVE  TypeOK'
<1> USE DEF TypeOK, RequestState, Idle, RefuseCommit
<1>1. op' \in [Ids -> OpRow]
  BY DEF OpRow, Phases
<1>2. meta' \in MetaRow
  BY DEF MetaRow
<1>3. told' \in [Ids -> SUBSET {"activated", "unchanged"}]
  OBVIOUS
<1>4. req' \in [Requests -> RequestState]
  OBVIOUS
<1> QED
  BY <1>1, <1>2, <1>3, <1>4

LEMMA FailVerificationTyped ==
    ASSUME TypeOK, NEW r \in Requests, FailVerification(r)
    PROVE  TypeOK'
<1> USE DEF TypeOK, RequestState, Idle, FailVerification
<1>1. op' \in [Ids -> OpRow]
  BY DEF OpRow, Phases
<1>2. meta' \in MetaRow
  BY DEF MetaRow
<1>3. req' \in [Requests -> RequestState]
  OBVIOUS
<1> QED
  BY <1>1, <1>2, <1>3 DEF ghosts

LEMMA ActivationTyped ==
    ASSUME TypeOK, NEW r \in Requests,
           (\E i \in Ids, p \in Plans, ack \in BOOLEAN : Submit(r, i, p, ack))
             \/ Answer(r) \/ Proceed(r) \/ Fail(r) \/ FailCleanup(r)
    PROVE  TypeOK'
<1>1. ASSUME NEW i \in Ids, NEW p \in Plans, NEW ack \in BOOLEAN,
             Submit(r, i, p, ack)
      PROVE  TypeOK'
  BY <1>1 DEF TypeOK, RequestState, Submit, durable, ghosts, PlanRow
<1>2. CASE AnswerPrior(r)
  BY <1>2 DEF TypeOK, RequestState, Idle, AnswerPrior, PriorAnswer, durable
<1>3. CASE Refuse(r)
  BY <1>3 DEF TypeOK, RequestState, Refuse, durable, ghosts
<1>4. CASE CopyDatabase(r)
  BY <1>4 DEF TypeOK, RequestState, Idle, CopyDatabase, durable, ghosts,
              Image, BackupFile, MetaRow
<1>5. CASE RecordBackup(r)
  <2>1. op' \in [Ids -> OpRow]
    BY <1>5, RowBackedUp DEF TypeOK, RequestState, Idle, RecordBackup
  <2>2. req' \in [Requests -> RequestState]
    BY <1>5 DEF TypeOK, RequestState, Idle, RecordBackup
  <2> QED
    BY <1>5, <2>1, <2>2 DEF TypeOK, RecordBackup, ghosts
<1>6. CASE FailCleanup(r)
  BY <1>6 DEF TypeOK, RequestState, FailCleanup, durable, ghosts
<1>7. QED
  BY <1>1, <1>2, <1>3, <1>4, <1>5, <1>6, BeginTyped, CommitTyped,
     VerifyTyped, FailBackupTyped, RefuseCommitTyped, FailVerificationTyped
     DEF Answer, Proceed, Fail

\* What an ordinary mutation does to the plans is well typed.
LEMMA ApplyTyped ==
    ASSUME TypeOK, NEW w \in Writers, Apply(w)
    PROVE  TypeOK'
<1> DEFINE m == writer[w]
<1>1. m.plan \in Plans /\ m.kind \in Kinds
  BY DEF TypeOK, Apply, WriterState, Resting, Kinds
<1>2. plan' \in [Plans -> PlanRow] /\ users' \in BOOLEAN /\ readiness' \in Readiness
  <2> USE <1>1 DEF TypeOK, PlanRow
  <2>1. CASE SaveResult(m.plan)
    BY <2>1 DEF SaveResult
  <2>2. CASE SaveStructure(m.plan)
    BY <2>2 DEF SaveStructure
  <2>3. CASE SaveAccount
    BY <2>3 DEF SaveAccount
  <2>4. CASE CreateDraft(m.plan)
    BY <2>4 DEF CreateDraft, States
  <2>5. CASE EditDraft(m.plan, m.rev)
    BY <2>5 DEF EditDraft
  <2>6. CASE CancelDraft(m.plan, m.rev)
    BY <2>6 DEF CancelDraft, States, Readiness
  <2>7. QED
    BY <2>1, <2>2, <2>3, <2>4, <2>5, <2>6 DEF Apply
<1>3. kept' \in Nat /\ acknowledged' \in Nat /\ meta' \in MetaRow
  BY DEF TypeOK, Apply, Acknowledge, MetaRow
<1>4. writer' \in [Writers -> WriterState]
  BY DEF TypeOK, Apply, WriterState
<1>5. QED
  BY <1>2, <1>3, <1>4 DEF TypeOK, Apply

\* The reconciliation writes the operation it settles and the markers only,
\* whoever ran the queries before it.
LEMMA ReconcileTyped ==
    ASSUME TypeOK, NEW seen \in [Ids -> Phases], NEW single \in BOOLEAN,
           Reconcile(seen, single)
    PROVE  /\ op' \in [Ids -> OpRow] /\ meta' \in MetaRow
           /\ \A i \in Ids : op'[i].backedUp = op[i].backedUp
<1> DEFINE Typed == /\ op' \in [Ids -> OpRow] /\ meta' \in MetaRow
                    /\ \A i \in Ids : op'[i].backedUp = op[i].backedUp
<1>1. CASE UNCHANGED <<op, meta>>
  BY <1>1 DEF TypeOK
<1>2. CASE Halt
  BY <1>2 DEF TypeOK, Halt, MetaRow
<1>3. ASSUME NEW i \in Ids, NEW clean \in BOOLEAN, Decide(i, seen[i], single, clean)
      PROVE  Typed
  <2>1. ASSUME NEW phase \in Phases, NEW halt \in BOOLEAN,
               NEW events \in {0, 1}, Settle(i, phase, halt, events)
        PROVE  Typed
    <3>1. op' \in [Ids -> OpRow]
      BY <2>1, RowInPhase DEF TypeOK, Settle
    <3>2. meta' \in MetaRow
      BY <2>1 DEF TypeOK, Settle, MetaRow
    <3>3. \A j \in Ids : op'[j].backedUp = op[j].backedUp
      BY <2>1 DEF TypeOK, Settle, OpRow
    <3> QED
      BY <3>1, <3>2, <3>3
  <2> QED
    BY <1>2, <1>3, <2>1 DEF Decide, Phases
<1> QED
  BY <1>1, <1>2, <1>3 DEF Reconcile

LEMMA PhasesSeen == TypeOK => SeenNow \in [Ids -> Phases]
BY DEF TypeOK, SeenNow, OpRow

LEMMA BootTyped ==
    ASSUME TypeOK, Boot
    PROVE  TypeOK'
<1>1. op' \in [Ids -> OpRow] /\ meta' \in MetaRow
  BY ReconcileTyped, PhasesSeen DEF Boot
<1>2. QED
  BY <1>1 DEF TypeOK, Boot, ghosts

LEMMA RestoreTyped ==
    ASSUME TypeOK, NEW i \in Ids, Restore(i)
    PROVE  TypeOK'
<1>1. backup[i] \in BackupFile
  BY DEF TypeOK, Restore, RestoreAllowed
<1>2. op' \in [Ids -> OpRow]
  BY <1>1 DEF Restore, BackupFile, OpRow, Phases
<1>3. meta' \in MetaRow
  BY <1>1 DEF Restore, BackupFile, MetaRow
<1>4. QED
  BY <1>1, <1>2, <1>3 DEF TypeOK, Restore, BackupFile, process, ghosts

LEMMA NextTyped == TypeOK /\ [Next]_vars => TypeOK'
<1> SUFFICES ASSUME TypeOK, [Next]_vars PROVE TypeOK'
  OBVIOUS
<1>1. ASSUME NEW w \in Writers, NEW k \in Kinds, NEW p \in Plans, Admit(w, k, p)
      PROVE  TypeOK'
  BY <1>1 DEF TypeOK, Admit, WriterState, PlanRow, durable, ghosts
<1>2. ASSUME NEW w \in Writers, Abort(w)
      PROVE  TypeOK'
  BY <1>2 DEF TypeOK, Abort, WriterState, durable, ghosts
<1>3. CASE Crash
  BY <1>3 DEF TypeOK, Crash, RequestState, WriterState, durable, ghosts
<1>4. CASE UNCHANGED vars
  BY <1>4 DEF TypeOK, vars, durable, process, ghosts
<1>5. QED
  BY <1>1, <1>2, <1>3, <1>4, ActivationTyped, ApplyTyped, BootTyped,
     RestoreTyped DEF Next

\* Every table, file and request always holds a value of its type.
THEOREM TypeCorrect == Spec => []TypeOK
BY InitTyped, NextTyped, PTL DEF Spec

-----------------------------------------------------------------------------
(***************************************************************************)
(* IInv is an invariant of PlanActivation, and what follows from it: one   *)
(* Active plan, a pause exactly as long as an unresolved operation, no     *)
(* acknowledged save lost to a restore, and the one-step switch.           *)
(***************************************************************************)


LEMMA InitSafe == Init => IInv
<1> SUFFICES ASSUME Init PROVE IInv
  OBVIOUS
<1>1. TypeOK
  BY InitTyped
<1> USE DEF Init
<1>2. RequestsMatchRows
  BY DistinctSentinels
  DEF RequestsMatchRows, RequestMatchesRow, Driving, Idle
<1>3. RowsMatchPlans /\ ImagesMatchRows
  BY DEF RowsMatchPlans, ImagesMatchRows, PrecommitPhases, CommittedPhases,
         PendingPhases, NoOp
<1>4. PauseTracksOperation /\ BlockTracksIncident
  BY DEF PauseTracksOperation, BlockTracksIncident, Paused, Pending,
         PrecommitPhases, PendingPhases, NoOp
<1>5. OneActive
  <2>1. SingleActive(plan, First)
    BY DEF SingleActive
  <2> QED
    BY <2>1, DistinctSentinels DEF OneActive
<1>6. DraftSucceedsActive /\ NothingLost
  BY DEF DraftSucceedsActive, NothingLost, IsDraft
<1> QED
  BY <1>1, <1>2, <1>3, <1>4, <1>5, <1>6 DEF IInv, DatabaseSound

-----------------------------------------------------------------------------
(***************************************************************************)
(* What the invariant says of a request past its first transaction, and of *)
(* a database in which saves are not paused.                               *)
(***************************************************************************)

LEMMA Driver ==
    ASSUME IInv, NEW r \in Requests, req[r].pc \in Driving
    PROVE  /\ req[r].id \in Ids /\ req[r].pred \in Plans /\ req[r].succ \in Plans
           /\ op[req[r].id].pred = req[r].pred
           /\ op[req[r].id].succ = req[r].succ
           /\ op[req[r].id].phase \in PendingPhases
           /\ Paused /\ up
           /\ \A j \in Ids : op[j].phase \in PendingPhases => j = req[r].id
           /\ \A s \in Requests : req[s].pc \in Driving => s = r
<1> USE DEF IInv, Driving
<1>1. /\ req[r].id \in Ids /\ req[r].pred \in Plans /\ req[r].succ \in Plans
      /\ req[r] # Idle
  BY DEF TypeOK, RequestState, Idle
<1>2. RequestMatchesRow(r)
  BY DEF RequestsMatchRows
<1>3. op[req[r].id].phase \in PendingPhases
  BY <1>2 DEF RequestMatchesRow, PendingPhases, PrecommitPhases
<1>4. up /\ \A s \in Requests : req[s].pc \in Driving => s = r
  BY <1>1 DEF RequestsMatchRows
<1>5. Paused /\ \A j \in Ids : op[j].phase \in PendingPhases => j = req[r].id
  BY <1>1, <1>3 DEF DatabaseSound, PauseTracksOperation, Pending
<1> QED
  BY <1>1, <1>2, <1>3, <1>4, <1>5 DEF RequestMatchesRow

LEMMA Quiet ==
    ASSUME IInv, ~Paused
    PROVE  /\ \A i \in Ids : op[i].phase \notin PendingPhases
           /\ \A r \in Requests : req[r].pc \notin Driving
<1>1. \A i \in Ids : op[i].phase \notin PendingPhases
  BY DEF IInv, DatabaseSound, PauseTracksOperation, Pending
<1>2. \A r \in Requests : req[r].pc \notin Driving
  BY Driver
<1> QED
  BY <1>1, <1>2

-----------------------------------------------------------------------------
(***************************************************************************)
(* Steps that leave the database alone, and steps that resolve or blame    *)
(* the one unresolved operation.                                           *)
(***************************************************************************)

LEMMA Untouched ==
    ASSUME DatabaseSound,
           UNCHANGED <<plan, op, meta, users, kept, backup, acknowledged>>
    PROVE  DatabaseSound'
<1> USE DEF DatabaseSound
<1>1. RowsMatchPlans' /\ OneActive'
  BY DEF RowsMatchPlans, Prepared, Replaced, SingleActive, OneActive
<1>2. ImagesMatchRows'
  BY DEF ImagesMatchRows, ImageOf, Prepared, SingleActive
<1>3. PauseTracksOperation' /\ BlockTracksIncident'
  BY DEF PauseTracksOperation, BlockTracksIncident, Paused, Pending
<1>4. DraftSucceedsActive' /\ NothingLost'
  BY DEF DraftSucceedsActive, NothingLost, IsDraft, IsActive
<1> QED
  BY <1>1, <1>2, <1>3, <1>4

\* The operation is closed and saves are reopened.
LEMMA Settled ==
    ASSUME DatabaseSound, op \in [Ids -> OpRow], NEW i \in Ids,
           NEW phase \in {"failed_precommit", "verified"},
           op[i].phase \in PendingPhases,
           op' = [op EXCEPT ![i].phase = phase],
           ~meta'.pause, ~meta'.blocked,
           UNCHANGED <<plan, users, kept, backup, acknowledged>>
    PROVE  DatabaseSound'
<1> USE DEF DatabaseSound
<1>1. /\ op'[i].phase = phase
      /\ \A j \in Ids \ {i} : op'[j] = op[j]
  BY DEF OpRow
<1>2. \A j \in Ids : op'[j].phase \notin PendingPhases
  BY <1>1 DEF PauseTracksOperation, Pending, PendingPhases, PrecommitPhases
<1>3. RowsMatchPlans' /\ ImagesMatchRows'
  <2>1. \A j \in Ids : op'[j].phase \notin PrecommitPhases
                     /\ op'[j].phase \notin CommittedPhases
    BY <1>2 DEF PendingPhases, CommittedPhases
  <2>2. \A j \in Ids : op'[j].phase = "none" => backup'[j] = NoBackup
    BY <1>1 DEF ImagesMatchRows
  <2> QED
    BY <1>2, <2>1, <2>2 DEF RowsMatchPlans, ImagesMatchRows
<1>4. PauseTracksOperation' /\ BlockTracksIncident'
  BY <1>2 DEF PauseTracksOperation, BlockTracksIncident, Paused, Pending,
              PendingPhases
<1>5. OneActive' /\ DraftSucceedsActive' /\ NothingLost'
  BY DEF OneActive, SingleActive, DraftSucceedsActive, NothingLost,
         IsDraft, IsActive
<1> QED
  BY <1>3, <1>4, <1>5

\* A committed switch cannot be vouched for: saves stay paused, marked.
LEMMA Blamed ==
    ASSUME DatabaseSound, op \in [Ids -> OpRow], NEW i \in Ids,
           NEW phase \in IncidentPhases,
           op[i].phase \in CommittedPhases,
           op' = [op EXCEPT ![i].phase = phase],
           meta'.pause, meta'.blocked,
           UNCHANGED <<plan, users, kept, backup, acknowledged>>
    PROVE  DatabaseSound'
<1> USE DEF DatabaseSound
<1>1. /\ op'[i].phase = phase
      /\ op'[i].pred = op[i].pred /\ op'[i].succ = op[i].succ
      /\ \A j \in Ids \ {i} : op'[j] = op[j]
  BY DEF OpRow
<1>2. op[i].phase \in PendingPhases /\ op[i].phase # "pausing"
  BY DEF CommittedPhases, PrecommitPhases
<1>3. \A j \in Ids \ {i} : op'[j].phase \notin PendingPhases
  BY <1>1, <1>2 DEF PauseTracksOperation, Pending
<1>4. phase \in CommittedPhases /\ phase \notin PrecommitPhases
  BY DEF IncidentPhases, CommittedPhases, PendingPhases, PrecommitPhases
<1>5. RowsMatchPlans'
  <2>1. op'[i].pred \in Plans /\ op'[i].succ \in Plans
    BY <1>1, <1>2 DEF RowsMatchPlans
  <2>2. Replaced(plan', op'[i].pred, op'[i].succ, i)
    BY <1>1 DEF RowsMatchPlans
  <2> QED
    BY <1>1, <1>3, <1>4, <2>1, <2>2
    DEF RowsMatchPlans, CommittedPhases, PendingPhases
<1>6. ImagesMatchRows'
  <2>1. backup[i] # NoBackup /\ ImageOf(i)
    BY <1>2 DEF ImagesMatchRows
  <2>2. backup'[i] # NoBackup /\ ImageOf(i)'
    BY <1>1, <2>1 DEF ImageOf
  <2>3. op'[i].phase # "none"
    BY <1>1 DEF IncidentPhases
  <2> QED
    BY <1>1, <1>3, <2>2, <2>3 DEF ImagesMatchRows
<1>7. PauseTracksOperation'
  BY <1>1, <1>3, <1>4 DEF PauseTracksOperation, Paused, Pending,
                          CommittedPhases
<1>8. BlockTracksIncident' /\ OneActive' /\ DraftSucceedsActive' /\ NothingLost'
  BY <1>1 DEF BlockTracksIncident, IncidentPhases, OneActive, SingleActive,
              DraftSucceedsActive, NothingLost, IsDraft, IsActive
<1> QED
  BY <1>5, <1>6, <1>7, <1>8

-----------------------------------------------------------------------------
(***************************************************************************)
(* The activation request, action by action.                               *)
(***************************************************************************)

\* A request comes, or goes without having driven anything.
LEMMA BystanderSafe ==
    ASSUME IInv, TypeOK', NEW r \in Requests,
           req[r].pc \notin Driving, req'[r].pc \notin Driving,
           up, \A s \in Requests \ {r} : req'[s] = req[s],
           UNCHANGED <<durable, backup, up, thread, acknowledged>>
    PROVE  IInv'
<1> USE DEF IInv
<1>1. DatabaseSound'
  BY Untouched DEF durable
<1>2. RequestsMatchRows'
  BY DEF RequestsMatchRows, RequestMatchesRow, Driving, durable
<1> QED
  BY <1>1, <1>2

LEMMA BeginSafe ==
    ASSUME IInv, TypeOK', NEW r \in Requests, Begin(r)
    PROVE  IInv'
<1> DEFINE i == req[r].id
           p == req[r].pred
           q == req[r].succ
<1>1. i \in Ids /\ p \in Plans /\ q \in Plans /\ req[r] # Idle
  BY DEF Begin, IInv, TypeOK, RequestState, Idle
<1>2. /\ \A j \in Ids : op[j].phase \notin PendingPhases
      /\ \A s \in Requests : req[s].pc \notin Driving
  BY Quiet DEF Begin
<1>3. op[i].phase = "none" /\ backup[i] = NoBackup
  BY <1>1 DEF Begin, HasPrior, IInv, DatabaseSound, ImagesMatchRows
<1>4. /\ op'[i].phase = "pausing" /\ op'[i].pred = p /\ op'[i].succ = q
      /\ \A j \in Ids \ {i} : op'[j] = op[j]
  BY <1>1 DEF Begin, NoOp, IInv, TypeOK
<1>5. /\ req'[r].pc = "backup" /\ req'[r].id = i
      /\ req'[r].pred = p /\ req'[r].succ = q
      /\ \A s \in Requests \ {r} : req'[s] = req[s]
  BY DEF Begin, IInv, TypeOK, RequestState, Idle
<1>6. RequestsMatchRows'
  <2>1. \A s \in Requests \ {r} : req'[s].pc \notin Driving
    BY <1>2, <1>5
  <2>2. RequestMatchesRow(r)'
    BY <1>4, <1>5 DEF RequestMatchesRow
  <2>3. \A s \in Requests \ {r} : RequestMatchesRow(s)'
    BY <2>1 DEF RequestMatchesRow
  <2>4. \A s \in Requests : /\ thread' = s <=> req'[s].pc \in {"recorded", "committed"}
                            /\ ~up' => req'[s] = Idle
    <3>1. UNCHANGED <<up, thread>> /\ up /\ thread \notin Requests
      BY DistinctSentinels DEF Begin
    <3> QED
      BY <1>5, <2>1, <3>1 DEF Driving
  <2> QED
    BY <2>1, <2>2, <2>3, <2>4 DEF RequestsMatchRows
<1>7. RowsMatchPlans'
  <2>1. Prepared(plan, p, q)
    BY <1>1 DEF Begin, Activatable, IInv, DatabaseSound, DraftSucceedsActive,
                Prepared, SingleActive, IsDraft, IsActive
  <2>2. \A j \in Ids \ {i} : op'[j].phase \notin PendingPhases
    BY <1>2, <1>4
  <2> QED
    BY <1>1, <1>4, <2>1, <2>2
    DEF Begin, RowsMatchPlans, Prepared, SingleActive, PendingPhases,
        CommittedPhases, PrecommitPhases
<1>8. ImagesMatchRows'
  BY <1>2, <1>3, <1>4 DEF Begin, ImagesMatchRows, IInv, DatabaseSound
<1>9. PauseTracksOperation' /\ BlockTracksIncident'
  BY <1>1, <1>2, <1>4
  DEF Begin, PauseTracksOperation, BlockTracksIncident, Paused, Pending,
      PendingPhases, PrecommitPhases, IInv, TypeOK, MetaRow
<1>10. OneActive' /\ DraftSucceedsActive' /\ NothingLost'
  BY DEF Begin, IInv, DatabaseSound, OneActive, SingleActive, ghosts,
         DraftSucceedsActive, NothingLost, IsDraft, IsActive
<1> QED
  BY <1>6, <1>7, <1>8, <1>9, <1>10 DEF IInv, DatabaseSound

\* The image is the database of this moment.
LEMMA CopySafe ==
    ASSUME IInv, TypeOK', NEW r \in Requests, CopyDatabase(r)
    PROVE  IInv'
<1> DEFINE i == req[r].id
<1>1. req[r].pc \in Driving
  BY DEF CopyDatabase, Driving
<1>2. /\ i \in Ids /\ op[i].phase \in PendingPhases
      /\ \A j \in Ids : op[j].phase \in PendingPhases => j = i
      /\ \A s \in Requests : req[s].pc \in Driving => s = r
  BY <1>1, Driver
<1>3. op[i].phase = "pausing"
  BY <1>1 DEF CopyDatabase, IInv, RequestsMatchRows, RequestMatchesRow
<1>4. /\ backup'[i] = Image
      /\ \A j \in Ids \ {i} : backup'[j] = backup[j]
  BY <1>2 DEF CopyDatabase, IInv, TypeOK
<1>5. backup'[i] # NoBackup
  BY <1>4, BackupSentinel
  DEF Image, BackupFile, IInv, TypeOK, MetaRow
<1>6. /\ req'[r] = [req[r] EXCEPT !.pc = "copied"]
      /\ \A s \in Requests \ {r} : req'[s] = req[s]
  BY DEF CopyDatabase, IInv, TypeOK
<1>7. /\ req'[r].pc = "copied" /\ req'[r].id = i
      /\ req'[r].pred = req[r].pred /\ req'[r].succ = req[r].succ
  BY <1>6 DEF CopyDatabase, IInv, TypeOK, RequestState, Idle
<1>8. RequestsMatchRows'
  <2>1. RequestMatchesRow(r)'
    BY <1>1, <1>3, <1>5, <1>7
    DEF CopyDatabase, RequestMatchesRow, RequestsMatchRows, IInv, durable
  <2>2. ASSUME NEW s \in Requests \ {r}
        PROVE  RequestMatchesRow(s)' /\ req'[s].pc \notin Driving
    BY <1>1, <1>2, <1>6 DEF RequestMatchesRow
  <2>3. \A s \in Requests : /\ thread' = s <=> req'[s].pc \in {"recorded", "committed"}
                            /\ ~up' => req'[s] = Idle
    BY <1>6, <1>7 DEF CopyDatabase, RequestsMatchRows, IInv
  <2> QED
    BY <2>1, <2>2, <2>3 DEF RequestsMatchRows
<1>9. ImagesMatchRows'
  <2>1. ImageOf(i)'
    <3>1. Prepared(plan, op[i].pred, op[i].succ)
      BY <1>2, <1>3 DEF IInv, DatabaseSound, RowsMatchPlans, PrecommitPhases
    <3>2. /\ backup'[i].plan = plan /\ backup'[i].op = op
          /\ backup'[i].kept = kept /\ backup'[i].users = users
      BY <1>4 DEF Image
    <3>3. UNCHANGED <<plan, op, kept, users>>
      BY DEF CopyDatabase, durable
    <3>4. Prepared(backup'[i].plan, op'[i].pred, op'[i].succ)
      BY <3>1, <3>2, <3>3
    <3>5. /\ backup'[i].kept = kept' /\ backup'[i].users = users'
          /\ \A p \in Plans : backup'[i].plan[p] = plan'[p]
          /\ \A j \in Ids : backup'[i].op[j] = op'[j]
      BY <3>2, <3>3
    <3>6. i' = i
      BY <1>6
    <3> QED
      BY <3>4, <3>5, <3>6 DEF ImageOf
  <2> QED
    BY <1>2, <1>3, <1>4, <1>5, <2>1
    DEF CopyDatabase, ImagesMatchRows, durable, IInv, DatabaseSound
<1>10. RowsMatchPlans' /\ OneActive' /\ DraftSucceedsActive' /\ NothingLost'
  BY DEF CopyDatabase, IInv, DatabaseSound, RowsMatchPlans, Prepared, Replaced,
         SingleActive, OneActive, DraftSucceedsActive, NothingLost, IsDraft,
         IsActive, durable, ghosts
<1>11. PauseTracksOperation' /\ BlockTracksIncident'
  BY DEF CopyDatabase, IInv, DatabaseSound, PauseTracksOperation,
         BlockTracksIncident, Paused, Pending, durable
<1> QED
  BY <1>8, <1>9, <1>10, <1>11 DEF IInv, DatabaseSound

LEMMA RecordSafe ==
    ASSUME IInv, TypeOK', NEW r \in Requests, RecordBackup(r)
    PROVE  IInv'
<1> DEFINE i == req[r].id
<1>1. req[r].pc \in Driving
  BY DEF RecordBackup, Driving
<1>2. /\ i \in Ids /\ op[i].phase \in PendingPhases
      /\ \A j \in Ids : op[j].phase \in PendingPhases => j = i
      /\ \A s \in Requests : req[s].pc \in Driving => s = r
      /\ Paused
  BY <1>1, Driver
<1>3. op[i].phase = "pausing" /\ backup[i] # NoBackup
  BY <1>1 DEF RecordBackup, IInv, RequestsMatchRows, RequestMatchesRow
<1>4. /\ op'[i].phase = "backup_verified"
      /\ op'[i].pred = op[i].pred /\ op'[i].succ = op[i].succ
      /\ \A j \in Ids \ {i} : op'[j] = op[j]
  BY <1>2, <1>3 DEF RecordBackup, IInv, TypeOK, OpRow
<1>5. /\ req'[r] = [req[r] EXCEPT !.pc = "recorded"]
      /\ \A s \in Requests \ {r} : req'[s] = req[s]
  BY DEF RecordBackup, IInv, TypeOK
<1>6. /\ req'[r].pc = "recorded" /\ req'[r].id = i
      /\ req'[r].pred = req[r].pred /\ req'[r].succ = req[r].succ
  BY <1>5 DEF RecordBackup, IInv, TypeOK, RequestState, Idle
<1>7. RequestsMatchRows'
  <2>1. RequestMatchesRow(r)'
    BY <1>1, <1>4, <1>6 DEF RequestMatchesRow, RequestsMatchRows, IInv
  <2>2. ASSUME NEW s \in Requests \ {r}
        PROVE  RequestMatchesRow(s)' /\ req'[s].pc \notin Driving
    BY <1>1, <1>2, <1>5 DEF RequestMatchesRow
  <2>3. \A s \in Requests : /\ thread' = s <=> req'[s].pc \in {"recorded", "committed"}
                            /\ ~up' => req'[s] = Idle
    BY <1>1, <1>2, <1>5, <1>6, <2>2, DistinctSentinels
    DEF RecordBackup, RequestsMatchRows, IInv, Driving
  <2> QED
    BY <2>1, <2>2, <2>3 DEF RequestsMatchRows
<1> DEFINE frame == UNCHANGED <<plan, users, kept, backup>>
<1>8. frame
  BY DEF RecordBackup
<1>9. RowsMatchPlans'
  <2>1. Prepared(plan, op[i].pred, op[i].succ)
    BY <1>2, <1>3 DEF IInv, DatabaseSound, RowsMatchPlans, PrecommitPhases
  <2>2. Prepared(plan', op'[i].pred, op'[i].succ)
    BY <1>4, <1>8, <2>1
  <2>3. op'[i].pred \in Plans /\ op'[i].succ \in Plans
    BY <1>2, <1>4 DEF IInv, DatabaseSound, RowsMatchPlans
  <2>4. \A j \in Ids \ {i} : op'[j].phase \notin PendingPhases
    BY <1>2, <1>4
  <2> QED
    BY <1>4, <2>2, <2>3, <2>4
    DEF RowsMatchPlans, PrecommitPhases, CommittedPhases, PendingPhases
<1>10. ImagesMatchRows'
  <2>1. ImageOf(i)
    BY <1>2, <1>3 DEF ImagesMatchRows, IInv, DatabaseSound
  <2>2. ImageOf(i)'
    BY <1>4, <1>6, <1>8, <2>1 DEF ImageOf
  <2>3. \A j \in Ids \ {i} : op'[j].phase \notin PendingPhases
    BY <1>2, <1>4
  <2>4. \A j \in Ids : op'[j].phase = "none" => backup'[j] = NoBackup
    BY <1>4, <1>8 DEF ImagesMatchRows, IInv, DatabaseSound
  <2> QED
    BY <1>3, <1>6, <1>8, <2>2, <2>3, <2>4 DEF ImagesMatchRows
<1>11. PauseTracksOperation' /\ BlockTracksIncident'
  <2>1. Pending' = {i}
    BY <1>2, <1>4 DEF Pending, PendingPhases, PrecommitPhases
  <2> QED
    BY <1>2, <1>3, <1>4, <2>1
    DEF RecordBackup, PauseTracksOperation, BlockTracksIncident, Paused, IInv,
        DatabaseSound
<1>12. OneActive' /\ DraftSucceedsActive' /\ NothingLost'
  BY DEF RecordBackup, IInv, DatabaseSound, SingleActive, OneActive,
         DraftSucceedsActive, NothingLost, IsDraft, IsActive, ghosts
<1> QED
  BY <1>7, <1>9, <1>10, <1>11, <1>12 DEF IInv, DatabaseSound

\* The lifecycle transaction: the switch, with the image left as it was.
LEMMA CommitSafe ==
    ASSUME IInv, TypeOK', NEW r \in Requests, Commit(r)
    PROVE  IInv'
<1> SUFFICES ASSUME NEW i \in Ids, i = req[r].id,
                    NEW p \in Plans, p = req[r].pred,
                    NEW q \in Plans, q = req[r].succ
             PROVE  IInv'
  BY Driver DEF Commit, Driving
<1>1. req[r].pc \in Driving
  BY DEF Commit, Driving
<1>2. /\ op[i].pred = p /\ op[i].succ = q
      /\ op[i].phase \in PendingPhases
      /\ \A j \in Ids : op[j].phase \in PendingPhases => j = i
      /\ \A s \in Requests : req[s].pc \in Driving => s = r
  BY <1>1, Driver
<1>3. op[i].phase = "backup_verified"
  BY <1>1 DEF Commit, IInv, RequestsMatchRows, RequestMatchesRow
<1>4. /\ op'[i].phase = "committed_unverified"
      /\ op'[i].pred = p /\ op'[i].succ = q
      /\ \A j \in Ids \ {i} : op'[j] = op[j]
  BY <1>2, <1>3 DEF Commit, IInv, TypeOK, OpRow
<1>5. /\ req'[r] = [req[r] EXCEPT !.pc = "committed"]
      /\ \A s \in Requests \ {r} : req'[s] = req[s]
  BY DEF Commit, IInv, TypeOK
<1>6. /\ req'[r].pc = "committed" /\ req'[r].id = i
      /\ req'[r].pred = p /\ req'[r].succ = q
  BY <1>5 DEF Commit, IInv, TypeOK, RequestState, Idle
<1>7. \A j \in Ids \ {i} : op'[j].phase \notin PendingPhases
  BY <1>2, <1>4
<1>8. UNCHANGED <<users, kept, backup, acknowledged, thread, up>>
  BY DEF Commit, ghosts
<1>9. Prepared(plan, p, q) /\ p # q
  BY <1>2, <1>3 DEF IInv, DatabaseSound, RowsMatchPlans, PrecommitPhases,
                    Prepared, SingleActive
<1>10. /\ plan' \in [Plans -> PlanRow]
       /\ plan'[q].state = "active" /\ plan'[q].act = i
       /\ plan'[p].state = "archived"
       /\ \A x \in Plans \ {p, q} : plan'[x] = plan[x]
  <2>1. plan' = Switched(req[r]) /\ plan' \in [Plans -> PlanRow]
    BY DEF Commit, TypeOK
  <2>2. plan'[q] = Promoted(plan[q], i) /\ plan'[p] = Retired(plan[p])
    BY <1>9, <2>1 DEF Switched
  <2>3. \A x \in Plans \ {p, q} : plan'[x] = plan[x]
    BY <2>1 DEF Switched
  <2>4. plan[p] \in PlanRow /\ plan[q] \in PlanRow
    BY DEF IInv, TypeOK
  <2>5. plan'[q].state = "active" /\ plan'[q].act = i
    BY <2>2, <2>4 DEF Promoted, PlanRow
  <2>6. plan'[p].state = "archived"
    BY <2>2, <2>4 DEF Retired, PlanRow
  <2> QED
    BY <2>1, <2>3, <2>5, <2>6
<1>11. Replaced(plan', p, q, i)
  BY <1>9, <1>10 DEF Prepared, Replaced, SingleActive
<1>12. RequestsMatchRows'
  <2>1. RequestMatchesRow(r)'
    BY <1>4, <1>6 DEF RequestMatchesRow
  <2>2. ASSUME NEW s \in Requests \ {r}
        PROVE  RequestMatchesRow(s)' /\ req'[s].pc \notin Driving
    BY <1>1, <1>2, <1>5 DEF RequestMatchesRow
  <2>3. \A s \in Requests : /\ thread' = s <=> req'[s].pc \in {"recorded", "committed"}
                            /\ ~up' => req'[s] = Idle
    BY <1>1, <1>2, <1>5, <1>6, <1>8, <2>2, DistinctSentinels
    DEF Commit, RequestsMatchRows, IInv, Driving
  <2> QED
    BY <2>1, <2>2, <2>3 DEF RequestsMatchRows
<1>13. RowsMatchPlans'
  BY <1>4, <1>7, <1>11
  DEF RowsMatchPlans, PrecommitPhases, CommittedPhases, PendingPhases
<1>14. ImagesMatchRows'
  <2>1. ImageOf(i) /\ backup[i] # NoBackup
    BY <1>2, <1>3 DEF ImagesMatchRows, IInv, DatabaseSound
  <2>2. ImageOf(i)'
    BY <1>2, <1>4, <1>8, <1>10, <2>1 DEF ImageOf
  <2>3. \A j \in Ids : op'[j].phase = "none" => backup'[j] = NoBackup
    BY <1>4, <1>8 DEF ImagesMatchRows, IInv, DatabaseSound
  <2> QED
    BY <1>7, <1>8, <2>1, <2>2, <2>3 DEF ImagesMatchRows
<1>15. PauseTracksOperation' /\ BlockTracksIncident'
  <2>1. Pending' = {i}
    BY <1>4, <1>7 DEF Pending, PendingPhases, PrecommitPhases
  <2>2. meta'.pause /\ ~meta'.blocked
    BY DEF Commit
  <2> QED
    BY <1>4, <1>7, <2>1, <2>2
    DEF PauseTracksOperation, BlockTracksIncident, Paused, PendingPhases
<1>16. OneActive' /\ DraftSucceedsActive' /\ NothingLost'
  BY <1>8, <1>11 DEF OneActive, Replaced, DraftSucceedsActive, IsDraft,
                     NothingLost, IInv, DatabaseSound
<1> QED
  BY <1>12, <1>13, <1>14, <1>15, <1>16 DEF IInv, DatabaseSound

\* The request that drove the operation has ended: no other drives one.
LEMMA DriverGone ==
    ASSUME IInv, NEW r \in Requests, req[r].pc \in Driving,
           up' = up, thread' = NoRequest, req' = [req EXCEPT ![r] = Idle]
    PROVE  RequestsMatchRows'
<1>1. up /\ \A s \in Requests : req[s].pc \in Driving => s = r
  BY Driver
<1>2. \A s \in Requests : req'[s].pc \notin Driving
  BY <1>1 DEF IInv, TypeOK, Idle, Driving
<1>3. \A s \in Requests : thread' # s
  BY DistinctSentinels
<1> QED
  BY <1>1, <1>2, <1>3 DEF RequestsMatchRows, RequestMatchesRow, Driving

LEMMA EndSafe ==
    ASSUME IInv, TypeOK', NEW r \in Requests,
           FailBackup(r) \/ RefuseCommit(r) \/ Verify(r)
    PROVE  IInv'
<1> SUFFICES ASSUME NEW i \in Ids, i = req[r].id
             PROVE  IInv'
  BY Driver DEF FailBackup, RefuseCommit, Verify, Driving
<1>1. req[r].pc \in Driving
  BY DEF FailBackup, RefuseCommit, Verify, Driving
<1>2. op[i].phase \in PendingPhases /\ up
  BY <1>1, Driver
<1>3. /\ req[r].pc = "recorded" => op[i].phase = "backup_verified"
      /\ req[r].pc = "committed" => op[i].phase = "committed_unverified"
  BY <1>1 DEF IInv, RequestsMatchRows, RequestMatchesRow
<1>4. PICK phase \in {"failed_precommit", "verified"} :
        op' = [op EXCEPT ![i].phase = phase]
  BY <1>3 DEF FailBackup, RefuseCommit, Verify, PrecommitPhases
<1>5. ~meta'.pause /\ ~meta'.blocked
  BY DEF FailBackup, RefuseCommit, Verify, IInv, TypeOK, MetaRow
<1>6. DatabaseSound'
  BY <1>2, <1>4, <1>5, Settled
  DEF FailBackup, RefuseCommit, Verify, IInv, TypeOK
<1>7. RequestsMatchRows'
  BY <1>1, DriverGone DEF FailBackup, RefuseCommit, Verify
<1> QED
  BY <1>6, <1>7 DEF IInv

LEMMA FailVerificationSafe ==
    ASSUME IInv, TypeOK', NEW r \in Requests, FailVerification(r)
    PROVE  IInv'
<1> SUFFICES ASSUME NEW i \in Ids, i = req[r].id
             PROVE  IInv'
  BY Driver DEF FailVerification, Driving
<1>1. req[r].pc \in Driving
  BY DEF FailVerification, Driving
<1>2. op[i].phase = "committed_unverified"
  BY <1>1 DEF FailVerification, IInv, RequestsMatchRows, RequestMatchesRow
<1>3. op[i].phase \in CommittedPhases
  BY <1>2 DEF CommittedPhases, PendingPhases, PrecommitPhases
<1>4. meta'.pause /\ meta'.blocked
  BY DEF FailVerification, IInv, TypeOK, MetaRow
<1>5. op' = [op EXCEPT ![i].phase = "verification_failed"]
  BY DEF FailVerification
<1>6. DatabaseSound'
  BY <1>3, <1>4, <1>5, Blamed
  DEF FailVerification, IInv, TypeOK, IncidentPhases, ghosts
<1>7. RequestsMatchRows'
  BY <1>1, DriverGone DEF FailVerification
<1> QED
  BY <1>6, <1>7 DEF IInv

LEMMA FailCleanupSafe ==
    ASSUME IInv, TypeOK', NEW r \in Requests, FailCleanup(r)
    PROVE  IInv'
<1>1. req[r].pc \in Driving
  BY DEF FailCleanup, IInv, RequestsMatchRows, Driving
<1>2. RequestsMatchRows'
  BY <1>1, DriverGone DEF FailCleanup
<1>3. DatabaseSound'
  BY Untouched DEF FailCleanup, durable, ghosts, IInv
<1> QED
  BY <1>2, <1>3 DEF IInv

-----------------------------------------------------------------------------
(***************************************************************************)
(* Ordinary mutations commit only while no operation is unresolved.        *)
(***************************************************************************)

\* What an ordinary mutation may do to the plans: at most one Draft appears
\* or disappears, and the Active plan stays.
LEMMA PlansAfterMutation ==
    ASSUME IInv, NEW w \in Writers, Apply(w)
    PROVE  OneActive' /\ DraftSucceedsActive'
<1> DEFINE m == writer[w]
<1> USE DEF IInv, DatabaseSound
<1>1. PICK a \in Plans : SingleActive(plan, a)
  BY DEF OneActive
<1>2. m.plan \in Plans
  BY DEF TypeOK, Apply, WriterState, Resting, Kinds
<1>3. plan \in [Plans -> PlanRow]
  BY DEF TypeOK
<1>4. ASSUME \A x \in Plans : plan'[x].state = plan[x].state
                             /\ plan'[x].pred = plan[x].pred
      PROVE  OneActive' /\ DraftSucceedsActive'
  <2>1. SingleActive(plan', a)
    BY <1>1, <1>4 DEF SingleActive
  <2> QED
    BY <1>4, <2>1 DEF OneActive, DraftSucceedsActive, IsDraft, IsActive
<1>5. CASE SaveResult(m.plan) \/ SaveStructure(m.plan) \/ SaveAccount
           \/ EditDraft(m.plan, m.rev)
  <2>1. \A x \in Plans : plan'[x].state = plan[x].state
                        /\ plan'[x].pred = plan[x].pred
    BY <1>2, <1>3, <1>5
    DEF SaveResult, SaveStructure, SaveAccount, EditDraft, PlanRow
  <2> QED
    BY <1>4, <2>1
<1>6. CASE CreateDraft(m.plan)
  <2>1. PICK b \in Plans :
          /\ SingleActive(plan, b)
          /\ plan' = [plan EXCEPT ![m.plan].state = "draft", ![m.plan].pred = b]
    BY <1>6 DEF CreateDraft
  <2>2. a = b /\ a # m.plan
    BY <1>1, <1>6, <2>1 DEF SingleActive, CreateDraft
  <2>3. /\ plan'[m.plan].state = "draft" /\ plan'[m.plan].pred = a
        /\ \A x \in Plans \ {m.plan} : plan'[x] = plan[x]
    BY <1>2, <1>3, <2>1, <2>2 DEF PlanRow
  <2>4. SingleActive(plan', a)
    BY <1>1, <2>2, <2>3 DEF SingleActive
  <2>5. \A x \in Plans \ {m.plan} : plan'[x].state # "draft"
    BY <1>6, <2>3 DEF CreateDraft, IsDraft
  <2> QED
    BY <1>1, <2>3, <2>4, <2>5
    DEF OneActive, DraftSucceedsActive, IsDraft, IsActive, SingleActive
<1>7. CASE CancelDraft(m.plan, m.rev)
  <2>1. /\ plan'[m.plan].state = "cancelled"
        /\ \A x \in Plans \ {m.plan} : plan'[x] = plan[x]
    BY <1>2, <1>3, <1>7 DEF CancelDraft, PlanRow
  <2>2. a # m.plan
    BY <1>1, <1>7 DEF SingleActive, CancelDraft, IsDraft
  <2>3. SingleActive(plan', a)
    BY <1>1, <2>1, <2>2 DEF SingleActive
  <2>4. \A x \in Plans : plan'[x].state = "draft" => plan'[x] = plan[x]
    BY <2>1
  <2>5. DraftSucceedsActive'
    BY <1>1, <2>3, <2>4
    DEF DraftSucceedsActive, IsDraft, IsActive, SingleActive
  <2> QED
    BY <2>3, <2>5 DEF OneActive
<1> QED
  BY <1>5, <1>6, <1>7 DEF Apply

LEMMA ApplySafe ==
    ASSUME IInv, TypeOK', NEW w \in Writers, Apply(w)
    PROVE  IInv'
<1>1. ~Paused
  BY DEF Apply, TriggersAbort
<1>2. /\ \A i \in Ids : op[i].phase \notin PendingPhases
      /\ \A r \in Requests : req[r].pc \notin Driving
  BY <1>1, Quiet
<1>3. UNCHANGED <<op, backup, up, req, thread>>
  BY DEF Apply
<1>4. RequestsMatchRows'
  BY <1>2, <1>3 DEF IInv, RequestsMatchRows, RequestMatchesRow, Driving
<1>5. RowsMatchPlans' /\ ImagesMatchRows'
  BY <1>2, <1>3 DEF IInv, DatabaseSound, RowsMatchPlans, ImagesMatchRows,
                    PendingPhases, CommittedPhases
<1>6. PauseTracksOperation' /\ BlockTracksIncident'
  <2>1. meta'.pause = meta.pause /\ meta'.blocked = meta.blocked
    BY DEF Apply, Acknowledge, IInv, TypeOK, MetaRow
  <2> QED
    BY <1>3, <2>1 DEF IInv, DatabaseSound, PauseTracksOperation,
                      BlockTracksIncident, Paused, Pending
<1>7. NothingLost'
  BY DEF Apply, Acknowledge, NothingLost, IInv, DatabaseSound
<1> QED
  BY <1>4, <1>5, <1>6, <1>7, PlansAfterMutation DEF IInv, DatabaseSound

-----------------------------------------------------------------------------
(***************************************************************************)
(* Crash, restart, restore.                                                *)
(***************************************************************************)

LEMMA CrashSafe ==
    ASSUME IInv, TypeOK', Crash
    PROVE  IInv'
<1>1. DatabaseSound'
  BY Untouched DEF Crash, durable, ghosts, IInv
<1>2. RequestsMatchRows'
  BY DistinctSentinels
  DEF Crash, RequestsMatchRows, RequestMatchesRow, Driving, Idle
<1> QED
  BY <1>1, <1>2 DEF IInv

\* The reconciliation never finds an interrupted operation ambiguous, unless
\* a committed switch fails its own verification.
LEMMA BootSafe ==
    ASSUME IInv, TypeOK', Boot
    PROVE  IInv'
<1> DEFINE single == \E p \in Plans : SingleActive(plan, p)
<1>1. single
  BY DEF IInv, DatabaseSound, OneActive
<1>2. \A r \in Requests : req'[r] = Idle
  BY DEF Boot, IInv, RequestsMatchRows
<1>3. RequestsMatchRows'
  BY <1>2 DEF Boot, IInv, RequestsMatchRows, RequestMatchesRow, Driving, Idle
<1>4. UNCHANGED <<plan, users, kept, backup, acknowledged>>
  BY DEF Boot, ghosts
<1>5. ASSUME NEW i \in Ids, NEW clean \in BOOLEAN,
             Decide(i, op[i].phase, single, clean),
             op[i].phase \in PendingPhases
      PROVE  DatabaseSound'
  <2>1. op \in [Ids -> OpRow] /\ meta \in MetaRow /\ DatabaseSound
    BY DEF IInv, TypeOK
  <2>2. CASE \E n \in Nat : Settle(i, "failed_precommit", FALSE, n)
                        \/ Settle(i, "verified", FALSE, n)
    BY <1>4, <1>5, <2>1, <2>2, Settled DEF Settle
  <2>3. CASE op[i].phase \in IncidentPhases /\ Halt
    <3>1. meta'.pause /\ meta'.blocked /\ op' = op
      BY <2>1, <2>3 DEF Halt, MetaRow
    <3>2. RowsMatchPlans' /\ ImagesMatchRows' /\ OneActive'
          /\ DraftSucceedsActive' /\ NothingLost'
      BY <1>4, <2>1, <3>1
      DEF DatabaseSound, RowsMatchPlans, ImagesMatchRows, ImageOf, OneActive,
          DraftSucceedsActive, NothingLost, IsDraft, IsActive, Prepared,
          Replaced, SingleActive
    <3>3. PauseTracksOperation' /\ BlockTracksIncident'
      BY <1>5, <2>1, <2>3, <3>1
      DEF DatabaseSound, PauseTracksOperation, BlockTracksIncident, Paused,
          Pending, IncidentPhases
    <3> QED
      BY <3>2, <3>3 DEF DatabaseSound
  <2>4. CASE /\ op[i].phase \in PrecommitPhases \cup {"committed_unverified"}
             /\ ~ClearlyBefore(i, op[i].phase, single)
             /\ Settle(i, "integrity_incident", TRUE, 0)
    <3>1. op[i].phase \notin PrecommitPhases
      BY <1>1, <2>1, <2>4
      DEF ClearlyBefore, DatabaseSound, RowsMatchPlans, Prepared,
          SingleActive, IsActive, IsDraft, PendingPhases
    <3>2. op[i].phase \in CommittedPhases
      BY <1>5, <3>1 DEF CommittedPhases
    <3> QED
      BY <1>4, <2>1, <2>4, <3>2, Blamed DEF Settle, IncidentPhases
  <2> QED
    BY <1>5, <2>2, <2>3, <2>4 DEF Decide, IncidentPhases
<1>6. ASSUME UNCHANGED <<op, meta>> PROVE DatabaseSound'
  BY <1>4, <1>6, Untouched DEF IInv
<1>7. DatabaseSound'
  <2> DEFINE pending == {i \in Ids : op[i].phase \in PendingPhases}
  <2>1. ~ \E i, j \in pending : i # j
    BY DEF IInv, DatabaseSound, PauseTracksOperation, Pending
  <2>2. /\ SeenNow \in [Ids -> Phases]
        /\ \A i \in Ids : SeenNow[i] = op[i].phase
    BY DEF SeenNow, IInv, TypeOK, OpRow
  <2>3. {i \in Ids : SeenNow[i] \in PendingPhases} = pending
    BY <2>2
  <2>4. \/ UNCHANGED <<op, meta>>
        \/ \E i \in pending, clean \in BOOLEAN :
             Decide(i, SeenNow[i], single, clean)
    BY <1>1, <2>1, <2>3 DEF Boot, Reconcile
  <2> QED
    BY <1>5, <1>6, <2>2, <2>4
<1> QED
  BY <1>3, <1>7 DEF IInv

\* The image brings back exactly the plans of before the switch, and nothing
\* else has changed since it was taken.
LEMMA RestoreSafe ==
    ASSUME IInv, TypeOK', NEW i \in Ids, Restore(i)
    PROVE  IInv'
<1> DEFINE p == op[i].pred
           q == op[i].succ
           b == backup[i]
<1>1. op[i].phase = "verification_failed" /\ b # NoBackup /\ ~up
  BY DEF Restore, RestoreAllowed
<1>2. op[i].phase \in PendingPhases
  BY <1>1 DEF PendingPhases
<1>3. /\ ImageOf(i)
      /\ \A j \in Ids \ {i} : op[j].phase \notin PendingPhases
  BY <1>1, <1>2 DEF IInv, DatabaseSound, ImagesMatchRows,
                    PauseTracksOperation, Pending
<1>4. b \in BackupFile
  BY <1>1 DEF IInv, TypeOK
<1>5. /\ op'[i].phase = "failed_precommit"
      /\ \A j \in Ids \ {i} : op'[j] = op[j]
  <2>1. b.op \in [Ids -> OpRow]
    BY <1>4 DEF BackupFile
  <2>2. op' = [b.op EXCEPT ![i].phase = "failed_precommit"]
    BY DEF Restore
  <2>3. op'[i].phase = "failed_precommit"
    BY <2>1, <2>2 DEF OpRow
  <2>4. \A j \in Ids \ {i} : op'[j] = b.op[j]
    BY <2>1, <2>2
  <2> QED
    BY <1>3, <2>3, <2>4 DEF ImageOf
<1>6. \A j \in Ids : op'[j].phase \notin PendingPhases
  BY <1>3, <1>5 DEF PendingPhases, PrecommitPhases
<1>7. RequestsMatchRows'
  <2>1. up' = up /\ req' = req /\ thread' = thread
    BY DEF Restore, process
  <2>2. \A r \in Requests : req[r] = Idle
    BY <1>1 DEF IInv, RequestsMatchRows
  <2>3. \A r \in Requests : req[r].pc = "idle" /\ thread # r
    BY <2>2 DEF IInv, RequestsMatchRows, Idle
  <2> QED
    BY <2>1, <2>2, <2>3 DEF RequestsMatchRows, RequestMatchesRow, Driving
<1>8. RowsMatchPlans'
  BY <1>6 DEF RowsMatchPlans, CommittedPhases, PendingPhases
<1>9. ImagesMatchRows'
  <2>1. \A j \in Ids : op'[j].phase = "none" => backup'[j] = NoBackup
    BY <1>5 DEF Restore, IInv, DatabaseSound, ImagesMatchRows
  <2> QED
    BY <1>6, <2>1 DEF ImagesMatchRows
<1>10. PauseTracksOperation' /\ BlockTracksIncident'
  BY <1>6 DEF Restore, PauseTracksOperation, BlockTracksIncident, Paused,
              Pending, PendingPhases
<1>11. Prepared(plan', p, q)
  BY <1>3 DEF Restore, ImageOf
<1>12. p \in Plans
  BY <1>2 DEF IInv, DatabaseSound, RowsMatchPlans
<1>13. OneActive' /\ DraftSucceedsActive'
  <2>1. SingleActive(plan', p)
    BY <1>11 DEF Prepared
  <2>2. \A x \in Plans : plan'[x].state = "draft" => x = q /\ plan'[x].pred = p
    BY <1>11 DEF Prepared
  <2> QED
    BY <1>12, <2>1, <2>2
    DEF OneActive, DraftSucceedsActive, IsDraft, IsActive, SingleActive
<1>14. NothingLost'
  BY <1>3 DEF Restore, ImageOf, NothingLost, IInv, DatabaseSound, ghosts
<1> QED
  BY <1>7, <1>8, <1>9, <1>10, <1>13, <1>14 DEF IInv, DatabaseSound

-----------------------------------------------------------------------------
(***************************************************************************)
(* The theorems.                                                           *)
(***************************************************************************)

LEMMA NextSafe == IInv /\ [Next]_vars => IInv'
<1> SUFFICES ASSUME IInv, [Next]_vars PROVE IInv'
  OBVIOUS
<1>1. TypeOK'
  BY NextTyped DEF IInv
<1>2. ASSUME NEW r \in Requests, NEW i \in Ids, NEW p \in Plans,
             NEW ack \in BOOLEAN, Submit(r, i, p, ack)
      PROVE  IInv'
  <2>1. /\ req'[r].pc = "body" /\ req[r].pc = "idle"
        /\ \A s \in Requests \ {r} : req'[s] = req[s]
    BY <1>2 DEF Submit, Idle, IInv, TypeOK
  <2> QED
    BY <1>1, <1>2, <2>1, BystanderSafe DEF Submit, Driving, ghosts
<1>3. ASSUME NEW r \in Requests, AnswerPrior(r) \/ Refuse(r)
      PROVE  IInv'
  <2>1. /\ req'[r].pc = "idle" /\ req[r].pc = "body"
        /\ \A s \in Requests \ {r} : req'[s] = req[s]
    BY <1>3 DEF AnswerPrior, Refuse, Idle, IInv, TypeOK
  <2> QED
    BY <1>1, <1>3, <2>1, BystanderSafe DEF AnswerPrior, Refuse, Driving, ghosts
<1>4. ASSUME NEW w \in Writers,
             Abort(w) \/ \E k \in Kinds, p \in Plans : Admit(w, k, p)
      PROVE  IInv'
  <2>1. UNCHANGED <<durable, backup, up, req, thread, ghosts>>
    BY <1>4 DEF Abort, Admit
  <2>2. DatabaseSound'
    BY <2>1, Untouched DEF IInv, durable, ghosts
  <2>3. RequestsMatchRows'
    BY <2>1 DEF IInv, RequestsMatchRows, RequestMatchesRow, durable
  <2> QED
    BY <1>1, <2>2, <2>3 DEF IInv
<1>5. CASE UNCHANGED vars
  <2>1. DatabaseSound'
    BY <1>5, Untouched DEF IInv, vars, durable, ghosts
  <2>2. RequestsMatchRows'
    BY <1>5 DEF IInv, vars, durable, process, RequestsMatchRows,
                RequestMatchesRow
  <2> QED
    BY <1>1, <2>1, <2>2 DEF IInv
<1> QED
  BY <1>1, <1>2, <1>3, <1>4, <1>5, BeginSafe, CopySafe, RecordSafe,
     CommitSafe, EndSafe, FailVerificationSafe, FailCleanupSafe, ApplySafe,
     CrashSafe, BootSafe, RestoreSafe
  DEF Next, Answer, Proceed, Fail

\* The invariant that ties operations, plans, requests and images together
\* holds in every reachable state.
THEOREM Invariance == Spec => []IInv
BY InitSafe, NextSafe, PTL DEF Spec

\* Exactly one plan is Active in every reachable state.
THEOREM AlwaysOneActive == Spec => []OneActive
<1>1. IInv => OneActive
  BY DEF IInv, DatabaseSound
<1> QED
  BY <1>1, Invariance, PTL

\* The only Draft was prepared from the plan that is Active now.
THEOREM DraftAlwaysSucceedsActive == Spec => []DraftSucceedsActive
<1>1. IInv => DraftSucceedsActive
  BY DEF IInv, DatabaseSound
<1> QED
  BY <1>1, Invariance, PTL

\* Saves are paused exactly while one operation is unresolved, and the mark
\* stands exactly while one waits for the operator.
THEOREM PauseAlwaysJustified == Spec => [](PauseTracksOperation /\ BlockTracksIncident)
<1>1. IInv => PauseTracksOperation /\ BlockTracksIncident
  BY DEF IInv, DatabaseSound
<1> QED
  BY <1>1, Invariance, PTL

\* No crash, reconciliation or restore loses an acknowledged save.
THEOREM NothingEverLost == Spec => []NothingLost
<1>1. IInv => NothingLost
  BY DEF IInv, DatabaseSound
<1> QED
  BY <1>1, Invariance, PTL

\* The image of an operation stays current until the operation ends.
THEOREM BackupStaysCurrent == Spec => []BackupIsCurrent
<1>1. IInv => BackupIsCurrent
  BY DEF IInv, DatabaseSound, ImagesMatchRows, ImageOf, BackupIsCurrent,
         PendingPhases, PrecommitPhases
<1> QED
  BY <1>1, Invariance, PTL

-----------------------------------------------------------------------------
(***************************************************************************)
(* PlanActivation implements PlanSwitch: whatever the pauses, backups,     *)
(* retries, crashes and restores in between, a client sees one plan hand   *)
(* over to the next in one step.  The two step properties follow likewise. *)
(***************************************************************************)


\* A step that leaves the plans' states and the saved changes alone.
LEMMA StateFrame ==
    ASSUME UNCHANGED <<plan, kept>>
    PROVE  UNCHANGED Lifecycle!vars
BY DEF Lifecycle!vars

LEMMA CommitSwitches ==
    ASSUME IInv, NEW r \in Requests, Commit(r)
    PROVE  Lifecycle!Next
<1> SUFFICES ASSUME NEW p \in Plans, p = req[r].pred,
                    NEW q \in Plans, q = req[r].succ
             PROVE  Lifecycle!Next
  BY Driver DEF Commit, Driving
<1>1. plan[p].state = "active" /\ plan[q].state = "draft"
  BY DEF Commit, CommitAllowed, Activatable, IsActive, IsDraft
<1>2. plan' = Switched(req[r]) /\ kept' = kept
  BY DEF Commit
<1>3. plan \in [Plans -> PlanRow]
  BY DEF IInv, TypeOK
<1>4. plan'[q].state = "active" /\ plan'[p].state = "archived"
  BY <1>1, <1>2, <1>3 DEF Switched, Promoted, Retired, PlanRow
<1>5. \A x \in Plans \ {p, q} : plan'[x] = plan[x]
  BY <1>2 DEF Switched
<1>6. [x \in Plans |-> plan[x].state]'
        = [[x \in Plans |-> plan[x].state]
              EXCEPT ![p] = "archived", ![q] = "active"]
  BY <1>1, <1>4, <1>5
<1>7. Lifecycle!Switch(p, q)
  BY <1>1, <1>2, <1>6 DEF Lifecycle!Switch
<1> QED
  BY <1>7 DEF Lifecycle!Next

LEMMA ApplySaves ==
    ASSUME IInv, NEW w \in Writers, Apply(w)
    PROVE  Lifecycle!Next
<1> DEFINE m == writer[w]
<1>1. m.plan \in Plans
  BY DEF IInv, TypeOK, Apply, WriterState, Resting, Kinds
<1>2. plan \in [Plans -> PlanRow] /\ kept' = kept + 1
  BY DEF IInv, TypeOK, Apply, Acknowledge
<1>3. CASE SaveResult(m.plan) \/ SaveStructure(m.plan) \/ SaveAccount
           \/ EditDraft(m.plan, m.rev)
  <2>1. \A x \in Plans : plan'[x].state = plan[x].state
    BY <1>1, <1>2, <1>3
    DEF SaveResult, SaveStructure, SaveAccount, EditDraft, PlanRow
  <2> QED
    BY <1>2, <2>1 DEF Lifecycle!Next, Lifecycle!Save
<1>4. CASE CreateDraft(m.plan)
  <2>1. PICK b \in Plans :
          plan' = [plan EXCEPT ![m.plan].state = "draft", ![m.plan].pred = b]
    BY <1>4 DEF CreateDraft
  <2>2. /\ plan'[m.plan].state = "draft"
        /\ \A x \in Plans \ {m.plan} : plan'[x] = plan[x]
    BY <1>1, <1>2, <2>1 DEF PlanRow
  <2>3. plan[m.plan].state = "none" /\ Lifecycle!Drafts = {}
    BY <1>4 DEF CreateDraft, IsDraft, Lifecycle!Drafts
  <2> QED
    BY <1>1, <1>2, <2>2, <2>3 DEF Lifecycle!Next, Lifecycle!Prepare
<1>5. CASE CancelDraft(m.plan, m.rev)
  <2>1. /\ plan[m.plan].state = "draft"
        /\ plan'[m.plan].state = "cancelled"
        /\ \A x \in Plans \ {m.plan} : plan'[x] = plan[x]
    BY <1>1, <1>2, <1>5 DEF CancelDraft, IsDraft, PlanRow
  <2> QED
    BY <1>1, <1>2, <2>1 DEF Lifecycle!Next, Lifecycle!Discard
<1> QED
  BY <1>3, <1>4, <1>5 DEF Apply

LEMMA RestoreUndoes ==
    ASSUME IInv, NEW i \in Ids, Restore(i)
    PROVE  Lifecycle!Next
<1>1. /\ op[i].phase \in CommittedPhases /\ op[i].phase \in PendingPhases
      /\ backup[i] # NoBackup /\ op[i].phase # "pausing"
  BY DEF Restore, RestoreAllowed, CommittedPhases, PendingPhases,
         PrecommitPhases
<1> SUFFICES ASSUME NEW p \in Plans, p = op[i].pred,
                    NEW q \in Plans, q = op[i].succ
             PROVE  Lifecycle!Next
  BY <1>1 DEF IInv, DatabaseSound, RowsMatchPlans
<1>2. Replaced(plan, p, q, i)
  BY <1>1 DEF IInv, DatabaseSound, RowsMatchPlans
<1>3. ImageOf(i)
  BY <1>1 DEF IInv, DatabaseSound, ImagesMatchRows
<1>4. plan' = backup[i].plan /\ kept' = kept
  BY <1>3 DEF Restore, ImageOf
<1>5. /\ plan'[p].state = "active" /\ plan'[q].state = "draft"
      /\ \A x \in Plans \ {p, q} : plan'[x] = plan[x]
  BY <1>3, <1>4 DEF ImageOf, Prepared, SingleActive
<1>6. plan[p].state = "archived" /\ plan[q].state = "active"
  BY <1>2 DEF Replaced, SingleActive
<1>7. Lifecycle!Drafts = {}
  BY <1>2 DEF Replaced, Lifecycle!Drafts
<1>8. [x \in Plans |-> plan[x].state]'
        = [[x \in Plans |-> plan[x].state]
              EXCEPT ![p] = "active", ![q] = "draft"]
  BY <1>5, <1>6
<1>9. Lifecycle!Undo(p, q)
  BY <1>4, <1>6, <1>7, <1>8 DEF Lifecycle!Undo
<1> QED
  BY <1>9 DEF Lifecycle!Next

\* Any other step leaves the plans and the saved changes alone.
LEMMA OtherStep ==
    ASSUME [Next]_vars
    PROVE  \/ \E r \in Requests : Commit(r)
           \/ \E w \in Writers : Apply(w)
           \/ \E i \in Ids : Restore(i)
           \/ UNCHANGED <<plan, kept>>
<1>1. ASSUME NEW r \in Requests, NEW i \in Ids, NEW p \in Plans, NEW ack \in BOOLEAN,
             Submit(r, i, p, ack)
      PROVE  UNCHANGED <<plan, kept>>
  BY <1>1 DEF Submit, durable
<1>2. ASSUME NEW r \in Requests, Answer(r) PROVE UNCHANGED <<plan, kept>>
  BY <1>2 DEF Answer, AnswerPrior, Begin, Refuse, durable
<1>3. ASSUME NEW r \in Requests, Proceed(r), ~Commit(r) PROVE UNCHANGED <<plan, kept>>
  BY <1>3 DEF Proceed, CopyDatabase, RecordBackup, Verify, durable
<1>4. ASSUME NEW r \in Requests, Fail(r) \/ FailCleanup(r) PROVE UNCHANGED <<plan, kept>>
  BY <1>4 DEF Fail, FailBackup, RefuseCommit, FailVerification, FailCleanup, durable
<1>5. ASSUME NEW w \in Writers,
             (\E k \in Kinds, p \in Plans : Admit(w, k, p)) \/ Abort(w)
      PROVE  UNCHANGED <<plan, kept>>
  BY <1>5 DEF Admit, Abort, durable
<1>6. ASSUME Crash \/ Boot \/ UNCHANGED vars PROVE UNCHANGED <<plan, kept>>
  BY <1>6 DEF Crash, Boot, vars, durable
<1> QED
  BY <1>1, <1>2, <1>3, <1>4, <1>5, <1>6 DEF Next

\* One-step handover: activation with all its machinery implements the
\* abstract lifecycle.
THEOREM Refinement == Spec => ImplementsPlanSwitch
<1>1. Init => Lifecycle!Init
  BY DEF Init, Lifecycle!Init
<1>2. IInv /\ [Next]_vars => [Lifecycle!Next]_(Lifecycle!vars)
  <2> SUFFICES ASSUME IInv, [Next]_vars
               PROVE  [Lifecycle!Next]_(Lifecycle!vars)
    OBVIOUS
  <2> QED
    BY OtherStep, CommitSwitches, ApplySaves, RestoreUndoes, StateFrame
<1> QED
  BY <1>1, <1>2, Invariance, PTL DEF Spec, ImplementsPlanSwitch, Lifecycle!Spec

\* A plan takes over only while the Admin behind the request still is one.
THEOREM AlwaysActivatedByAdmin == Spec => ActivatedByAdmin
<1>1. IInv /\ [Next]_vars =>
        [(\E p \in Plans : IsDraft(p) /\ plan'[p].state = "active") => users]_vars
  <2> SUFFICES ASSUME IInv, [Next]_vars, ~users,
                      NEW p \in Plans, IsDraft(p)
               PROVE  plan'[p].state # "active"
    OBVIOUS
  <2>1. ASSUME NEW r \in Requests, Commit(r) PROVE FALSE
    BY <2>1 DEF Commit, CommitAllowed
  <2>2. ASSUME NEW i \in Ids, Restore(i) PROVE FALSE
    <3>1. op[i].phase \in CommittedPhases
      BY <2>2 DEF Restore, RestoreAllowed, CommittedPhases, PendingPhases,
                  PrecommitPhases
    <3> QED
      BY <3>1 DEF IInv, DatabaseSound, RowsMatchPlans, Replaced, IsDraft
  <2>3. ASSUME NEW w \in Writers, Apply(w) PROVE plan'[p].state # "active"
    <3>1. writer[w].plan \in Plans /\ plan \in [Plans -> PlanRow]
      BY <2>3 DEF IInv, TypeOK, Apply, WriterState, Resting, Kinds
    <3>2. plan[p] \in PlanRow /\ plan[p].state = "draft"
      BY <3>1 DEF IsDraft
    <3> DEFINE w0 == writer[w].plan
    <3>3. CASE SaveResult(w0)
      BY <3>1, <3>2, <3>3 DEF SaveResult, PlanRow
    <3>4. CASE SaveStructure(w0)
      <4>1. plan'[p] \in {plan[p], [plan[p] EXCEPT !.rev = @ + 1]}
        BY <3>4 DEF SaveStructure
      <4> QED
        BY <3>2, <4>1 DEF PlanRow
    <3>5. CASE SaveAccount
      BY <3>2, <3>5 DEF SaveAccount
    <3>6. CASE CreateDraft(w0)
      BY <3>1, <3>2, <3>6 DEF CreateDraft, PlanRow
    <3>7. CASE EditDraft(w0, writer[w].rev)
      BY <3>1, <3>2, <3>7 DEF EditDraft, PlanRow
    <3>8. CASE CancelDraft(w0, writer[w].rev)
      BY <3>1, <3>2, <3>8 DEF CancelDraft, PlanRow
    <3> QED
      BY <2>3, <3>3, <3>4, <3>5, <3>6, <3>7, <3>8 DEF Apply
  <2>4. ASSUME UNCHANGED plan PROVE plan'[p].state # "active"
    BY <2>4 DEF IsDraft
  <2> QED
    BY <2>1, <2>2, <2>3, <2>4, OtherStep
<1> QED
  BY <1>1, Invariance, PTL DEF Spec, ActivatedByAdmin

-----------------------------------------------------------------------------
(***************************************************************************)
(* HistorySound is an invariant too: the plans that ever took over form    *)
(* one line, an identity sits on a plan exactly when its operation got     *)
(* past the lifecycle transaction, and what clients were told was final.   *)
(***************************************************************************)

LEMMA InitHistory == Init => HistorySound
<1> SUFFICES ASSUME Init PROVE HistorySound
  OBVIOUS
<1> USE DEF Init
<1>1. LineOf(plan)
  BY DEF LineOf, Holds
<1>2. IdentitiesMatch(plan, op)
  BY DEF IdentitiesMatch, SwitchedPhases, CommittedPhases, PendingPhases, NoOp
<1>3. ImagesRemember /\ AnswersFinal
  BY DEF ImagesRemember, AnswersFinal
<1> QED
  BY <1>1, <1>2, <1>3 DEF HistorySound, Remembers

\* A change that nobody in office takes part in leaves the line alone.
LEMMA LineFrame ==
    ASSUME NEW pl, NEW pm, LineOf(pl),
           \A p \in Plans :
              /\ pm[p].act = pl[p].act
              /\ Holds(pm, p) <=> Holds(pl, p)
              /\ Holds(pl, p) => /\ pm[p].pred = pl[p].pred
                                 /\ pm[p].state = pl[p].state
    PROVE  LineOf(pm)
<1>1. \A p \in Plans : pl[p].state = "archived" => pm[p].state = "archived"
  BY DEF Holds
<1> QED
  BY <1>1 DEF LineOf

\* Activation ids and the operations' side of the switch decide the match.
LEMMA IdentityFrame ==
    ASSUME NEW pl, NEW pm, NEW o, NEW n, IdentitiesMatch(pl, o),
           \A p \in Plans : pm[p].act = pl[p].act,
           \A i \in Ids : n[i].phase \in SwitchedPhases <=>
                            o[i].phase \in SwitchedPhases
    PROVE  IdentitiesMatch(pm, n)
BY DEF IdentitiesMatch

\* Nothing the history is about changes.
LEMMA HistoryFrame ==
    ASSUME HistorySound, UNCHANGED <<plan, op, backup, told>>
    PROVE  HistorySound'
BY DEF HistorySound, Remembers, LineOf, Holds, IdentitiesMatch,
       ImagesRemember, AnswersFinal

\* One operation moves on the same side of the switch, and clients are told
\* at most that it has ended as it did.
LEMMA PhaseMoves ==
    ASSUME HistorySound, NEW i \in Ids,
           UNCHANGED <<plan, backup>>,
           \A j \in Ids \ {i} : op'[j] = op[j] /\ told'[j] = told[j],
           op[i].phase \notin {"verified", "failed_precommit"},
           op'[i].phase \in SwitchedPhases <=> op[i].phase \in SwitchedPhases,
           "activated" \in told'[i] => \/ "activated" \in told[i]
                                       \/ op'[i].phase = "verified",
           "unchanged" \in told'[i] => \/ "unchanged" \in told[i]
                                       \/ op'[i].phase = "failed_precommit"
    PROVE  HistorySound'
<1> USE DEF HistorySound
<1>1. LineOf(plan)'
  BY LineFrame DEF Remembers
<1>2. IdentitiesMatch(plan, op)'
  <2>1. \A j \in Ids : op'[j].phase \in SwitchedPhases <=>
                         op[j].phase \in SwitchedPhases
    OBVIOUS
  <2>2. plan' = plan
    OBVIOUS
  <2>3. IdentitiesMatch(plan', op')
    BY <2>1, <2>2, IdentityFrame DEF Remembers
  <2> QED
    BY <2>3
<1>3. ImagesRemember'
  BY DEF ImagesRemember, Remembers, LineOf, Holds, IdentitiesMatch
<1>4. AnswersFinal'
  BY DEF AnswersFinal
<1> QED
  BY <1>1, <1>2, <1>3, <1>4 DEF Remembers

\* An answer repeats how the operation ended, and nothing before it has.
LEMMA AnswerPriorRemembered ==
    ASSUME IInv, HistorySound, NEW r \in Requests, AnswerPrior(r)
    PROVE  HistorySound'
<1> DEFINE q == req[r]
<1> SUFFICES ASSUME NEW i \in Ids, i = q.id PROVE HistorySound'
  BY DEF AnswerPrior, IInv, TypeOK, RequestState, Idle
<1>1. UNCHANGED <<plan, op, backup>>
  BY DEF AnswerPrior, durable
<1>2. q.succ \in Plans
  BY DEF AnswerPrior, IInv, TypeOK, RequestState, Idle
<1>3. /\ told'[i] = told[i] \cup PriorAnswer(q)
      /\ \A j \in Ids \ {i} : told'[j] = told[j]
  BY DEF AnswerPrior, IInv, TypeOK
<1>4. /\ "activated" \in PriorAnswer(q) => op[i].phase = "verified"
      /\ "unchanged" \in PriorAnswer(q) => op[i].phase = "failed_precommit"
  <2>1. CASE op[i].phase = "none"
    <3>1. plan[q.succ].act # i
      BY <1>2, <2>1 DEF HistorySound, Remembers, IdentitiesMatch,
         SwitchedPhases, CommittedPhases, PendingPhases
    <3> QED
      BY <2>1, <3>1 DEF PriorAnswer
  <2>2. CASE op[i].phase # "none"
    BY <2>2 DEF PriorAnswer
  <2> QED
    BY <2>1, <2>2
<1>5. AnswersFinal'
  BY <1>1, <1>3, <1>4 DEF HistorySound, AnswersFinal
<1>6. ImagesRemember' /\ Remembers(plan, op)'
  BY <1>1 DEF HistorySound, ImagesRemember, Remembers, LineOf, Holds,
              IdentitiesMatch
<1> QED
  BY <1>5, <1>6 DEF HistorySound

\* Every step of a request on its operation, except the switch itself.
LEMMA RequestRemembered ==
    ASSUME IInv, HistorySound, NEW r \in Requests,
           \/ Begin(r) \/ RecordBackup(r) \/ Verify(r) \/ Fail(r)
    PROVE  HistorySound'
<1> SUFFICES ASSUME NEW i \in Ids, i = req[r].id PROVE HistorySound'
  BY DEF Begin, RecordBackup, Verify, Fail, FailBackup, RefuseCommit,
         FailVerification, IInv, TypeOK, RequestState, Idle
<1> USE DEF SwitchedPhases, CommittedPhases, PendingPhases, PrecommitPhases
<1>1. UNCHANGED <<plan, backup>>
  BY DEF Begin, RecordBackup, Verify, Fail, FailBackup, RefuseCommit,
         FailVerification
<1>2. op \in [Ids -> OpRow] /\ told \in [Ids -> SUBSET {"activated", "unchanged"}]
  BY DEF IInv, TypeOK
<1>3. CASE Begin(r)
  <2>1. op[i].phase = "none" /\ op'[i].phase = "pausing"
    BY <1>2, <1>3 DEF Begin, HasPrior, NoOp
  <2>2. \A j \in Ids \ {i} : op'[j] = op[j]
    BY <1>2, <1>3 DEF Begin
  <2>3. told' = told
    BY <1>3 DEF Begin, ghosts
  <2> QED
    BY <1>1, <2>1, <2>2, <2>3, PhaseMoves
<1>4. CASE RecordBackup(r)
  <2>1. op[i].phase = "pausing"
    BY <1>4 DEF RecordBackup, IInv, RequestsMatchRows, RequestMatchesRow, Driving
  <2>2. /\ op'[i].phase = "backup_verified"
        /\ \A j \in Ids \ {i} : op'[j] = op[j]
    BY <1>2, <1>4, <2>1 DEF RecordBackup, OpRow
  <2>3. told' = told
    BY <1>4 DEF RecordBackup, ghosts
  <2> QED
    BY <1>1, <2>1, <2>2, <2>3, PhaseMoves
<1>5. CASE Verify(r)
  <2>1. op[i].phase = "committed_unverified"
    BY <1>5 DEF Verify, IInv, RequestsMatchRows, RequestMatchesRow, Driving
  <2>2. /\ op'[i].phase = "verified"
        /\ \A j \in Ids \ {i} : op'[j] = op[j]
    BY <1>2, <1>5, <2>1 DEF Verify, OpRow
  <2>3. /\ told'[i] = told[i] \cup {"activated"}
        /\ \A j \in Ids \ {i} : told'[j] = told[j]
    BY <1>2, <1>5 DEF Verify
  <2> QED
    BY <1>1, <2>1, <2>2, <2>3, PhaseMoves
<1>6. CASE FailBackup(r) \/ RefuseCommit(r)
  <2>1. op[i].phase \in PrecommitPhases
    BY <1>6 DEF FailBackup, RefuseCommit, IInv, RequestsMatchRows,
                RequestMatchesRow, Driving
  <2>2. /\ op'[i].phase = "failed_precommit"
        /\ \A j \in Ids \ {i} : op'[j] = op[j]
    BY <1>2, <1>6, <2>1 DEF FailBackup, RefuseCommit, OpRow
  <2>3. /\ told'[i] = told[i] \cup {"unchanged"}
        /\ \A j \in Ids \ {i} : told'[j] = told[j]
    BY <1>2, <1>6 DEF FailBackup, RefuseCommit
  <2> QED
    BY <1>1, <2>1, <2>2, <2>3, PhaseMoves
<1>7. CASE FailVerification(r)
  <2>1. op[i].phase = "committed_unverified"
    BY <1>7 DEF FailVerification, IInv, RequestsMatchRows, RequestMatchesRow,
                Driving
  <2>2. /\ op'[i].phase = "verification_failed"
        /\ \A j \in Ids \ {i} : op'[j] = op[j]
    BY <1>2, <1>7 DEF FailVerification, OpRow
  <2>3. told' = told
    BY <1>7 DEF FailVerification, ghosts
  <2> QED
    BY <1>1, <2>1, <2>2, <2>3, PhaseMoves
<1> QED
  BY <1>3, <1>4, <1>5, <1>6, <1>7 DEF Fail

\* The image remembers what the database does, of before the switch.
LEMMA CopyRemembered ==
    ASSUME IInv, HistorySound, NEW r \in Requests, CopyDatabase(r)
    PROVE  HistorySound'
<1> SUFFICES ASSUME NEW i \in Ids, i = req[r].id PROVE HistorySound'
  BY DEF CopyDatabase, IInv, TypeOK, RequestState, Idle
<1>1. UNCHANGED <<plan, op, told>>
  BY DEF CopyDatabase, durable, ghosts
<1>2. op[i].phase = "pausing"
  BY DEF CopyDatabase, IInv, RequestsMatchRows, RequestMatchesRow, Driving
<1>3. /\ backup'[i].plan = plan /\ backup'[i].op = op
      /\ \A j \in Ids \ {i} : backup'[j] = backup[j]
  BY DEF CopyDatabase, Image, IInv, TypeOK
<1>4. ImagesRemember'
  <2>1. /\ Remembers(backup'[i].plan, backup'[i].op)
        /\ backup'[i].op[i].phase = "pausing"
    BY <1>2, <1>3 DEF HistorySound
  <2>2. ASSUME NEW j \in Ids \ {i}, backup'[j] # NoBackup
        PROVE  /\ Remembers(backup'[j].plan, backup'[j].op)
               /\ backup'[j].op[j].phase = "pausing"
    BY <1>3, <2>2 DEF HistorySound, ImagesRemember
  <2>3. \A j \in Ids : backup'[j] # NoBackup =>
          /\ Remembers(backup'[j].plan, backup'[j].op)
          /\ backup'[j].op[j].phase = "pausing"
    BY <2>1, <2>2
  <2> QED
    BY <2>3 DEF ImagesRemember, Remembers, LineOf, Holds, IdentitiesMatch
<1>5. Remembers(plan, op)' /\ AnswersFinal'
  BY <1>1 DEF HistorySound, Remembers, LineOf, Holds, IdentitiesMatch,
              AnswersFinal
<1> QED
  BY <1>4, <1>5 DEF HistorySound

\* The switch appends one plan to the line and puts its identity on it.
LEMMA CommitRemembered ==
    ASSUME IInv, HistorySound, NEW r \in Requests, Commit(r)
    PROVE  HistorySound'
<1> SUFFICES ASSUME NEW i \in Ids, i = req[r].id,
                    NEW p \in Plans, p = req[r].pred,
                    NEW q \in Plans, q = req[r].succ
             PROVE  HistorySound'
  BY Driver DEF Commit, Driving
<1>1. /\ op[i].phase = "backup_verified"
      /\ op[i].pred = p /\ op[i].succ = q
  BY DEF Commit, IInv, RequestsMatchRows, RequestMatchesRow, Driving
<1>2. /\ op'[i].phase = "committed_unverified"
      /\ \A j \in Ids \ {i} : op'[j] = op[j]
  BY <1>1 DEF Commit, IInv, TypeOK, OpRow
<1>3. UNCHANGED <<backup, told>>
  BY DEF Commit, ghosts
<1>4. Prepared(plan, p, q) /\ p # q
  BY <1>1 DEF IInv, DatabaseSound, RowsMatchPlans, PrecommitPhases,
              Prepared, SingleActive
<1>5. LineOf(plan)
  BY DEF HistorySound, Remembers
<1>6. plan[q].act = NoId /\ q # First
  BY <1>4, <1>5 DEF LineOf, Holds, Prepared
<1>7. /\ plan'[q].state = "active" /\ plan'[q].act = i /\ plan'[q].pred = p
      /\ plan'[p].state = "archived"
      /\ plan'[p].pred = plan[p].pred /\ plan'[p].act = plan[p].act
      /\ \A x \in Plans \ {p, q} : plan'[x] = plan[x]
  <2>1. plan' = Switched(req[r])
    BY DEF Commit
  <2>2. plan'[q] = Promoted(plan[q], i) /\ plan'[p] = Retired(plan[p])
    BY <1>4, <2>1 DEF Switched
  <2>3. \A x \in Plans \ {p, q} : plan'[x] = plan[x]
    BY <2>1 DEF Switched
  <2>4. plan[p] \in PlanRow /\ plan[q] \in PlanRow
    BY DEF IInv, TypeOK
  <2>5. plan'[q].state = "active" /\ plan'[q].act = i
        /\ plan'[q].pred = plan[q].pred
    BY <2>2, <2>4 DEF Promoted, PlanRow
  <2>6. plan'[p].state = "archived" /\ plan'[p].pred = plan[p].pred
        /\ plan'[p].act = plan[p].act
    BY <2>2, <2>4 DEF Retired, PlanRow
  <2> QED
    BY <1>4, <2>3, <2>5, <2>6 DEF Prepared
<1>8. LineOf(plan')
  <2>1. plan[p].state = "active" /\ plan[q].state = "draft"
    BY <1>4 DEF Prepared, SingleActive
  <2>2. \A x \in Plans : Holds(plan', x) <=> Holds(plan, x) \/ x = q
    BY <1>7, <2>1 DEF Holds
  <2>3. \A x \in Plans : plan[x].state = "archived" =>
                           plan'[x].state = "archived"
    BY <1>7, <2>1
  <2>4. \A x \in Plans : Holds(plan, x) => plan[x].pred # p
    BY <1>5, <2>1 DEF LineOf, DistinctSentinels
  <2>5. \A x \in Plans : Holds(plan, x) =>
          plan'[x].pred = plan[x].pred /\ plan'[x].act = plan[x].act
    BY <1>7, <2>1 DEF Holds
  <2>6. Holds(plan', First) /\ plan'[First].pred = NoPlan
    BY <1>5, <2>2, <2>5 DEF LineOf
  <2>7. \A x \in Plans : ~Holds(plan', x) => plan'[x].act = NoId
    BY <1>5, <1>7, <2>1, <2>2 DEF LineOf, Holds
  <2>8. ASSUME NEW x \in Plans \ {First}, Holds(plan', x)
        PROVE  /\ plan'[x].pred \in Plans
               /\ plan'[plan'[x].pred].state = "archived"
               /\ plan'[x].act # NoId
    <3>1. CASE x = q
      BY <1>7, <3>1
    <3>2. CASE x # q
      BY <1>5, <2>2, <2>3, <2>5, <2>8, <3>2 DEF LineOf
    <3> QED
      BY <3>1, <3>2
  <2>9. ASSUME NEW x \in Plans \ {First}, NEW y \in Plans,
               Holds(plan', x), Holds(plan', y), plan'[y].pred = plan'[x].pred
        PROVE  y = x
    <3>1. CASE x = q \/ y = q
      BY <1>7, <2>2, <2>4, <2>5, <2>9, <3>1
    <3>2. CASE x # q /\ y # q
      BY <1>5, <2>2, <2>5, <2>9, <3>2 DEF LineOf
    <3> QED
      BY <3>1, <3>2
  <2> QED
    BY <2>6, <2>7, <2>8, <2>9 DEF LineOf
<1>9. IdentitiesMatch(plan', op')
  <2> USE DEF SwitchedPhases, CommittedPhases, PendingPhases, PrecommitPhases
  <2>1. IdentitiesMatch(plan, op)
    BY DEF HistorySound, Remembers
  <2>2. \A x \in Plans \ {q} : plan'[x].act = plan[x].act
    BY <1>7
  <2>3. ASSUME NEW j \in Ids \ {i}
        PROVE  op'[j].phase \in SwitchedPhases <=> \E x \in Plans : plan'[x].act = j
    <3>1. (\E x \in Plans : plan'[x].act = j) <=> \E x \in Plans : plan[x].act = j
      BY <1>6, <1>7, <2>2
    <3> QED
      BY <1>2, <2>1, <3>1 DEF IdentitiesMatch
  <2>4. op'[i].phase \in SwitchedPhases /\ \E x \in Plans : plan'[x].act = i
    BY <1>2, <1>7
  <2> QED
    BY <2>3, <2>4 DEF IdentitiesMatch
<1>10. ImagesRemember'
  BY <1>3 DEF HistorySound, ImagesRemember, Remembers, LineOf, Holds,
              IdentitiesMatch
<1>11. AnswersFinal'
  BY <1>1, <1>2, <1>3 DEF HistorySound, AnswersFinal
<1>12. Remembers(plan, op)'
  BY <1>8, <1>9 DEF Remembers
<1> QED
  BY <1>10, <1>11, <1>12 DEF HistorySound

\* An ordinary mutation gives or takes no office and no identity.
LEMMA ApplyRemembered ==
    ASSUME IInv, HistorySound, NEW w \in Writers, Apply(w)
    PROVE  HistorySound'
<1> DEFINE m == writer[w]
<1>1. m.plan \in Plans
  BY DEF IInv, TypeOK, Apply, WriterState, Resting, Kinds
<1>2. plan \in [Plans -> PlanRow]
  BY DEF IInv, TypeOK
<1>3. UNCHANGED <<op, backup, told>>
  BY DEF Apply
<1>4. \A p \in Plans :
        /\ plan'[p].act = plan[p].act
        /\ Holds(plan', p) <=> Holds(plan, p)
        /\ Holds(plan, p) => /\ plan'[p].pred = plan[p].pred
                             /\ plan'[p].state = plan[p].state
  <2> USE DEF PlanRow, Holds
  <2>1. CASE SaveResult(m.plan)
    BY <1>1, <1>2, <2>1 DEF SaveResult
  <2>2. CASE SaveStructure(m.plan)
    <3>1. \A p \in Plans : plan'[p] \in {plan[p], [plan[p] EXCEPT !.rev = @ + 1]}
      BY <2>2 DEF SaveStructure
    <3> QED
      BY <1>2, <3>1
  <2>3. CASE SaveAccount
    BY <2>3 DEF SaveAccount
  <2>4. CASE CreateDraft(m.plan)
    BY <1>1, <1>2, <2>4 DEF CreateDraft
  <2>5. CASE EditDraft(m.plan, m.rev)
    BY <1>1, <1>2, <2>5 DEF EditDraft
  <2>6. CASE CancelDraft(m.plan, m.rev)
    BY <1>1, <1>2, <2>6 DEF CancelDraft, IsDraft
  <2> QED
    BY <2>1, <2>2, <2>3, <2>4, <2>5, <2>6 DEF Apply
<1>5. LineOf(plan')
  BY <1>4, LineFrame DEF HistorySound, Remembers
<1>6. IdentitiesMatch(plan', op')
  BY <1>3, <1>4, IdentityFrame DEF HistorySound, Remembers
<1>7. Remembers(plan, op)'
  BY <1>5, <1>6 DEF Remembers
<1>8. ImagesRemember' /\ AnswersFinal'
  BY <1>3 DEF HistorySound, ImagesRemember, Remembers, LineOf, Holds,
              IdentitiesMatch, AnswersFinal
<1> QED
  BY <1>7, <1>8 DEF HistorySound

\* The reconciliation settles an operation on the side it already is.
LEMMA BootRemembered ==
    ASSUME IInv, HistorySound, Boot
    PROVE  HistorySound'
<1> DEFINE single == \E p \in Plans : SingleActive(plan, p)
<1> USE DEF SwitchedPhases, CommittedPhases, PendingPhases, PrecommitPhases
<1>1. UNCHANGED <<plan, backup, told>>
  BY DEF Boot, ghosts
<1>2. op \in [Ids -> OpRow]
  BY DEF IInv, TypeOK
<1>3. ASSUME op' = op PROVE HistorySound'
  BY <1>1, <1>3, HistoryFrame
<1>4. single
  BY DEF IInv, DatabaseSound, OneActive
<1>5. ASSUME NEW i \in Ids, NEW clean \in BOOLEAN,
             op[i].phase \in PendingPhases,
             Decide(i, op[i].phase, single, clean)
      PROVE  HistorySound'
  <2>1. ASSUME NEW phase \in Phases, NEW halt \in BOOLEAN, NEW n \in Nat,
               Settle(i, phase, halt, n),
               phase \in SwitchedPhases <=> op[i].phase \in SwitchedPhases
        PROVE  HistorySound'
    <3>1. /\ op'[i].phase = phase
          /\ \A j \in Ids \ {i} : op'[j] = op[j]
      BY <1>2, <2>1 DEF Settle, OpRow
    <3>2. op[i].phase \notin {"verified", "failed_precommit"}
      BY <1>5
    <3> QED
      BY <1>1, <2>1, <3>1, <3>2, PhaseMoves
  <2>2. op[i].phase \in PrecommitPhases => ClearlyBefore(i, op[i].phase, single)
    BY <1>4
    DEF ClearlyBefore, IInv, DatabaseSound, RowsMatchPlans, Prepared,
        SingleActive, IsActive, IsDraft
  <2>3. CASE ClearlyBefore(i, op[i].phase, single)
             /\ Settle(i, "failed_precommit", FALSE, 0)
    BY <2>1, <2>3 DEF ClearlyBefore, Phases
  <2>4. CASE ClearlyAfter(i, op[i].phase, single, clean)
             /\ Settle(i, "verified", FALSE, 1)
    BY <2>1, <2>4 DEF ClearlyAfter, Phases
  <2>5. CASE Halt
    BY <1>3, <2>5 DEF Halt
  <2>6. CASE /\ op[i].phase \in PrecommitPhases \cup {"committed_unverified"}
             /\ ~ClearlyBefore(i, op[i].phase, single)
             /\ Settle(i, "integrity_incident", TRUE, 0)
    BY <2>1, <2>2, <2>6 DEF Phases
  <2> QED
    BY <1>5, <2>3, <2>4, <2>5, <2>6 DEF Decide
<1>6. \A i \in Ids : SeenNow[i] = op[i].phase
  BY DEF SeenNow
<1>7. \/ op' = op
      \/ \E i \in Ids, clean \in BOOLEAN :
           /\ op[i].phase \in PendingPhases
           /\ Decide(i, SeenNow[i], single, clean)
  BY <1>6 DEF Boot, Reconcile, Halt
<1> QED
  BY <1>3, <1>5, <1>6, <1>7

\* The image remembers all that clients were told: the operation it takes
\* back was never answered.
LEMMA RestoreRemembered ==
    ASSUME IInv, HistorySound, NEW i \in Ids, Restore(i)
    PROVE  HistorySound'
<1> DEFINE b == backup[i]
<1>1. op[i].phase = "verification_failed" /\ b # NoBackup
  BY DEF Restore, RestoreAllowed
<1>2. ImageOf(i)
  BY <1>1 DEF IInv, DatabaseSound, ImagesMatchRows, PendingPhases
<1>3. b \in BackupFile
  BY <1>1 DEF IInv, TypeOK
<1>4. UNCHANGED <<backup, told>> /\ plan' = b.plan
  BY DEF Restore, ghosts
<1>5. /\ op'[i].phase = "failed_precommit"
      /\ \A j \in Ids \ {i} : op'[j] = b.op[j]
  <2>1. b.op \in [Ids -> OpRow]
    BY <1>3 DEF BackupFile
  <2>2. op' = [b.op EXCEPT ![i].phase = "failed_precommit"]
    BY DEF Restore
  <2>3. op'[i].phase = "failed_precommit"
    BY <2>1, <2>2 DEF OpRow
  <2>4. \A j \in Ids \ {i} : op'[j] = b.op[j]
    BY <2>1, <2>2
  <2> QED
    BY <2>3, <2>4
<1>6. LineOf(b.plan) /\ IdentitiesMatch(b.plan, b.op) /\ b.op[i].phase = "pausing"
  BY <1>1 DEF HistorySound, ImagesRemember, Remembers
<1>7. IdentitiesMatch(plan', op')
  <2>1. \A j \in Ids : op'[j].phase \in SwitchedPhases <=>
                         b.op[j].phase \in SwitchedPhases
    BY <1>5, <1>6
    DEF SwitchedPhases, CommittedPhases, PendingPhases, PrecommitPhases
  <2> QED
    BY <1>4, <1>6, <2>1, IdentityFrame
<1>8. Remembers(plan, op)'
  BY <1>4, <1>6, <1>7 DEF Remembers
<1>9. ImagesRemember'
  BY <1>4 DEF HistorySound, ImagesRemember, Remembers, LineOf, Holds,
              IdentitiesMatch
<1>10. AnswersFinal'
  <2>1. \A j \in Ids \ {i} : op'[j] = op[j]
    BY <1>2, <1>5 DEF ImageOf
  <2>2. "activated" \notin told[i] /\ "unchanged" \notin told[i]
    BY <1>1 DEF HistorySound, AnswersFinal
  <2> QED
    BY <1>4, <2>1, <2>2 DEF HistorySound, AnswersFinal
<1> QED
  BY <1>8, <1>9, <1>10 DEF HistorySound

LEMMA NextRemembered == IInv /\ HistorySound /\ [Next]_vars => HistorySound'
<1> SUFFICES ASSUME IInv, HistorySound, [Next]_vars PROVE HistorySound'
  OBVIOUS
<1>1. ASSUME NEW r \in Requests,
             \/ \E i \in Ids, p \in Plans, ack \in BOOLEAN : Submit(r, i, p, ack)
             \/ Refuse(r) \/ FailCleanup(r)
      PROVE  HistorySound'
  <2>1. UNCHANGED <<durable, backup, told>>
    BY <1>1 DEF Submit, Refuse, FailCleanup, ghosts
  <2> QED
    BY <2>1, HistoryFrame DEF durable
<1>2. ASSUME NEW w \in Writers,
             (\E k \in Kinds, p \in Plans : Admit(w, k, p)) \/ Abort(w)
      PROVE  HistorySound'
  <2>1. UNCHANGED <<durable, backup, told>>
    BY <1>2 DEF Admit, Abort, ghosts
  <2> QED
    BY <2>1, HistoryFrame DEF durable
<1>3. CASE Crash \/ UNCHANGED vars
  <2>1. UNCHANGED <<durable, backup, told>>
    BY <1>3 DEF Crash, vars, ghosts
  <2> QED
    BY <2>1, HistoryFrame DEF durable
<1> QED
  BY <1>1, <1>2, <1>3, AnswerPriorRemembered, RequestRemembered, CopyRemembered,
     CommitRemembered, ApplyRemembered, BootRemembered, RestoreRemembered
  DEF Next, Answer, Proceed

\* The database and every backup remember the line of plans, and no answer
\* given to a client is taken back, in every reachable state.
THEOREM HistoryAlwaysSound == Spec => []HistorySound
BY InitHistory, NextRemembered, Invariance, PTL DEF Spec

\* The plans that ever took over form one line, each naming an Archived
\* predecessor nobody else names, whatever was interrupted or restored.
THEOREM AlwaysSingleLine == Spec => []SingleLine
<1>1. HistorySound => SingleLine
  BY DEF HistorySound, Remembers, LineOf, Holds, SingleLine, InOffice
<1> QED
  BY <1>1, HistoryAlwaysSound, PTL

\* What a client was told of an activation identity stays true.
THEOREM AnswersStayTrue == Spec => []TruthfulAnswers
<1>1. HistorySound => TruthfulAnswers
  BY DEF HistorySound, Remembers, IdentitiesMatch, AnswersFinal,
         TruthfulAnswers, SwitchedPhases, CommittedPhases, PendingPhases,
         PrecommitPhases
<1> QED
  BY <1>1, HistoryAlwaysSound, PTL

\* An Archived or Cancelled plan never changes again, unless the operator
\* restores the image of the failed activation that archived it.
THEOREM ClosedPlansStayFrozen == Spec => ClosedPlansFrozen
<1>1. IInv /\ [Next]_vars =>
        [ \/ \A p \in Plans : Closed(p) => plan'[p] = plan[p]
          \/ \E i \in Ids : Restore(i) ]_vars
  <2> SUFFICES ASSUME IInv, [Next]_vars, NEW p \in Plans, Closed(p)
               PROVE  plan'[p] = plan[p] \/ \E i \in Ids : Restore(i)
    OBVIOUS
  <2>1. plan \in [Plans -> PlanRow]
    BY DEF IInv, TypeOK
  <2>2. ASSUME NEW r \in Requests, Commit(r) PROVE plan'[p] = plan[p]
    <3>1. req[r].pred # p /\ req[r].succ # p
      BY <2>2 DEF Commit, CommitAllowed, Activatable, IsActive, IsDraft, Closed
    <3> QED
      BY <2>2, <3>1 DEF Commit, Switched
  <2>3. ASSUME NEW w \in Writers, Apply(w) PROVE plan'[p] = plan[p]
    <3> DEFINE m == writer[w]
    <3>1. m.plan \in Plans
      BY <2>3 DEF IInv, TypeOK, Apply, WriterState, Resting, Kinds
    <3> USE DEF Closed, IsActive, IsDraft
    <3>2. CASE SaveResult(m.plan)
      BY <2>1, <3>1, <3>2 DEF SaveResult
    <3>3. CASE SaveStructure(m.plan)
      BY <3>3 DEF SaveStructure
    <3>4. CASE SaveAccount
      BY <3>4 DEF SaveAccount
    <3>5. CASE CreateDraft(m.plan)
      BY <2>1, <3>1, <3>5 DEF CreateDraft
    <3>6. CASE EditDraft(m.plan, m.rev)
      BY <2>1, <3>1, <3>6 DEF EditDraft
    <3>7. CASE CancelDraft(m.plan, m.rev)
      BY <2>1, <3>1, <3>7 DEF CancelDraft
    <3> QED
      BY <2>3, <3>2, <3>3, <3>4, <3>5, <3>6, <3>7 DEF Apply
  <2> QED
    BY <2>2, <2>3, OtherStep
<1> QED
  BY <1>1, Invariance, PTL DEF Spec, ClosedPlansFrozen

-----------------------------------------------------------------------------
(***************************************************************************)
(* A second process that opens the database (SecondProcess) breaks IInv: it *)
(* closes an operation the server is still driving.  What remains is that  *)
(* the lifecycle transaction checks the plans itself, and that every image *)
(* is of an earlier state of the same line.                                *)
(***************************************************************************)

ToolTyped ==
    tool \in [pc : {"off", "read", "open"}, seen : [Ids -> Phases], single : BOOLEAN]

\* The plan Active in file b has not become a Draft since.
Precedes(b, pl) ==
    /\ b # NoBackup
    /\ \A p \in Plans : b.plan[p].state = "active" => Holds(pl, p)

RowsHaveFiles(files, pl, o) ==
    \A i \in Ids : o[i].backedUp => Precedes(files[i], pl)

FilesSound(files) ==
    \A i \in Ids : files[i] # NoBackup =>
        /\ \E p \in Plans : SingleActive(files[i].plan, p)
        /\ RowsHaveFiles(files, files[i].plan, files[i].op)

PastCopy == {"copied", "recorded", "committed"}

RequestsHaveFiles(files, pl, rq, running) ==
    \A r \in Requests :
        /\ rq[r].pc \in PastCopy => Precedes(files[rq[r].id], pl)
        /\ ~running => rq[r] = Idle

\* The inductive invariant of the two processes.
ToolInv ==
    /\ TypeOK /\ ToolTyped /\ OneActive
    /\ RowsHaveFiles(backup, plan, op)
    /\ FilesSound(backup)
    /\ RequestsHaveFiles(backup, plan, req, up)

LEMMA InitShared == ToolInit => ToolInv
<1> SUFFICES ASSUME ToolInit PROVE ToolInv
  OBVIOUS
<1>1. TypeOK
  BY InitTyped DEF ToolInit
<1>2. ToolTyped
  BY DEF ToolInit, Init, ToolTyped, Off, Phases
<1>3. OneActive
  BY DEF ToolInit, Init, OneActive, SingleActive
<1>4. RowsHaveFiles(backup, plan, op)
  BY DEF ToolInit, Init, RowsHaveFiles, NoOp
<1>5. FilesSound(backup) /\ RequestsHaveFiles(backup, plan, req, up)
  BY DEF ToolInit, Init, FilesSound, RequestsHaveFiles, PastCopy, Idle
<1> QED
  BY <1>1, <1>2, <1>3, <1>4, <1>5 DEF ToolInv

\* An ordinary mutation leaves every plan in office there, and makes no
\* Draft Active.
LEMMA OfficesUnderApply ==
    ASSUME TypeOK, OneActive, NEW w \in Writers, Apply(w)
    PROVE  /\ OneActive'
           /\ \A x \in Plans : Holds(plan, x) => Holds(plan', x)
           /\ \A x \in Plans : plan'[x].state = "active" => ~IsDraft(x)
<1> DEFINE m == writer[w]
<1>1. PICK a \in Plans : SingleActive(plan, a)
  BY DEF OneActive
<1>2. m.plan \in Plans
  BY DEF TypeOK, Apply, WriterState, Resting, Kinds
<1>3. plan \in [Plans -> PlanRow]
  BY DEF TypeOK
<1>4. CASE \A x \in Plans : plan'[x].state = plan[x].state
  <2>1. SingleActive(plan', a)
    BY <1>1, <1>4 DEF SingleActive
  <2> QED
    BY <1>4, <2>1 DEF OneActive, Holds, IsDraft
<1>5. CASE SaveResult(m.plan) \/ SaveStructure(m.plan) \/ SaveAccount
           \/ EditDraft(m.plan, m.rev)
  <2>1. \A x \in Plans : plan'[x].state = plan[x].state
    BY <1>2, <1>3, <1>5
    DEF SaveResult, SaveStructure, SaveAccount, EditDraft, PlanRow
  <2> QED
    BY <1>4, <2>1
<1>6. ASSUME NEW s \in {"draft", "cancelled"}, plan'[m.plan].state = s,
             plan[m.plan].state \in {"none", "draft"},
             \A x \in Plans \ {m.plan} : plan'[x] = plan[x]
      PROVE  /\ OneActive'
             /\ \A x \in Plans : Holds(plan, x) => Holds(plan', x)
             /\ \A x \in Plans : plan'[x].state = "active" => ~IsDraft(x)
  <2>1. SingleActive(plan', a)
    BY <1>1, <1>2, <1>6 DEF SingleActive
  <2> QED
    BY <1>2, <1>6, <2>1 DEF OneActive, Holds, IsDraft
<1>7. CASE CreateDraft(m.plan)
  <2>1. PICK b \in Plans :
          plan' = [plan EXCEPT ![m.plan].state = "draft", ![m.plan].pred = b]
    BY <1>7 DEF CreateDraft
  <2>2. /\ plan'[m.plan].state = "draft"
        /\ \A x \in Plans \ {m.plan} : plan'[x] = plan[x]
    BY <1>2, <1>3, <2>1 DEF PlanRow
  <2> QED
    BY <1>6, <1>7, <2>2 DEF CreateDraft
<1>8. CASE CancelDraft(m.plan, m.rev)
  <2>1. /\ plan'[m.plan].state = "cancelled"
        /\ \A x \in Plans \ {m.plan} : plan'[x] = plan[x]
    BY <1>2, <1>3, <1>8 DEF CancelDraft, PlanRow
  <2> QED
    BY <1>6, <1>8, <2>1 DEF CancelDraft, IsDraft
<1> QED
  BY <1>5, <1>7, <1>8 DEF Apply

\* So does the lifecycle transaction, by its own checks.
LEMMA OfficesUnderCommit ==
    ASSUME TypeOK, OneActive, NEW r \in Requests, Commit(r)
    PROVE  /\ OneActive'
           /\ \A x \in Plans : Holds(plan, x) => Holds(plan', x)
<1> DEFINE q == req[r]
<1>1. q.pred \in Plans /\ q.succ \in Plans /\ q.id \in Ids
  BY DEF TypeOK, Commit, RequestState, Idle
<1>2. SingleActive(plan, q.pred) /\ plan[q.succ].state = "draft" /\ plan' = Switched(q)
  BY DEF Commit, CommitAllowed, Activatable, IsDraft
<1>3. plan \in [Plans -> PlanRow]
  BY DEF TypeOK
<1>4. /\ plan'[q.succ].state = "active"
      /\ plan'[q.pred].state = "archived"
      /\ \A x \in Plans \ {q.pred, q.succ} : plan'[x] = plan[x]
  BY <1>1, <1>2, <1>3 DEF Switched, Promoted, Retired, SingleActive, PlanRow
<1>5. SingleActive(plan', q.succ)
  BY <1>1, <1>2, <1>4 DEF SingleActive
<1> QED
  BY <1>1, <1>4, <1>5 DEF OneActive, Holds

\* The database becomes one of the images.
LEMMA RestoreShared ==
    ASSUME ToolInv, NEW i \in Ids, Restore(i), UNCHANGED tool
    PROVE  ToolInv'
<1>1. /\ backup[i] # NoBackup /\ plan' = backup[i].plan
      /\ op' = [backup[i].op EXCEPT ![i].phase = "failed_precommit"]
      /\ UNCHANGED <<backup, up, req>> /\ ~up
  BY DEF Restore, RestoreAllowed, process
<1>2. backup[i].op \in [Ids -> OpRow]
  BY <1>1 DEF ToolInv, TypeOK, BackupFile
<1>3. TypeOK'
  BY RestoreTyped DEF ToolInv
<1>4. /\ \E p \in Plans : SingleActive(backup[i].plan, p)
      /\ RowsHaveFiles(backup, backup[i].plan, backup[i].op)
  BY <1>1 DEF ToolInv, FilesSound
<1>5. OneActive'
  BY <1>1, <1>4 DEF OneActive
<1>6. RowsHaveFiles(backup', plan', op')
  <2>1. \A j \in Ids : op'[j].backedUp = backup[i].op[j].backedUp
    BY <1>1, <1>2 DEF OpRow
  <2> QED
    BY <1>1, <1>4, <2>1 DEF RowsHaveFiles
<1>7. RequestsHaveFiles(backup', plan', req', up')
  <2>1. \A r \in Requests : req'[r] = Idle
    BY <1>1 DEF ToolInv, RequestsHaveFiles
  <2>2. Idle.pc \notin PastCopy
    BY DEF Idle, PastCopy
  <2> QED
    BY <2>1, <2>2 DEF RequestsHaveFiles
<1> QED
  BY <1>1, <1>3, <1>5, <1>6, <1>7 DEF ToolInv, ToolTyped

\* A new file holds the plans as they are; no row was waiting for it.
LEMMA CopyShared ==
    ASSUME ToolInv, NEW r \in Requests, CopyDatabase(r), UNCHANGED tool
    PROVE  ToolInv'
<1>0. req[r].id \in Ids /\ req \in [Requests -> RequestState]
  BY DEF ToolInv, TypeOK, CopyDatabase, RequestState, Idle
<1> SUFFICES ASSUME NEW i \in Ids, i = req[r].id
             PROVE  ToolInv'
  BY <1>0
<1>1. /\ backup[i] = NoBackup /\ backup' = [backup EXCEPT ![i] = Image]
      /\ req' = [req EXCEPT ![r].pc = "copied"]
      /\ up /\ UNCHANGED <<plan, op, up>>
  BY DEF CopyDatabase, durable
<1>2. TypeOK'
  BY ActivationTyped DEF ToolInv, Proceed
<1>3. /\ backup'[i] = Image /\ backup'[i] # NoBackup
      /\ \A j \in Ids \ {i} : backup'[j] = backup[j]
  BY <1>1, BackupSentinel DEF ToolInv, TypeOK, Image, BackupFile, MetaRow
<1>4. backup'[i].plan = plan /\ backup'[i].op = op
  BY <1>3 DEF Image
<1>5. ASSUME NEW pl, NEW o, RowsHaveFiles(backup, pl, o)
      PROVE  RowsHaveFiles(backup', pl, o)
  <2> SUFFICES ASSUME NEW j \in Ids, o[j].backedUp
               PROVE  Precedes(backup'[j], pl)
    BY DEF RowsHaveFiles
  <2>1. Precedes(backup[j], pl)
    BY <1>5 DEF RowsHaveFiles
  <2>2. j # i
    BY <1>1, <2>1 DEF Precedes
  <2> QED
    BY <1>3, <2>1, <2>2
<1>6. Precedes(backup'[i], plan)
  BY <1>3, <1>4 DEF Precedes, Holds
<1>7. RowsHaveFiles(backup', plan', op')
  BY <1>1, <1>5 DEF ToolInv
<1>8. FilesSound(backup')
  <2> SUFFICES ASSUME NEW j \in Ids, backup'[j] # NoBackup
               PROVE  /\ \E p \in Plans : SingleActive(backup'[j].plan, p)
                      /\ RowsHaveFiles(backup', backup'[j].plan, backup'[j].op)
    BY DEF FilesSound
  <2>1. CASE j = i
    <3>1. backup'[j].plan = plan /\ backup'[j].op = op /\ op' = op /\ plan' = plan
      BY <1>1, <1>4, <2>1
    <3>2. \E p \in Plans : SingleActive(plan, p)
      BY DEF ToolInv, OneActive
    <3> QED
      BY <1>7, <3>1, <3>2
  <2>2. CASE j # i
    <3>1. backup'[j] = backup[j]
      BY <1>3, <2>2
    <3>2. /\ \E p \in Plans : SingleActive(backup[j].plan, p)
          /\ RowsHaveFiles(backup, backup[j].plan, backup[j].op)
      BY <3>1 DEF ToolInv, FilesSound
    <3> QED
      BY <1>5, <3>1, <3>2
  <2> QED
    BY <2>1, <2>2
<1>9. RequestsHaveFiles(backup', plan', req', up')
  <2> SUFFICES ASSUME NEW s \in Requests, req'[s].pc \in PastCopy
               PROVE  Precedes(backup'[req'[s].id], plan')
    BY <1>1 DEF RequestsHaveFiles
  <2>1. CASE s = r
    <3>1. req'[s].id = i
      BY <1>0, <1>1, <2>1 DEF RequestState, Idle
    <3> QED
      BY <1>1, <1>6, <3>1
  <2>2. CASE s # r
    <3>1. req'[s] = req[s]
      BY <1>0, <1>1, <2>2
    <3>2. Precedes(backup[req[s].id], plan)
      BY <3>1 DEF ToolInv, RequestsHaveFiles
    <3>3. req[s].id \in Ids
      BY <1>0, <3>1 DEF RequestState, Idle, PastCopy
    <3>4. req[s].id # i
      BY <1>1, <3>2 DEF Precedes
    <3> QED
      BY <1>1, <1>3, <3>1, <3>2, <3>3, <3>4
  <2> QED
    BY <2>1, <2>2
<1>10. OneActive' /\ ToolTyped'
  BY <1>1 DEF ToolInv, OneActive, ToolTyped
<1> QED
  BY <1>2, <1>7, <1>8, <1>9, <1>10 DEF ToolInv

\* Any other step: plans stay in office, files stay, and no row or request
\* claims a file that it did not have.
LEMMA SharedFrame ==
    ASSUME ToolInv, TypeOK', ToolTyped', OneActive', UNCHANGED backup,
           \A x \in Plans : Holds(plan, x) => Holds(plan', x),
           \A i \in Ids : op'[i].backedUp => op[i].backedUp \/ Precedes(backup[i], plan),
           \A r \in Requests :
              /\ req'[r].pc \in PastCopy =>
                   req[r].pc \in PastCopy /\ req'[r].id = req[r].id
              /\ ~up' => req'[r] = Idle
    PROVE  ToolInv'
<1>1. ASSUME NEW b, Precedes(b, plan) PROVE Precedes(b, plan')
  BY <1>1 DEF Precedes
<1>2. RowsHaveFiles(backup', plan', op')
  BY <1>1 DEF ToolInv, RowsHaveFiles
<1>3. RequestsHaveFiles(backup', plan', req', up')
  BY <1>1 DEF ToolInv, RequestsHaveFiles
<1> QED
  BY <1>2, <1>3 DEF ToolInv

LEMMA RecordShared ==
    ASSUME ToolInv, NEW r \in Requests, RecordBackup(r), UNCHANGED tool
    PROVE  ToolInv'
<1>1. /\ req[r].id \in Ids /\ req[r].pc = "copied" /\ Precedes(backup[req[r].id], plan)
      /\ req \in [Requests -> RequestState]
  BY DEF ToolInv, TypeOK, RequestsHaveFiles, RecordBackup, RequestState, Idle, PastCopy
<1>2. TypeOK'
  BY ActivationTyped DEF ToolInv, Proceed
<1>3. \A i \in Ids : op'[i].backedUp => op[i].backedUp \/ Precedes(backup[i], plan)
  BY <1>1 DEF ToolInv, TypeOK, RecordBackup, OpRow
<1>4. /\ UNCHANGED <<plan, backup, up>> /\ up
      /\ req' = [req EXCEPT ![r].pc = "recorded"]
  BY DEF RecordBackup
<1>5. \A s \in Requests :
        req'[s].pc \in PastCopy => req[s].pc \in PastCopy /\ req'[s].id = req[s].id
  BY <1>1, <1>4 DEF RequestState, Idle, PastCopy
<1>6. ToolTyped' /\ OneActive'
  BY <1>4 DEF ToolInv, ToolTyped, OneActive
<1> QED
  BY <1>2, <1>3, <1>4, <1>5, <1>6, SharedFrame

\* A step of the activation requests.
LEMMA ActivationShared ==
    ASSUME ToolInv, NEW r \in Requests, UNCHANGED tool,
           (\E i \in Ids, p \in Plans, ack \in BOOLEAN : Submit(r, i, p, ack))
             \/ Answer(r) \/ Proceed(r) \/ Fail(r) \/ FailCleanup(r)
    PROVE  ToolInv'
<1>1. TypeOK /\ TypeOK' /\ ToolTyped'
  BY ActivationTyped DEF ToolInv, ToolTyped
<1>2. req \in [Requests -> RequestState] /\ op \in [Ids -> OpRow]
  BY <1>1 DEF TypeOK
<1>3. ASSUME UNCHANGED <<plan, backup, op, up>>, up,
             NEW q, req' = [req EXCEPT ![r] = q], q.pc \notin PastCopy
      PROVE  ToolInv'
  <2>1. \A s \in Requests :
          req'[s].pc \in PastCopy => req[s].pc \in PastCopy /\ req'[s].id = req[s].id
    BY <1>2, <1>3
  <2>2. OneActive'
    BY <1>3 DEF ToolInv, OneActive
  <2> QED
    BY <1>1, <1>3, <2>1, <2>2, SharedFrame
<1>4. Idle.pc \notin PastCopy
  BY DEF Idle, PastCopy
<1>5. ASSUME NEW i \in Ids, NEW p \in Plans, NEW ack \in BOOLEAN, Submit(r, i, p, ack)
      PROVE  ToolInv'
  BY <1>3, <1>5 DEF Submit, durable, PastCopy
<1>6. CASE AnswerPrior(r) \/ Refuse(r) \/ FailCleanup(r)
  <2>1. UNCHANGED <<plan, backup, op, up>> /\ up /\ req' = [req EXCEPT ![r] = Idle]
    BY <1>6 DEF AnswerPrior, Refuse, FailCleanup, durable
  <2> QED
    BY <1>3, <1>4, <2>1
<1>7. req[r].pc # "idle" => req[r].id \in Ids
  BY <1>2 DEF RequestState, Idle
<1>8. CASE Begin(r)
  <2>1. req[r].id \in Ids
    BY <1>7, <1>8 DEF Begin
  <2>2. \A j \in Ids : op'[j].backedUp => op[j].backedUp
    BY <1>2, <1>8, <2>1 DEF Begin, NoOp, OpRow
  <2>3. \A s \in Requests :
          req'[s].pc \in PastCopy => req[s].pc \in PastCopy /\ req'[s].id = req[s].id
    BY <1>2, <1>8 DEF Begin, RequestState, Idle, PastCopy
  <2>4. UNCHANGED <<plan, backup, up>> /\ up
    BY <1>8 DEF Begin
  <2>5. OneActive'
    BY <2>4 DEF ToolInv, OneActive
  <2> QED
    BY <1>1, <2>2, <2>3, <2>4, <2>5, SharedFrame
<1>9. CASE Commit(r)
  <2>1. req[r].id \in Ids
    BY <1>7, <1>9 DEF Commit
  <2>2. \A j \in Ids : op'[j].backedUp => op[j].backedUp
    BY <1>2, <1>9, <2>1 DEF Commit, OpRow
  <2>3. \A s \in Requests :
          req'[s].pc \in PastCopy => req[s].pc \in PastCopy /\ req'[s].id = req[s].id
    BY <1>2, <1>9 DEF Commit, RequestState, Idle, PastCopy
  <2>4. OneActive' /\ \A x \in Plans : Holds(plan, x) => Holds(plan', x)
    BY <1>1, <1>9, OfficesUnderCommit DEF ToolInv
  <2>5. UNCHANGED <<backup, up>> /\ up
    BY <1>9 DEF Commit
  <2> QED
    BY <1>1, <2>2, <2>3, <2>4, <2>5, SharedFrame
<1>10. CASE Verify(r) \/ Fail(r)
  <2>1. req[r].id \in Ids
    BY <1>7, <1>10 DEF Verify, Fail, FailBackup, RefuseCommit, FailVerification
  <2>2. \A j \in Ids : op'[j].backedUp = op[j].backedUp
    BY <1>2, <1>10, <2>1
       DEF Verify, Fail, FailBackup, RefuseCommit, FailVerification, OpRow
  <2>3. UNCHANGED <<plan, backup, up>> /\ up /\ req' = [req EXCEPT ![r] = Idle]
    BY <1>10 DEF Verify, Fail, FailBackup, RefuseCommit, FailVerification
  <2>4. \A s \in Requests :
          req'[s].pc \in PastCopy => req[s].pc \in PastCopy /\ req'[s].id = req[s].id
    BY <1>2, <1>4, <2>3
  <2>5. OneActive'
    BY <2>3 DEF ToolInv, OneActive
  <2> QED
    BY <1>1, <2>2, <2>3, <2>4, <2>5, SharedFrame
<1> QED
  BY <1>5, <1>6, <1>8, <1>9, <1>10, CopyShared, RecordShared DEF Answer, Proceed

LEMMA NextShared ==
    ASSUME ToolInv, Next, UNCHANGED tool
    PROVE  ToolInv'
<1>1. TypeOK /\ TypeOK' /\ ToolTyped'
  BY NextTyped DEF ToolInv, ToolTyped
<1>2. ASSUME NEW w \in Writers,
             (\E k \in Kinds, p \in Plans : Admit(w, k, p)) \/ Abort(w)
      PROVE  ToolInv'
  <2>1. UNCHANGED <<plan, op, backup, up, req>> /\ up
    BY <1>2 DEF Admit, Abort, durable
  <2> QED
    BY <1>1, <2>1, SharedFrame DEF ToolInv, OneActive
<1>3. ASSUME NEW w \in Writers, Apply(w)
      PROVE  ToolInv'
  <2>1. UNCHANGED <<op, backup, up, req>> /\ up
    BY <1>3 DEF Apply
  <2>2. OneActive' /\ \A x \in Plans : Holds(plan, x) => Holds(plan', x)
    BY <1>1, <1>3, OfficesUnderApply DEF ToolInv
  <2> QED
    BY <1>1, <2>1, <2>2, SharedFrame
<1>4. CASE Crash
  <2>1. UNCHANGED <<plan, op, backup>> /\ \A r \in Requests : req'[r] = Idle
    BY <1>4 DEF Crash, durable
  <2>2. Idle.pc \notin PastCopy
    BY DEF Idle, PastCopy
  <2>3. OneActive'
    BY <2>1 DEF ToolInv, OneActive
  <2> QED
    BY <1>1, <2>1, <2>2, <2>3, SharedFrame
<1>5. CASE Boot
  <2>1. UNCHANGED <<plan, backup, req>> /\ up'
    BY <1>5 DEF Boot
  <2>2. \A i \in Ids : op'[i].backedUp = op[i].backedUp
    BY <1>1, <1>5, ReconcileTyped, PhasesSeen DEF Boot
  <2> QED
    BY <1>1, <2>1, <2>2, SharedFrame DEF ToolInv, OneActive
<1> QED
  BY <1>2, <1>3, <1>4, <1>5, ActivationShared, RestoreShared DEF Next

LEMMA ToolStepShared == ToolInv /\ [ToolNext]_toolVars => ToolInv'
<1> SUFFICES ASSUME ToolInv, [ToolNext]_toolVars PROVE ToolInv'
  OBVIOUS
<1>1. ASSUME UNCHANGED <<plan, op, meta, users, readiness, kept, backup,
                         up, req, writer, thread, acknowledged, told>>,
             ToolTyped'
      PROVE  ToolInv'
  <2>1. TypeOK'
    BY <1>1 DEF ToolInv, TypeOK
  <2> QED
    BY <1>1, <2>1, SharedFrame DEF ToolInv, OneActive, RequestsHaveFiles
<1>2. CASE Next /\ UNCHANGED tool
  BY <1>2, NextShared
<1>3. CASE ToolRead
  <2>1. ToolTyped'
    BY <1>3, PhasesSeen DEF ToolRead, ToolTyped, ToolInv
  <2> QED
    BY <1>1, <1>3, <2>1 DEF ToolRead, vars, durable, process, ghosts
<1>4. CASE ToolReconcile
  <2>1. tool.seen \in [Ids -> Phases] /\ tool.single \in BOOLEAN
    BY DEF ToolInv, ToolTyped
  <2>2. /\ op' \in [Ids -> OpRow] /\ meta' \in MetaRow
        /\ \A i \in Ids : op'[i].backedUp = op[i].backedUp
    BY <1>4, <2>1, ReconcileTyped DEF ToolReconcile, ToolInv
  <2>3. UNCHANGED <<plan, users, readiness, kept, backup, up, req, writer,
                    thread, acknowledged, told>>
    BY <1>4 DEF ToolReconcile, process, ghosts
  <2>4. TypeOK'
    BY <2>2, <2>3 DEF ToolInv, TypeOK
  <2>5. ToolTyped'
    BY <1>4 DEF ToolReconcile, ToolTyped, Off, Phases
  <2> QED
    BY <2>2, <2>3, <2>4, <2>5, SharedFrame DEF ToolInv, OneActive, RequestsHaveFiles
<1>5. CASE ToolSave
  <2>1. UNCHANGED <<plan, op, readiness, backup, up, req, writer, thread, told, tool>>
    BY <1>5 DEF ToolSave, process
  <2>2. TypeOK' /\ ToolTyped'
    BY <1>5, <2>1 DEF ToolInv, TypeOK, ToolTyped, ToolSave, Acknowledge, MetaRow
  <2> QED
    BY <2>1, <2>2, SharedFrame DEF ToolInv, OneActive, RequestsHaveFiles
<1>6. CASE ToolExit
  <2>1. ToolTyped'
    BY <1>6 DEF ToolExit, ToolTyped, Off, Phases
  <2> QED
    BY <1>1, <1>6, <2>1 DEF ToolExit, vars, durable, process, ghosts
<1>7. CASE UNCHANGED toolVars
  <2>1. ToolTyped'
    BY <1>7 DEF toolVars, ToolInv, ToolTyped
  <2> QED
    BY <1>1, <1>7, <2>1 DEF toolVars, vars, durable, process, ghosts
<1> QED
  BY <1>2, <1>3, <1>4, <1>5, <1>6, <1>7 DEF ToolNext

\* Exactly one plan is Active although the command of an operator closes the
\* operations of the running server: a pause that ends too early costs the
\* pause its meaning, but not the lifecycle.
THEOREM OneActiveWithSecondProcess == ToolSpec => []OneActive
<1>1. ToolInv => OneActive
  BY DEF ToolInv
<1> QED
  BY <1>1, InitShared, ToolStepShared, PTL DEF ToolSpec

\* A plan takes over only while the Admin behind the request still is one,
\* with such a command as well: no restore brings a Draft into office.
THEOREM ActivatedByAdminWithSecondProcess == ToolSpec => ActivatedByAdmin
<1>1. ToolInv /\ [ToolNext]_toolVars =>
        [(\E p \in Plans : IsDraft(p) /\ plan'[p].state = "active") => users]_vars
  <2> SUFFICES ASSUME ToolInv, [ToolNext]_toolVars, ~users,
                      NEW p \in Plans, IsDraft(p)
               PROVE  plan'[p].state # "active"
    OBVIOUS
  <2>1. CASE UNCHANGED plan
    BY <2>1 DEF IsDraft
  <2>2. CASE Next
    <3>1. ASSUME NEW r \in Requests, Commit(r) PROVE FALSE
      BY <3>1 DEF Commit, CommitAllowed
    <3>2. ASSUME NEW w \in Writers, Apply(w) PROVE plan'[p].state # "active"
      BY <3>2, OfficesUnderApply DEF ToolInv
    <3>3. ASSUME NEW i \in Ids, Restore(i) PROVE plan'[p].state # "active"
      <4>1. op[i].backedUp /\ plan' = backup[i].plan
        BY <3>3 DEF Restore, RestoreAllowed
      <4>2. Precedes(backup[i], plan)
        BY <4>1 DEF ToolInv, RowsHaveFiles
      <4> QED
        BY <4>1, <4>2 DEF Precedes, Holds, IsDraft
    <3> QED
      BY <2>1, <2>2, <3>1, <3>2, <3>3, OtherStep
  <2>3. CASE ToolRead \/ ToolReconcile \/ ToolSave \/ ToolExit \/ UNCHANGED toolVars
    BY <2>1, <2>3 DEF ToolRead, ToolReconcile, ToolSave, ToolExit, toolVars, vars, durable
  <2> QED
    BY <2>2, <2>3 DEF ToolNext
<1> QED
  BY <1>1, InitShared, ToolStepShared, PTL DEF ToolSpec, ActivatedByAdmin
=============================================================================
