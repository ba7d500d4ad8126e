-------------------------- MODULE PlanActivationInv --------------------------
(***************************************************************************)
(* The inductive invariants of PlanActivation.  IInv: what ties the rows   *)
(* of an unresolved operation to the plans, to the request that drives it  *)
(* and to the image made for it.  HistorySound: what the database and each *)
(* image remember of plans, identities and answers.  TLC checks the first, *)
(* PlanActivation_proofs proves both.                                      *)
(***************************************************************************)
EXTENDS PlanActivation

CommittedPhases == PendingPhases \ PrecommitPhases

IncidentPhases == {"verification_failed", "integrity_incident"}

Driving == {"backup", "copied", "recorded", "committed"}

\* Plan p is Active and q is the one Draft, prepared from it.
Prepared(pl, p, q) ==
    /\ SingleActive(pl, p)
    /\ pl[q].state = "draft" /\ pl[q].pred = p
    /\ \A x \in Plans : pl[x].state = "draft" => x = q

\* The successor q took over from p under identity i.
Replaced(pl, p, q, i) ==
    /\ SingleActive(pl, q)
    /\ pl[p].state = "archived" /\ pl[q].act = i
    /\ \A x \in Plans : pl[x].state # "draft"

\* A request past its first transaction drives the operation of its identity
\* and has got exactly as far as the operation's row says.
RequestMatchesRow(r) ==
    LET o == op[req[r].id] IN
    req[r].pc \in Driving =>
        /\ o.pred = req[r].pred /\ o.succ = req[r].succ
        /\ req[r].pc \in {"backup", "copied"} => o.phase = "pausing"
        /\ req[r].pc = "copied" => backup[req[r].id] # NoBackup
        /\ req[r].pc = "recorded" => o.phase = "backup_verified"
        /\ req[r].pc = "committed" => o.phase = "committed_unverified"

RequestsMatchRows ==
    /\ \A r \in Requests :
         /\ RequestMatchesRow(r)
         /\ thread = r <=> req[r].pc \in {"recorded", "committed"}
         /\ ~up => req[r] = Idle
    /\ \A r, s \in Requests :
         req[r].pc \in Driving /\ req[s].pc \in Driving => r = s

\* The phase of an unresolved operation tells on which side of the lifecycle
\* transaction the plans are.
RowsMatchPlans ==
    \A i \in Ids :
        /\ op[i].phase \in PendingPhases =>
             op[i].pred \in Plans /\ op[i].succ \in Plans
        /\ op[i].phase \in PrecommitPhases =>
             Prepared(plan, op[i].pred, op[i].succ)
        /\ op[i].phase \in CommittedPhases =>
             Replaced(plan, op[i].pred, op[i].succ, i)

\* The image of an unresolved operation differs from the database by the
\* progress of that operation and by nothing else.
ImageOf(i) ==
    LET b == backup[i] IN
    /\ b.kept = kept /\ b.users = users
    /\ Prepared(b.plan, op[i].pred, op[i].succ)
    /\ \A p \in Plans \ {op[i].pred, op[i].succ} : b.plan[p] = plan[p]
    /\ \A j \in Ids \ {i} : b.op[j] = op[j]

ImagesMatchRows ==
    \A i \in Ids :
        /\ op[i].phase \in PendingPhases \ {"pausing"} => backup[i] # NoBackup
        /\ op[i].phase = "none" => backup[i] = NoBackup
        /\ op[i].phase \in PendingPhases /\ backup[i] # NoBackup => ImageOf(i)

\* What holds of the database and its backup files, whoever is running.
DatabaseSound ==
    /\ RowsMatchPlans
    /\ ImagesMatchRows
    /\ PauseTracksOperation
    /\ BlockTracksIncident
    /\ OneActive
    /\ DraftSucceedsActive
    /\ NothingLost

\* The conjunction is inductive.  It ties every row of the database that an
\* activation writes to the others, in every state any crash can leave.
IInv == TypeOK /\ RequestsMatchRows /\ DatabaseSound

-----------------------------------------------------------------------------
(***************************************************************************)
(* What the database remembers of finished activations, and what clients   *)
(* were told of them.  A backup holds the same, of the moment it was made: *)
(* a restore must not take an answer back.                                 *)
(***************************************************************************)

\* SingleLine, of any table of plans, and where activation ids are kept.
Holds(pl, p) == pl[p].state \in {"active", "archived"}
LineOf(pl) ==
    /\ Holds(pl, First) /\ pl[First].pred = NoPlan
    /\ \A p \in Plans : ~Holds(pl, p) => pl[p].act = NoId
    /\ \A p \in Plans \ {First} : Holds(pl, p) =>
         /\ pl[p].pred \in Plans /\ pl[pl[p].pred].state = "archived"
         /\ pl[p].act # NoId
         /\ \A q \in Plans : Holds(pl, q) /\ pl[q].pred = pl[p].pred => q = p

\* An identity is on a plan from its lifecycle transaction on.
SwitchedPhases == CommittedPhases \cup {"verified"}
IdentitiesMatch(pl, o) ==
    \A i \in Ids : o[i].phase \in SwitchedPhases <=>
                     \E p \in Plans : pl[p].act = i

Remembers(pl, o) == LineOf(pl) /\ IdentitiesMatch(pl, o)

ImagesRemember ==
    \A i \in Ids : backup[i] # NoBackup =>
        /\ Remembers(backup[i].plan, backup[i].op)
        /\ backup[i].op[i].phase = "pausing"

\* Clients were told of an outcome only when the row can no longer change.
AnswersFinal ==
    \A i \in Ids :
        /\ "activated" \in told[i] => op[i].phase = "verified"
        /\ "unchanged" \in told[i] => op[i].phase = "failed_precommit"

HistorySound == Remembers(plan, op) /\ ImagesRemember /\ AnswersFinal
=============================================================================
