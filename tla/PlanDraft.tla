------------------------------ MODULE PlanDraft ------------------------------
(***************************************************************************)
(* Preparation of a successor plan in the Plans guide: the operations of   *)
(* features/plans/server.ts on the one Draft, the reviews, overrides,      *)
(* lineage and decisions they keep, evaluateDraftReadiness, and the        *)
(* whole-plan triggers of lib/db.ts that tie the Draft to its predecessor. *)
(*                                                                         *)
(* One action is one SQLite transaction. Admins work from pages: a page    *)
(* carries the whole-plan revision it was loaded at, and every operation   *)
(* of the guide requires it (requireCurrentDraft). The narrower tokens of  *)
(* single rows (updated_at, plan and Board revision) are implied by it.    *)
(*                                                                         *)
(* Abstraction. A bundle is a Priority with one Goal, its required Measure *)
(* and that Measure's first-year definition, Target and Board entry. The   *)
(* revision advances by 1 per transaction; the triggers advance it once    *)
(* per changed row, which no comparison can tell apart. Activation is one  *)
(* step here; PlanActivation has its transactions. Owners, the activation  *)
(* date and year-over-year baselines are left out.                         *)
(***************************************************************************)
EXTENDS Naturals, FiniteSets

CONSTANTS
    Admins,         \* pages open on the Plans guide
    Bundles,        \* Draft items that may come to exist
    Sources,        \* Measures of the Active plan
    MaxDrafts,      \* bound: Drafts prepared one after another
    MaxRev,         \* bound: whole-plan revision of a Draft
    MaxSource,      \* bound: changes of the Active plan
    Overridable,    \* bound: requirements an Admin thinks of overriding
    Editors,        \* are the ordinary Goal and Measure editors used on it?
    Openers         \* does a second process open the database meanwhile?

ASSUME DraftAssumption ==
    /\ MaxDrafts \in Nat /\ MaxRev \in Nat /\ MaxSource \in Nat
    /\ Editors \in BOOLEAN /\ Openers \in BOOLEAN
    /\ IsFiniteSet(Sources)

VARIABLES
    draft,          \* the latest successor's strategic_plans row
    item,           \* its bundles, their reviews, lineage and Board entries
    review,         \* plan_section_reviews
    scope,          \* board_reporting_scopes.review_status
    overrides,      \* plan_readiness_overrides, none of which is ever closed
    source,         \* the Active plan
    installing,     \* the whole-plan triggers are being replaced
    page,           \* the Draft and revision each Admin's page was loaded at
    fresh,          \* ghost: the pages that show the Draft as it is
    since           \* ghost: what changed since it was last decided upon

stored == <<draft, item, review, scope, overrides>>
ghosts == <<fresh, since>>
vars   == <<stored, source, installing, page, ghosts>>

-----------------------------------------------------------------------------
Sections == {"details", "structure", "targets"}

Relations == {"copied_from", "merged_from", "split_from"}

\* What an Admin decides on: two sections, and going on although the Active
\* plan changed after the Draft was copied.
Concerns == {"details", "structure", "active"}

Absent == [state |-> "absent", wording |-> 0, reviewed |-> FALSE,
           ready |-> FALSE, target |-> "none", question |-> FALSE,
           decided |-> "none", lineage |-> {}, board |-> "out"]

Live   == {b \in Bundles : item[b].state = "live"}
Exists == {b \in Bundles : item[b].state # "absent"}

-----------------------------------------------------------------------------
(***************************************************************************)
(* evaluateDraftReadiness.                                                 *)
(***************************************************************************)

Keys == {"plan_details_complete", "minimum_plan_structure",
         "successor_review", "first_year_definition_coverage",
         "first_year_target_coverage", "board_view_review",
         "question_classification", "source_changed_since_clone"}

Continuous == draft.start = source.end + 1

\* Mutated form: a Target counts before it was approved.
Covered_AnyTarget(b) == item[b].target # "none"
Covered(b) == item[b].target = "ready"

Unreviewed ==
    \/ \E b \in Exists : ~item[b].reviewed \/ item[b].target = "copied"
    \/ \E s \in {"details", "structure"} : review[s] = "needs_review"

BoardUnreviewed ==
    \/ scope = "needs_review"
    \/ \E b \in Bundles : item[b].board = "needs_review"

Unclassified == {b \in Live : item[b].question /\ item[b].decided = "none"}

\* TRUE: the requirement is unmet.
Requirements ==
    [plan_details_complete |-> draft.details = "incomplete",
     minimum_plan_structure |-> Live = {},
     successor_review |-> Unreviewed,
     first_year_definition_coverage |-> \E b \in Live : ~item[b].ready,
     first_year_target_coverage |-> \E b \in Live : ~Covered(b),
     board_view_review |-> BoardUnreviewed,
     question_classification |-> Unclassified # {},
     source_changed_since_clone |-> draft.cloned # source.rev]

Unmet == {k \in Keys : Requirements[k]}

\* A follow-up decision counts for ever; a final year is complete or not.
Warnings ==
    {w \in {"approved_follow_up_questions", "predecessor_completion"} :
        IF w = "predecessor_completion"
        THEN ~source.reported
        ELSE \E b \in Bundles : item[b].decided = "follow_up"}

CanActivate == Continuous /\ Unmet \subseteq overrides

-----------------------------------------------------------------------------
(***************************************************************************)
(* Revisions, pages and the ghosts.                                        *)
(***************************************************************************)

\* All that the guide shows of the Draft, and of its predecessor whatever a
\* readiness requirement depends on.
Shown == <<draft.id, draft.details, item, review, scope, overrides,
           source.rev, source.end>>

\* What each concern is about.
Basis ==
    [details   |-> <<draft.details, source.changed["details"]>>,
     structure |-> <<[b \in Bundles |->
                        <<item[b].state, item[b].wording, item[b].ready,
                          item[b].question, item[b].lineage>>],
                     source.changed["structure"]>>,
     active    |-> source.changed]

\* Ghosts: a change makes every page stale, and undoes every decision on it
\* but those taken in this very step.
Track(decided) ==
    /\ fresh' = IF Shown' = Shown THEN fresh ELSE {}
    /\ since' = [c \in Concerns |->
                   /\ c \notin decided
                   /\ since[c] \/ Basis'[c] # Basis[c]]

IsDraft == draft.state = "draft"

\* requireCurrentDraft.
\* Mutated form: the revision is not compared.
RequireCurrentDraft_AnyRevision(a) == IsDraft /\ page[a].id = draft.id
RequireCurrentDraft(a) ==
    /\ IsDraft
    /\ page[a].id = draft.id
    /\ page[a].rev = draft.rev

\* One save of the guide: whatever it changes, its triggers or
\* bumpWholePlanRevision advance the revision.
Advanced == [draft EXCEPT !.rev = @ + 1]
Save(a) ==
    /\ RequireCurrentDraft(a)
    /\ draft.rev < MaxRev
    /\ UNCHANGED <<source, installing, page>>

\* The sections S return to "needs review".
Reset(S) ==
    [s \in Sections |-> IF s \in S THEN "needs_review" ELSE review[s]]

LoadPage(a) ==
    /\ IsDraft
    /\ page' = [page EXCEPT ![a] = [id |-> draft.id, rev |-> draft.rev]]
    /\ fresh' = fresh \cup {a}
    /\ UNCHANGED <<stored, source, installing, since>>

-----------------------------------------------------------------------------
(***************************************************************************)
(* Creating and cancelling.                                                *)
(***************************************************************************)

\* recordCopiedLineage: a copy names what it was copied from.
CopiedFrom(copy, b) ==
    {<<"copied_from", s>> : s \in {t \in Sources : copy[t] = b}}

\* cloneBoardScope: a copied Board entry is reviewed again.
BoardCopied(board, b) == IF b \in board THEN "needs_review" ELSE "out"

\* The definition, components, membership and groups of a Measure in use at
\* the end of the Active plan: drafts, unreviewed, with their question, and
\* without a Target.
Copied(copy, open, board, b) ==
    [Absent EXCEPT !.state = "live",
                   !.question = b \in open,
                   !.lineage = CopiedFrom(copy, b),
                   !.board = BoardCopied(board, b)]

\* clonePlanStructure.
Cloned(copy, open, board) ==
    [b \in Bundles |->
       IF \E s \in Sources : copy[s] = b
       THEN Copied(copy, open, board, b) ELSE Absent]

StartDraft(details, items) ==
    /\ draft.state \in {"none", "cancelled"}
    /\ draft.id < MaxDrafts
    /\ draft' = [id |-> draft.id + 1, state |-> "draft", rev |-> 1,
                 start |-> source.end + 1, details |-> details,
                 cloned |-> source.rev]
    /\ item' = items
    /\ review' = [s \in Sections |-> "needs_review"]
    /\ scope' = "needs_review"
    /\ overrides' = {}
    /\ fresh' = {}
    /\ since' = [c \in Concerns |-> FALSE]
    /\ UNCHANGED <<source, installing, page>>

CreateSuccessorDraft ==
    \E details \in {"incomplete", "complete"} :
       \/ StartDraft(details, [b \in Bundles |-> Absent])
       \/ \E copy \in [Sources -> Bundles] :
            /\ \A s, t \in Sources : copy[s] = copy[t] => s = t
            /\ \E open, board \in SUBSET {copy[s] : s \in Sources} :
                 StartDraft(details, Cloned(copy, open, board))

\* The plan row only: no trigger watches lifecycle_state.
CancelDraft(a) ==
    /\ RequireCurrentDraft(a)
    /\ draft' = [draft EXCEPT !.state = "cancelled"]
    /\ UNCHANGED <<item, review, scope, overrides, source, installing, page>>
    /\ Track({})

\* activateDraft, seen from the Draft.
Activate(a, acknowledged) ==
    /\ RequireCurrentDraft(a)
    /\ CanActivate
    /\ (Warnings # {} \/ Unmet # {}) => acknowledged
    /\ draft' = [draft EXCEPT !.state = "active"]
    /\ UNCHANGED <<item, review, scope, overrides, source, installing, page>>
    /\ Track({})

-----------------------------------------------------------------------------
(***************************************************************************)
(* The saves of the guide.                                                 *)
(***************************************************************************)

\* A changed final year is written through to goals, definitions, groups and
\* memberships, and their sections are reviewed again.
UpdateDraftDetails(a, details, moved) ==
    /\ Save(a)
    /\ Continuous
    /\ draft' = [Advanced EXCEPT !.details = details]
    /\ review' = Reset(IF moved THEN Sections ELSE {"details"})
    /\ UNCHANGED <<item, scope, overrides>>
    /\ Track({})

\* Reviewing the structure approves every item at once, archived ones too,
\* and makes the definitions that were copied as drafts ready.
Approved(b) ==
    [item[b] EXCEPT !.reviewed = @ \/ item[b].state # "absent",
                    !.ready = @ \/ item[b].state = "live",
                    !.target = IF @ = "copied" THEN "draft" ELSE @]

ReviewPlanSection(a, s) ==
    /\ Save(a)
    /\ draft' = Advanced
    /\ review' = [review EXCEPT ![s] = "approved"]
    /\ item' = IF s = "structure" THEN [b \in Bundles |-> Approved(b)] ELSE item
    /\ UNCHANGED <<scope, overrides>>
    /\ Track({s})

SaveReadinessOverride(a, k) ==
    /\ Save(a)
    /\ k \in Unmet
    /\ draft' = Advanced
    /\ overrides' = overrides \cup {k}
    /\ UNCHANGED <<item, review, scope>>
    /\ Track(IF k = "source_changed_since_clone" THEN {"active"} ELSE {})

\* Bundle b becomes new; sections S are reviewed again.
Replace(a, b, new, S) ==
    /\ Save(a)
    /\ draft' = Advanced
    /\ item' = [item EXCEPT ![b] = new]
    /\ review' = Reset(S)
    /\ UNCHANGED overrides
    /\ Track({})

AddDraftMeasureBundle(a, b) ==
    /\ b \notin Exists
    /\ UNCHANGED scope
    /\ Replace(a, b, [Absent EXCEPT !.state = "live", !.ready = TRUE],
               {"structure", "targets"})

AddDraftTarget(a, b) ==
    /\ b \in Live
    /\ UNCHANGED scope
    /\ Replace(a, b, [item[b] EXCEPT !.target = "ready"], {"targets"})

CopyDraftTarget(a, b) ==
    /\ b \in Live
    /\ item[b].lineage # {}
    /\ item[b].target = "none"
    /\ UNCHANGED scope
    /\ Replace(a, b, [item[b] EXCEPT !.target = "copied"], {"targets"})

UpdateDraftItem(a, b) ==
    /\ b \in Live
    /\ UNCHANGED scope
    /\ Replace(a, b, [item[b] EXCEPT !.wording = 1 - @, !.reviewed = FALSE],
               {"structure"})

\* What plan_question_decisions keeps of a choice.
Classification(decision) ==
    IF decision = "resolve_now" THEN "must_resolve" ELSE "follow_up"

\* Mutated form: the question stays open and only the decision is kept.
ClassifyDraftQuestion_KeepsQuestion(a, b, decision) ==
    /\ b \in Live /\ item[b].question
    /\ UNCHANGED scope
    /\ Replace(a, b, [item[b] EXCEPT !.decided = Classification(decision)],
               {"structure"})
ClassifyDraftQuestion(a, b, decision) ==
    /\ b \in Live /\ item[b].question
    /\ UNCHANGED scope
    /\ Replace(a, b, [item[b] EXCEPT !.decided = Classification(decision),
                                     !.question = decision = "follow_up"],
               {"structure"})

\* Provenance is chosen once; only a merge may name further predecessors.
\* Mutated form: earlier provenance of another kind is not looked at.
LineageAllowed_AnyKind(b, rel, P) ==
    IF rel = "merged_from"
    THEN Cardinality(P) >= 2 /\ \A s \in P : <<rel, s>> \notin item[b].lineage
    ELSE Cardinality(P) = 1 /\ item[b].lineage = {}
LineageAllowed(b, rel, P) ==
    /\ \A l \in item[b].lineage : l[1] = rel
    /\ IF rel = "merged_from"
       THEN Cardinality(P) >= 2 /\ \A s \in P : <<rel, s>> \notin item[b].lineage
       ELSE Cardinality(P) = 1 /\ item[b].lineage = {}

RecordDraftLineage(a, b, rel, P) ==
    /\ b \in Exists
    /\ LineageAllowed(b, rel, P)
    /\ UNCHANGED scope
    /\ Replace(a, b, [item[b] EXCEPT !.lineage = @ \cup {<<rel, s>> : s \in P}],
               {"structure"})

ArchiveDraftPriority(a, b) ==
    /\ b \in Live
    /\ scope' = "needs_review"
    /\ Replace(a, b, [item[b] EXCEPT !.state = "archived", !.board = "out"],
               {"structure", "targets"})

\* The Board entry of b after a save that includes S, of which the entries in
\* edited were changed and those in confirmed were ticked as reviewed.
BoardEntry(b, S, edited, confirmed) ==
    IF b \notin S THEN "out"
    ELSE IF b \in confirmed THEN "approved"
    ELSE IF b \in edited \/ item[b].board = "out" THEN "needs_review"
    ELSE item[b].board

\* An empty S is the separately confirmed "No Board report".
\* Mutated form: ticking any Priority approves the scope.
ScopeStatus_AnyConfirmed(S, edited, confirmed) ==
    IF S = {} THEN "intentional_empty"
    ELSE IF confirmed # {} THEN "approved" ELSE "needs_review"
ScopeStatus(S, edited, confirmed) ==
    IF S = {} THEN "intentional_empty"
    ELSE IF \E b \in S : BoardEntry(b, S, edited, confirmed) = "needs_review"
         THEN "needs_review" ELSE "approved"

SaveDraftBoardScope(a, S, edited, confirmed) ==
    /\ Save(a)
    /\ S \subseteq Live
    /\ draft' = Advanced
    /\ item' = [b \in Bundles |->
                  [item[b] EXCEPT !.board = BoardEntry(b, S, edited, confirmed)]]
    /\ scope' = ScopeStatus(S, edited, confirmed)
    /\ review' = [review EXCEPT !["targets"] =
                    IF ScopeStatus(S, edited, confirmed) = "needs_review"
                    THEN "needs_review" ELSE "approved"]
    /\ UNCHANGED overrides
    /\ Track({})

-----------------------------------------------------------------------------
(***************************************************************************)
(* Everyone else.                                                          *)
(***************************************************************************)

\* Does this statement find its whole-plan trigger missing? Only a save that
\* touches a single table can, while another process replaces the triggers.
Missed == IF installing THEN BOOLEAN ELSE {FALSE}

\* A change of the Active plan's section s: the triggers advance its revision.
Changed(s, missed) ==
    [source EXCEPT !.changed[s] = @ + 1, !.rev = IF missed THEN @ ELSE @ + 1]

\* They advance the Draft's and return its sections S to "needs review".
\* Mutated form: the Draft's revision advances and that is all.
Propagate_RevisionOnly(S, missed) ==
    /\ draft' = IF IsDraft THEN Advanced ELSE draft
    /\ UNCHANGED review
Propagate(S, missed) ==
    IF IsDraft /\ ~missed
    THEN /\ draft.rev < MaxRev
         /\ draft' = Advanced
         /\ review' = Reset(S)
    ELSE UNCHANGED <<draft, review>>

\* Any structure, Target or Board editor used on the Active plan. A new
\* Measure is unreported, an archived one no longer asked for.
ChangeActive(s, missed, reported) ==
    /\ draft.state # "active"
    /\ s \in {"structure", "targets"}
    /\ s = "targets" => reported = source.reported
    /\ source.rev < MaxSource
    /\ missed \in Missed
    /\ missed => source.changed[s] < MaxSource
    /\ source' = [Changed(s, missed) EXCEPT !.reported = reported]
    /\ Propagate({s}, missed)
    /\ UNCHANGED <<item, scope, overrides, installing, page>>
    /\ Track({})

\* updateActiveInstallation; another final year has results of its own.
ChangeActiveDetails(end, reported) ==
    /\ draft.state # "active"
    /\ source.rev < MaxSource
    /\ end = source.end => reported = source.reported
    /\ source' = [Changed("details", FALSE) EXCEPT
                      !.end = end, !.reported = reported]
    /\ Propagate(Sections, FALSE)
    /\ UNCHANGED <<item, scope, overrides, installing, page>>
    /\ Track({})

\* The last missing final-year result is entered, or one is removed: results
\* advance no revision.
SaveResult ==
    /\ draft.state # "active"
    /\ source' = [source EXCEPT !.reported = ~@]
    /\ UNCHANGED <<stored, installing, page>>
    /\ Track({})

\* updateStrategicGoalSettings and updateMeasurementConfiguration on a Draft
\* item: they look at the row, not at the plan, and reset no review.
EditWithOrdinaryEditor(b, wording, question, ready, missed) ==
    /\ Editors
    /\ IsDraft /\ b \in Live
    /\ draft.rev < MaxRev
    /\ missed \in Missed
    /\ item' = [item EXCEPT ![b].wording = wording, ![b].question = question,
                            ![b].ready = ready]
    /\ item' # item
    /\ draft' = IF missed THEN draft ELSE Advanced
    /\ UNCHANGED <<review, scope, overrides, source, installing, page>>
    /\ Track({})

\* A second process opens the database: initializePlanLifecycleTriggers drops
\* every whole-plan trigger and creates it again, outside a transaction.
ReplaceTriggers ==
    /\ Openers
    /\ installing' = ~installing
    /\ UNCHANGED <<stored, source, page, ghosts>>

-----------------------------------------------------------------------------
Init ==
    /\ draft = [id |-> 0, state |-> "none", rev |-> 0, start |-> 0,
                details |-> "incomplete", cloned |-> 0]
    /\ item = [b \in Bundles |-> Absent]
    /\ review = [s \in Sections |-> "needs_review"]
    /\ scope = "needs_review"
    /\ overrides = {}
    /\ source = [rev |-> 0, changed |-> [s \in Sections |-> 0],
                 end |-> 0, reported |-> FALSE]
    /\ installing = FALSE
    /\ page = [a \in Admins |-> [id |-> 0, rev |-> 0]]
    /\ fresh = {}
    /\ since = [c \in Concerns |-> FALSE]

ReviewStep(a) ==
    \/ \E d \in {"complete", "revised"}, moved \in BOOLEAN :
          UpdateDraftDetails(a, d, moved)
    \/ \E s \in Sections : ReviewPlanSection(a, s)
    \/ \E k \in Overridable : SaveReadinessOverride(a, k)
    \/ \E S, edited, confirmed \in SUBSET Bundles :
          /\ edited \subseteq S /\ confirmed \subseteq S
          /\ SaveDraftBoardScope(a, S, edited, confirmed)

ItemStep(a, b) ==
    \/ AddDraftMeasureBundle(a, b)
    \/ AddDraftTarget(a, b)
    \/ CopyDraftTarget(a, b)
    \/ UpdateDraftItem(a, b)
    \/ \E d \in {"resolve_now", "follow_up"} : ClassifyDraftQuestion(a, b, d)
    \/ \E rel \in Relations, P \in SUBSET Sources :
          RecordDraftLineage(a, b, rel, P)
    \/ ArchiveDraftPriority(a, b)

Guide(a) ==
    \/ ReviewStep(a)
    \/ \E b \in Bundles : ItemStep(a, b)
    \/ CancelDraft(a)
    \/ \E acknowledged \in BOOLEAN : Activate(a, acknowledged)

Others ==
    \/ \E s \in Sections, missed, reported \in BOOLEAN :
          ChangeActive(s, missed, reported)
    \/ \E end \in 0..1, reported \in BOOLEAN : ChangeActiveDetails(end, reported)
    \/ SaveResult
    \/ \E b \in Bundles, w \in 0..1, question, ready, missed \in BOOLEAN :
          EditWithOrdinaryEditor(b, w, question, ready, missed)
    \/ ReplaceTriggers

Next ==
    \/ CreateSuccessorDraft
    \/ \E a \in Admins : LoadPage(a) \/ Guide(a)
    \/ Others

Spec == Init /\ [][Next]_vars

-----------------------------------------------------------------------------
(***************************************************************************)
(* Properties.                                                             *)
(***************************************************************************)

Statuses == {"needs_review", "approved"}
ScopeStatuses == Statuses \cup {"intentional_empty"}

Items ==
    [state : {"absent", "live", "archived"}, wording : 0..1,
     reviewed : BOOLEAN, ready : BOOLEAN,
     target : {"none", "copied", "draft", "ready"}, question : BOOLEAN,
     decided : {"none", "must_resolve", "follow_up"},
     lineage : SUBSET (Relations \X Sources), board : Statuses \cup {"out"}]

\* The type invariant: what the rows of the Draft, of its reviews and of the
\* Active plan, and the pages, can hold.
TypeOK ==
    /\ draft \in [id : Nat, state : {"none", "draft", "cancelled", "active"},
                  rev : Nat, start : Nat,
                  details : {"incomplete", "complete", "revised"},
                  cloned : Nat]
    /\ item \in [Bundles -> Items]
    /\ review \in [Sections -> Statuses]
    /\ scope \in ScopeStatuses
    /\ overrides \subseteq Keys
    /\ source \in [rev : Nat, changed : [Sections -> Nat], end : 0..1,
                   reported : BOOLEAN]
    /\ installing \in BOOLEAN
    /\ page \in [Admins -> [id : Nat, rev : Nat]]
    /\ fresh \subseteq Admins
    /\ since \in [Concerns -> BOOLEAN]

\* The inductive part of NoStaleSave: no page is ahead of its Draft, and the
\* triggers are in place unless another process may take them away.
PagesBehind ==
    /\ \A a \in Admins :
          /\ page[a].id <= draft.id
          /\ page[a].id = draft.id => page[a].rev <= draft.rev
    /\ ~Openers => ~installing

\* A page whose save, cancellation or activation would be accepted shows the
\* Draft, and what its readiness depends on, exactly as stored: no save
\* silently overwrites newer work ("Stale Strategic Plan Save", CONTEXT.md).
NoStaleSave == \A a \in Admins : RequireCurrentDraft(a) => a \in fresh

\* An approved section still says what it said when it was approved, and the
\* Active plan has not changed under it ("Active-to-Draft Change Review").
ApprovalCoversContent ==
    IsDraft => \A s \in {"details", "structure"} :
                  review[s] = "approved" => ~since[s]

\* Each Draft item has one kind of provenance; a copy or a split has one
\* predecessor and a merge at least two, whatever was recorded before.
LineageCoherent ==
    \A b \in Bundles :
       /\ \A l, m \in item[b].lineage : l[1] = m[1]
       /\ \A l \in item[b].lineage :
             (l[1] = "merged_from") <=> Cardinality(item[b].lineage) >= 2

\* An approved Board scope has no entry left to review, an intentionally
\* empty one has no entry, and no entry survives its Priority.
BoardScopeHonest ==
    /\ scope = "approved" => \A b \in Bundles : item[b].board # "needs_review"
    /\ scope = "intentional_empty" => \A b \in Bundles : item[b].board = "out"
    /\ \A b \in Bundles : item[b].board # "out" => b \in Live

\* A question that had to be answered before activation is answered: no open
\* question counts as classified on the strength of such a decision.
MustResolveIsResolved ==
    \A b \in Bundles : item[b].decided = "must_resolve" => ~item[b].question

\* Whenever readiness is green without exceptions, every Measure that will
\* be reported was reviewed, is defined and has an approved Target, on a
\* structure whose approval is current.
ReadyMeansReviewed ==
    (IsDraft /\ CanActivate /\ overrides = {}) =>
       /\ Live # {}
       /\ \A b \in Live : item[b].reviewed /\ item[b].ready
                          /\ item[b].target = "ready"
       /\ ~since["details"] /\ ~since["structure"] /\ ~since["active"]
=============================================================================
