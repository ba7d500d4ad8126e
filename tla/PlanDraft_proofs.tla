-------------------------- MODULE PlanDraft_proofs --------------------------
(***************************************************************************)
(* Proofs about PlanDraft, for any bundles, Admins and pages: type         *)
(* correctness; that the whole-plan revision is a sound optimistic lock,   *)
(* no save being accepted from a page that does not show the Draft as it   *)
(* is; and, resting on both, that the reviews of a Draft (its provenance,  *)
(* its Board scope, its decisions, its approvals and a green readiness)    *)
(* stay true of what is stored.                                            *)
(***************************************************************************)
EXTENDS PlanDraft, FiniteSetTheorems, TLAPS

\* Every value an action gives a bundle is one.
LEMMA ItemTypes ==
    ASSUME TypeOK, NEW b \in Bundles
    PROVE  /\ Absent \in Items
           /\ item[b] \in Items
           /\ Approved(b) \in Items
           /\ \A x \in {"out", "needs_review", "approved"} :
                 [item[b] EXCEPT !.board = x] \in Items
<1>1. Absent \in Items
  BY DEF Absent, Items, Statuses
<1>2. item[b] \in Items
  BY DEF TypeOK
<1>3. Approved(b) \in Items
  <2>1. /\ (item[b].reviewed \/ item[b].state # "absent") \in BOOLEAN
        /\ (item[b].ready \/ item[b].state = "live") \in BOOLEAN
    OBVIOUS
  <2>2. (IF item[b].target = "copied" THEN "draft" ELSE item[b].target)
           \in {"none", "copied", "draft", "ready"}
    BY <1>2 DEF Items
  <2> QED
    BY <1>2, <2>1, <2>2, ZenonT(60) DEF Approved, Items
<1>4. \A x \in {"out", "needs_review", "approved"} :
         [item[b] EXCEPT !.board = x] \in Items
  BY <1>2 DEF Items, Statuses
<1> QED
  BY <1>1, <1>2, <1>3, <1>4

\* One save of the guide keeps the types when what it writes has them.
LEMMA SaveTypes ==
    ASSUME TypeOK, NEW a \in Admins, Save(a),
           draft' \in [id : Nat, state : {"none", "draft", "cancelled", "active"},
                       rev : Nat, start : Nat,
                       details : {"incomplete", "complete", "revised"},
                       cloned : Nat],
           item' \in [Bundles -> Items],
           review' \in [Sections -> Statuses],
           scope' \in Statuses \cup {"intentional_empty"},
           overrides' \subseteq Keys,
           NEW D, Track(D)
    PROVE  TypeOK'
<1>1. fresh' \subseteq Admins
  BY DEF TypeOK, Track
<1>2. since' \in [Concerns -> BOOLEAN]
  BY DEF TypeOK, Track, Concerns
<1> QED
  BY <1>1, <1>2 DEF TypeOK, ScopeStatuses, Save

\* The advanced row is a row.
LEMMA AdvancedType ==
    ASSUME TypeOK
    PROVE  /\ Advanced \in [id : Nat,
                       state : {"none", "draft", "cancelled", "active"},
                       rev : Nat, start : Nat,
                       details : {"incomplete", "complete", "revised"},
                       cloned : Nat]
           /\ Advanced.id = draft.id /\ Advanced.rev = draft.rev + 1
           /\ Advanced.state = draft.state /\ Advanced.details = draft.details
           /\ draft.rev \in Nat /\ draft.id \in Nat
<1>1. draft \in [id : Nat, state : {"none", "draft", "cancelled", "active"},
                 rev : Nat, start : Nat,
                 details : {"incomplete", "complete", "revised"},
                 cloned : Nat]
  BY DEF TypeOK
<1>2. draft.rev + 1 \in Nat
  BY <1>1
<1> QED
  BY <1>1, <1>2 DEF Advanced

\* A reset review is a review.
LEMMA ResetType ==
    ASSUME TypeOK, NEW S
    PROVE  /\ Reset(S) \in [Sections -> Statuses]
           /\ \A s \in Sections : s \in S => Reset(S)[s] = "needs_review"
           /\ \A s \in Sections : s \notin S => Reset(S)[s] = review[s]
BY DEF TypeOK, Reset, Statuses

\* The saves that change a single bundle.
LEMMA ReplaceTypes ==
    ASSUME TypeOK, NEW a \in Admins, NEW b \in Bundles, NEW new \in Items,
           NEW S, Replace(a, b, new, S),
           scope' \in Statuses \cup {"intentional_empty"}
    PROVE  TypeOK'
<1>1. item' \in [Bundles -> Items]
  BY DEF Replace, TypeOK
<1>2. review' \in [Sections -> Statuses]
  BY ResetType DEF Replace
<1>3. overrides' \subseteq Keys
  BY DEF Replace, TypeOK
<1>4. draft' = Advanced /\ Save(a) /\ Track({})
  BY DEF Replace
<1> QED
  BY <1>1, <1>2, <1>3, <1>4, SaveTypes, AdvancedType

LEMMA ItemStepTypes ==
    ASSUME TypeOK, NEW a \in Admins, NEW b \in Bundles, ItemStep(a, b)
    PROVE  TypeOK'
<1>1. item[b] \in Items /\ Absent \in Items
  BY ItemTypes
<1>2. scope \in Statuses \cup {"intentional_empty"}
  BY DEF TypeOK, ScopeStatuses
<1>3. CASE AddDraftMeasureBundle(a, b)
  <2>1. [Absent EXCEPT !.state = "live", !.ready = TRUE] \in Items
    BY <1>1 DEF Items
  <2> QED
    BY <1>3, <1>2, <2>1, ReplaceTypes DEF AddDraftMeasureBundle
<1>4. CASE AddDraftTarget(a, b)
  <2>1. [item[b] EXCEPT !.target = "ready"] \in Items
    BY <1>1 DEF Items
  <2> QED
    BY <1>4, <1>2, <2>1, ReplaceTypes DEF AddDraftTarget
<1>5. CASE CopyDraftTarget(a, b)
  <2>1. [item[b] EXCEPT !.target = "copied"] \in Items
    BY <1>1 DEF Items
  <2> QED
    BY <1>5, <1>2, <2>1, ReplaceTypes DEF CopyDraftTarget
<1>6. CASE UpdateDraftItem(a, b)
  <2>1. [item[b] EXCEPT !.wording = 1 - @, !.reviewed = FALSE] \in Items
    <3>1. item[b].wording \in 0..1
      BY <1>1 DEF Items
    <3>2. 1 - item[b].wording \in 0..1
      BY <3>1
    <3> QED
      BY <1>1, <3>2 DEF Items
  <2> QED
    BY <1>6, <1>2, <2>1, ReplaceTypes DEF UpdateDraftItem
<1>7. ASSUME NEW d \in {"resolve_now", "follow_up"},
             ClassifyDraftQuestion(a, b, d)
      PROVE  TypeOK'
  <2>1. [item[b] EXCEPT !.decided = Classification(d),
                        !.question = d = "follow_up"] \in Items
    <3>1. /\ Classification(d) \in {"none", "must_resolve", "follow_up"}
          /\ (d = "follow_up") \in BOOLEAN
      BY DEF Classification
    <3> QED
      BY <1>1, <3>1, ZenonT(60) DEF Items
  <2> QED
    BY <1>7, <1>2, <2>1, ReplaceTypes DEF ClassifyDraftQuestion
<1>8. ASSUME NEW rel \in Relations, NEW P \in SUBSET Sources,
             RecordDraftLineage(a, b, rel, P)
      PROVE  TypeOK'
  <2>1. {<<rel, s>> : s \in P} \subseteq Relations \X Sources
    OBVIOUS
  <2>2. item[b].lineage \subseteq Relations \X Sources
    BY <1>1 DEF Items
  <2>3. [item[b] EXCEPT !.lineage = @ \cup {<<rel, s>> : s \in P}] \in Items
    BY <1>1, <2>1, <2>2 DEF Items
  <2> QED
    BY <1>8, <1>2, <2>3, ReplaceTypes DEF RecordDraftLineage
<1>9. CASE ArchiveDraftPriority(a, b)
  <2>1. [item[b] EXCEPT !.state = "archived", !.board = "out"] \in Items
    BY <1>1 DEF Items
  <2>2. scope' \in Statuses \cup {"intentional_empty"}
    BY <1>9 DEF ArchiveDraftPriority, Statuses
  <2> QED
    BY <1>9, <2>1, <2>2, ReplaceTypes DEF ArchiveDraftPriority
<1> QED
  BY <1>3, <1>4, <1>5, <1>6, <1>7, <1>8, <1>9 DEF ItemStep

LEMMA ReviewStepTypes ==
    ASSUME TypeOK, NEW a \in Admins, ReviewStep(a)
    PROVE  TypeOK'
<1>1. /\ scope \in Statuses \cup {"intentional_empty"}
      /\ item \in [Bundles -> Items] /\ overrides \subseteq Keys
      /\ review \in [Sections -> Statuses]
  BY DEF TypeOK, ScopeStatuses
<1>2. ASSUME NEW d \in {"complete", "revised"}, NEW moved \in BOOLEAN,
             UpdateDraftDetails(a, d, moved)
      PROVE  TypeOK'
  <2>1. draft' \in [id : Nat, state : {"none", "draft", "cancelled", "active"},
                    rev : Nat, start : Nat,
                    details : {"incomplete", "complete", "revised"},
                    cloned : Nat]
    BY <1>2, AdvancedType DEF UpdateDraftDetails
  <2>2. review' \in [Sections -> Statuses]
    BY <1>2, ResetType DEF UpdateDraftDetails
  <2>3. /\ item' \in [Bundles -> Items] /\ overrides' \subseteq Keys
        /\ scope' \in Statuses \cup {"intentional_empty"}
        /\ Save(a) /\ Track({})
    BY <1>1, <1>2 DEF UpdateDraftDetails
  <2> QED
    BY <2>1, <2>2, <2>3, SaveTypes
<1>3. ASSUME NEW s \in Sections, ReviewPlanSection(a, s)
      PROVE  TypeOK'
  <2>1. item' \in [Bundles -> Items]
    <3>1. \A b \in Bundles : Approved(b) \in Items
      BY ItemTypes
    <3> QED
      BY <1>1, <1>3, <3>1 DEF ReviewPlanSection
  <2>2. review' \in [Sections -> Statuses]
    BY <1>1, <1>3 DEF ReviewPlanSection, Statuses
  <2>3. /\ overrides' \subseteq Keys
        /\ scope' \in Statuses \cup {"intentional_empty"}
        /\ draft' = Advanced /\ Save(a) /\ Track({s})
    BY <1>1, <1>3 DEF ReviewPlanSection
  <2> QED
    BY <2>1, <2>2, <2>3, SaveTypes, AdvancedType
<1>4. ASSUME NEW k \in Overridable, SaveReadinessOverride(a, k)
      PROVE  TypeOK'
  <2>1. overrides' \subseteq Keys
    BY <1>1, <1>4 DEF SaveReadinessOverride, Unmet
  <2>2. /\ scope' \in Statuses \cup {"intentional_empty"}
        /\ item' \in [Bundles -> Items]
        /\ review' \in [Sections -> Statuses]
        /\ draft' = Advanced /\ Save(a)
        /\ Track(IF k = "source_changed_since_clone" THEN {"active"} ELSE {})
    BY <1>1, <1>4 DEF SaveReadinessOverride
  <2> QED
    BY <2>1, <2>2, SaveTypes, AdvancedType
<1>5. ASSUME NEW S \in SUBSET Bundles, NEW edited \in SUBSET Bundles,
             NEW confirmed \in SUBSET Bundles,
             SaveDraftBoardScope(a, S, edited, confirmed)
      PROVE  TypeOK'
  <2>1. \A b \in Bundles :
           BoardEntry(b, S, edited, confirmed) \in
              {"out", "needs_review", "approved"}
    <3> SUFFICES ASSUME NEW b \in Bundles
                 PROVE  BoardEntry(b, S, edited, confirmed) \in
                           {"out", "needs_review", "approved"}
      OBVIOUS
    <3>1. item[b].board \in {"out", "needs_review", "approved"}
      BY <1>1 DEF Items, Statuses
    <3> QED
      BY <3>1 DEF BoardEntry
  <2>2. item' \in [Bundles -> Items]
    <3>1. \A b \in Bundles :
             [item[b] EXCEPT !.board = BoardEntry(b, S, edited, confirmed)]
                \in Items
      BY <2>1, ItemTypes
    <3> QED
      BY <1>5, <3>1 DEF SaveDraftBoardScope
  <2>3. scope' \in Statuses \cup {"intentional_empty"}
    BY <1>5 DEF SaveDraftBoardScope, ScopeStatus, Statuses
  <2>4. review' \in [Sections -> Statuses]
    BY <1>1, <1>5 DEF SaveDraftBoardScope, Statuses
  <2>5. /\ overrides' \subseteq Keys /\ draft' = Advanced
        /\ Save(a) /\ Track({})
    BY <1>1, <1>5 DEF SaveDraftBoardScope
  <2> QED
    BY <2>2, <2>3, <2>4, <2>5, SaveTypes, AdvancedType
<1> QED
  BY <1>2, <1>3, <1>4, <1>5 DEF ReviewStep

\* What a change of the Active plan leaves behind.
LEMMA PropagateTypes ==
    ASSUME TypeOK, NEW S, NEW missed \in BOOLEAN, Propagate(S, missed)
    PROVE  /\ draft' \in [id : Nat,
                          state : {"none", "draft", "cancelled", "active"},
                          rev : Nat, start : Nat,
                          details : {"incomplete", "complete", "revised"},
                          cloned : Nat]
           /\ review' \in [Sections -> Statuses]
<1>1. CASE IsDraft /\ ~missed
  <2>1. draft' = Advanced /\ review' = Reset(S)
    BY <1>1 DEF Propagate
  <2> QED
    BY <2>1, AdvancedType, ResetType
<1>2. CASE ~(IsDraft /\ ~missed)
  <2>1. draft' = draft /\ review' = review
    BY <1>2 DEF Propagate
  <2> QED
    BY <2>1 DEF TypeOK
<1> QED
  BY <1>1, <1>2

LEMMA SourceTypes ==
    ASSUME TypeOK, NEW s \in Sections, NEW missed \in BOOLEAN
    PROVE  Changed(s, missed) \in [rev : Nat, changed : [Sections -> Nat],
                                   end : 0..1, reported : BOOLEAN]
<1>1. source \in [rev : Nat, changed : [Sections -> Nat], end : 0..1,
                  reported : BOOLEAN]
  BY DEF TypeOK
<1>2. source.changed[s] + 1 \in Nat /\ source.rev + 1 \in Nat
  BY <1>1
<1>3. [source.changed EXCEPT ![s] = @ + 1] \in [Sections -> Nat]
  BY <1>1, <1>2
<1> QED
  BY <1>1, <1>2, <1>3 DEF Changed

LEMMA OthersTypes ==
    ASSUME TypeOK, Others
    PROVE  TypeOK'
<1>1. ASSUME NEW s \in Sections, NEW missed \in BOOLEAN,
             NEW reported \in BOOLEAN, ChangeActive(s, missed, reported)
      PROVE  TypeOK'
  <2>1. source' \in [rev : Nat, changed : [Sections -> Nat], end : 0..1,
                     reported : BOOLEAN]
    BY <1>1, SourceTypes DEF ChangeActive
  <2>2. Propagate({s}, missed)
    BY <1>1 DEF ChangeActive
  <2>3. /\ UNCHANGED <<item, scope, overrides, installing, page>>
        /\ fresh' \subseteq Admins /\ since' \in [Concerns -> BOOLEAN]
    BY <1>1 DEF ChangeActive, Track, TypeOK, Concerns
  <2> QED
    BY <2>1, <2>2, <2>3, PropagateTypes DEF TypeOK
<1>2. ASSUME NEW end \in 0..1, NEW reported \in BOOLEAN,
             ChangeActiveDetails(end, reported)
      PROVE  TypeOK'
  <2>1. source' \in [rev : Nat, changed : [Sections -> Nat], end : 0..1,
                     reported : BOOLEAN]
    <3>1. "details" \in Sections
      BY DEF Sections
    <3> QED
      BY <1>2, <3>1, SourceTypes DEF ChangeActiveDetails
  <2>2. Propagate(Sections, FALSE)
    BY <1>2 DEF ChangeActiveDetails
  <2>3. /\ UNCHANGED <<item, scope, overrides, installing, page>>
        /\ fresh' \subseteq Admins /\ since' \in [Concerns -> BOOLEAN]
    BY <1>2 DEF ChangeActiveDetails, Track, TypeOK, Concerns
  <2> QED
    BY <2>1, <2>2, <2>3, PropagateTypes DEF TypeOK
<1>3. CASE SaveResult
  <2>1. source' \in [rev : Nat, changed : [Sections -> Nat], end : 0..1,
                     reported : BOOLEAN]
    BY <1>3 DEF SaveResult, TypeOK
  <2>2. /\ UNCHANGED <<stored, installing, page>>
        /\ fresh' \subseteq Admins /\ since' \in [Concerns -> BOOLEAN]
    BY <1>3 DEF SaveResult, Track, TypeOK, Concerns
  <2> QED
    BY <2>1, <2>2 DEF TypeOK, stored
<1>4. ASSUME NEW b \in Bundles, NEW w \in 0..1, NEW question \in BOOLEAN,
             NEW ready \in BOOLEAN, NEW missed \in BOOLEAN,
             EditWithOrdinaryEditor(b, w, question, ready, missed)
      PROVE  TypeOK'
  <2>1. item' \in [Bundles -> Items]
    <3>1. item' = [item EXCEPT ![b] =
                     [item[b] EXCEPT !.wording = w, !.question = question,
                                     !.ready = ready]]
      BY <1>4 DEF EditWithOrdinaryEditor, TypeOK, ScopeStatuses
    <3>2. [item[b] EXCEPT !.wording = w, !.question = question,
                          !.ready = ready] \in Items
      <4>1. item[b] \in Items
        BY ItemTypes
      <4> QED
        BY <4>1 DEF Items
    <3> QED
      BY <3>1, <3>2 DEF TypeOK
  <2>2. draft' = draft \/ draft' = Advanced
    BY <1>4 DEF EditWithOrdinaryEditor
  <2>3. /\ UNCHANGED <<review, scope, overrides, source, installing, page>>
        /\ fresh' \subseteq Admins /\ since' \in [Concerns -> BOOLEAN]
    BY <1>4 DEF EditWithOrdinaryEditor, Track, TypeOK, ScopeStatuses, Concerns
  <2> QED
    BY <2>1, <2>2, <2>3, AdvancedType DEF TypeOK
<1>5. CASE ReplaceTriggers
  BY <1>5 DEF ReplaceTriggers, TypeOK, stored, ghosts
<1> QED
  BY <1>1, <1>2, <1>3, <1>4, <1>5 DEF Others

LEMMA CreateTypes ==
    ASSUME TypeOK, CreateSuccessorDraft
    PROVE  TypeOK'
<1>1. ASSUME NEW details \in {"incomplete", "complete"},
             NEW items \in [Bundles -> Items], StartDraft(details, items)
      PROVE  TypeOK'
  <2>1. draft' \in [id : Nat, state : {"none", "draft", "cancelled", "active"},
                    rev : Nat, start : Nat,
                    details : {"incomplete", "complete", "revised"},
                    cloned : Nat]
    <3>1. draft.id + 1 \in Nat /\ source.end + 1 \in Nat /\ source.rev \in Nat
      BY DEF TypeOK
    <3> QED
      BY <1>1, <3>1 DEF StartDraft
  <2>2. /\ review' \in [Sections -> Statuses] /\ scope' \in Statuses
        /\ overrides' \subseteq Keys /\ fresh' \subseteq Admins
        /\ since' \in [Concerns -> BOOLEAN]
    BY <1>1 DEF StartDraft, Statuses
  <2>3. item' = items /\ UNCHANGED <<source, installing, page>>
    BY <1>1 DEF StartDraft
  <2> QED
    BY <1>1, <2>1, <2>2, <2>3 DEF TypeOK, ScopeStatuses
<1>2. Absent \in Items
  BY DEF Absent, Items, Statuses
<1>3. ASSUME NEW copy \in [Sources -> Bundles], NEW open, NEW board
      PROVE  Cloned(copy, open, board) \in [Bundles -> Items]
  <2> SUFFICES ASSUME NEW b \in Bundles
               PROVE  [Absent EXCEPT
                         !.state = "live",
                         !.question = b \in open,
                         !.lineage = {<<"copied_from", s>> :
                                        s \in {t \in Sources : copy[t] = b}},
                         !.board = IF b \in board THEN "needs_review"
                                   ELSE "out"] \in Items
    BY <1>2 DEF Cloned, Copied, CopiedFrom, BoardCopied
  <2>1. {<<"copied_from", s>> : s \in {t \in Sources : copy[t] = b}}
           \in SUBSET (Relations \X Sources)
    BY DEF Relations
  <2>2. (b \in open) \in BOOLEAN
    OBVIOUS
  <2>3. (IF b \in board THEN "needs_review" ELSE "out") \in Statuses \cup {"out"}
    BY DEF Statuses
  <2> QED
    BY <1>2, <2>1, <2>2, <2>3 DEF Items
<1>4. [b \in Bundles |-> Absent] \in [Bundles -> Items]
  BY <1>2
<1> QED
  BY <1>1, <1>3, <1>4 DEF CreateSuccessorDraft

\* The type invariant of PlanDraft.
THEOREM TypeCorrect == Spec => []TypeOK
<1>1. Init => TypeOK
  <2> SUFFICES ASSUME Init PROVE TypeOK
    OBVIOUS
  <2>1. Absent \in Items
    BY DEF Absent, Items, Statuses
  <2>2. item \in [Bundles -> Items]
    BY <2>1 DEF Init
  <2>3. source \in [rev : Nat, changed : [Sections -> Nat], end : 0..1,
                    reported : BOOLEAN]
    BY DEF Init
  <2>4. /\ draft \in [id : Nat, state : {"none", "draft", "cancelled", "active"},
                       rev : Nat, start : Nat,
                       details : {"incomplete", "complete", "revised"},
                       cloned : Nat]
        /\ page \in [Admins -> [id : Nat, rev : Nat]]
    BY DEF Init
  <2>5. /\ review \in [Sections -> Statuses] /\ scope \in Statuses
        /\ overrides \subseteq Keys /\ installing \in BOOLEAN
        /\ fresh \subseteq Admins /\ since \in [Concerns -> BOOLEAN]
    BY DEF Init, Statuses
  <2> QED
    BY <2>2, <2>3, <2>4, <2>5 DEF TypeOK, ScopeStatuses
<1>2. TypeOK /\ [Next]_vars => TypeOK'
  <2> SUFFICES ASSUME TypeOK, [Next]_vars PROVE TypeOK'
    OBVIOUS
  <2>1. CASE CreateSuccessorDraft
    BY <2>1, CreateTypes
  <2>2. ASSUME NEW a \in Admins, LoadPage(a)
        PROVE  TypeOK'
    <3>2. draft.id \in Nat /\ draft.rev \in Nat
      BY AdvancedType
    <3>3. page' \in [Admins -> [id : Nat, rev : Nat]]
      BY <2>2, <3>2 DEF LoadPage, TypeOK
    <3> QED
      BY <2>2, <3>3 DEF LoadPage, TypeOK, stored
  <2>3. ASSUME NEW a \in Admins, CancelDraft(a) \/ \E k \in BOOLEAN : Activate(a, k)
        PROVE  TypeOK'
    <3>1. draft' \in [id : Nat,
                      state : {"none", "draft", "cancelled", "active"},
                      rev : Nat, start : Nat,
                      details : {"incomplete", "complete", "revised"},
                      cloned : Nat]
      BY <2>3 DEF CancelDraft, Activate, TypeOK
    <3>2. /\ UNCHANGED <<item, review, scope, overrides, source, installing,
                         page>>
          /\ fresh' \subseteq Admins /\ since' \in [Concerns -> BOOLEAN]
      BY <2>3 DEF CancelDraft, Activate, Track, TypeOK, Concerns
    <3> QED
      BY <3>1, <3>2 DEF TypeOK
  <2>4. ASSUME NEW a \in Admins, Guide(a)
        PROVE  TypeOK'
    BY <2>3, <2>4, ReviewStepTypes, ItemStepTypes DEF Guide
  <2>5. CASE Others
    BY <2>5, OthersTypes
  <2>6. CASE UNCHANGED vars
    BY <2>6 DEF vars, stored, ghosts, TypeOK
  <2> QED
    BY <2>1, <2>2, <2>4, <2>5, <2>6 DEF Next
<1> QED
  BY <1>1, <1>2, PTL DEF Spec

-----------------------------------------------------------------------------
(***************************************************************************)
(* The optimistic lock.                                                    *)
(***************************************************************************)

\* What a step can do to the Draft's identity, its revision and the pages.
Advances == /\ draft'.id = draft.id /\ draft'.rev = draft.rev + 1
            /\ UNCHANGED <<page, installing>>
Replaces == /\ draft'.id = draft.id + 1
            /\ UNCHANGED <<page, installing>>
Closes   == /\ draft'.id = draft.id /\ draft'.rev = draft.rev
            /\ draft'.state # "draft"
            /\ UNCHANGED <<page, installing>>
Keeps    == /\ draft'.id = draft.id /\ draft'.rev = draft.rev
            /\ draft'.state = draft.state
            /\ fresh' = fresh
            /\ UNCHANGED page
            /\ ~Openers => UNCHANGED installing

LEMMA GuideShape ==
    ASSUME TypeOK, NEW a \in Admins, Guide(a)
    PROVE  Advances \/ Closes
<1>1. CASE ReviewStep(a)
  BY <1>1, AdvancedType DEF ReviewStep, UpdateDraftDetails, ReviewPlanSection,
     SaveReadinessOverride, SaveDraftBoardScope, Save, Advances, TypeOK
<1>2. ASSUME NEW b \in Bundles, ItemStep(a, b)
      PROVE  Advances \/ Closes
  BY <1>2, AdvancedType DEF ItemStep, AddDraftMeasureBundle, AddDraftTarget,
     CopyDraftTarget, UpdateDraftItem, ClassifyDraftQuestion,
     RecordDraftLineage, ArchiveDraftPriority, Replace, Save, Advances
<1>3. CASE CancelDraft(a) \/ \E k \in BOOLEAN : Activate(a, k)
  BY <1>3 DEF CancelDraft, Activate, Closes, TypeOK
<1> QED
  BY <1>1, <1>2, <1>3 DEF Guide

LEMMA OthersShape ==
    ASSUME TypeOK, PagesBehind, ~Openers, Others
    PROVE  Advances \/ Closes \/ Keeps
<1>1. Missed = {FALSE}
  BY DEF Missed, PagesBehind
<1>2. ASSUME NEW S, Propagate(S, FALSE), UNCHANGED <<page, installing>>
      PROVE  Advances \/ Closes
  BY <1>2, AdvancedType DEF Propagate, Advances, Closes, IsDraft
<1>3. ASSUME NEW s \in Sections, NEW missed \in BOOLEAN,
             NEW reported \in BOOLEAN, ChangeActive(s, missed, reported)
      PROVE  Advances \/ Closes
  <2>1. missed = FALSE
    BY <1>1, <1>3 DEF ChangeActive
  <2> QED
    BY <1>2, <1>3, <2>1 DEF ChangeActive
<1>4. ASSUME NEW end \in 0..1, NEW reported \in BOOLEAN,
             ChangeActiveDetails(end, reported)
      PROVE  Advances \/ Closes
  BY <1>2, <1>4 DEF ChangeActiveDetails
<1>5. CASE SaveResult
  <2>1. source'.rev = source.rev /\ source'.end = source.end
    BY <1>5 DEF SaveResult, TypeOK
  <2>2. Shown' = Shown
    BY <1>5, <2>1 DEF SaveResult, Shown, stored
  <2> QED
    BY <1>5, <2>2 DEF SaveResult, Track, stored, Keeps
<1>6. ASSUME NEW b \in Bundles, NEW w \in 0..1, NEW question \in BOOLEAN,
             NEW ready \in BOOLEAN, NEW missed \in BOOLEAN,
             EditWithOrdinaryEditor(b, w, question, ready, missed)
      PROVE  Advances
  <2>1. missed = FALSE
    BY <1>1, <1>6 DEF EditWithOrdinaryEditor
  <2> QED
    BY <1>6, <2>1, AdvancedType DEF EditWithOrdinaryEditor, Advances
<1>7. ~ReplaceTriggers
  BY DEF ReplaceTriggers
<1> QED
  BY <1>3, <1>4, <1>5, <1>6, <1>7 DEF Others

\* The revision invariant of the lock, with no second process on the database.
LEMMA LockInvariant ==
    ASSUME ~Openers
    PROVE  Spec => [](TypeOK /\ PagesBehind /\ NoStaleSave)
<1>1. Init => PagesBehind /\ NoStaleSave
  BY DEF Init, PagesBehind, NoStaleSave, RequireCurrentDraft, IsDraft
<1>2. TypeOK /\ PagesBehind /\ NoStaleSave /\ [Next]_vars
        => (PagesBehind /\ NoStaleSave)'
  <2> SUFFICES ASSUME TypeOK, PagesBehind, NoStaleSave, [Next]_vars
               PROVE  (PagesBehind /\ NoStaleSave)'
    OBVIOUS
  <2>1. /\ draft.id \in Nat /\ draft.rev \in Nat
        /\ \A a \in Admins : page[a].id \in Nat /\ page[a].rev \in Nat
    BY DEF TypeOK
  <2>2. CASE Advances
    BY <2>1, <2>2 DEF Advances, PagesBehind, NoStaleSave, RequireCurrentDraft
  <2>3. CASE Replaces
    BY <2>1, <2>3 DEF Replaces, PagesBehind, NoStaleSave, RequireCurrentDraft
  <2>4. CASE Closes
    BY <2>1, <2>4 DEF Closes, PagesBehind, NoStaleSave, RequireCurrentDraft,
       IsDraft
  <2>5. CASE Keeps
    BY <2>1, <2>5 DEF Keeps, PagesBehind, NoStaleSave, RequireCurrentDraft,
       IsDraft
  <2>6. ASSUME NEW c \in Admins, LoadPage(c)
        PROVE  (PagesBehind /\ NoStaleSave)'
    <3>1. /\ page' = [page EXCEPT ![c] = [id |-> draft.id, rev |-> draft.rev]]
          /\ fresh' = fresh \cup {c}
          /\ draft' = draft /\ installing' = installing
      BY <2>6 DEF LoadPage, stored
    <3>2. \A a \in Admins : a # c => page'[a] = page[a]
      BY <3>1 DEF TypeOK
    <3>3. page'[c].id = draft.id /\ page'[c].rev = draft.rev
      BY <3>1 DEF TypeOK
    <3> QED
      BY <2>1, <3>1, <3>2, <3>3 DEF PagesBehind, NoStaleSave,
         RequireCurrentDraft, IsDraft
  <2>7. CASE CreateSuccessorDraft
    <3>1. Replaces
      BY <2>7 DEF CreateSuccessorDraft, StartDraft, Replaces
    <3> QED
      BY <2>3, <3>1
  <2>8. ASSUME NEW a \in Admins, Guide(a)
        PROVE  (PagesBehind /\ NoStaleSave)'
    BY <2>2, <2>4, <2>8, GuideShape
  <2>9. CASE Others
    BY <2>2, <2>4, <2>5, <2>9, OthersShape
  <2>10. CASE UNCHANGED vars
    BY <2>5, <2>10 DEF vars, stored, ghosts, Keeps
  <2> QED
    BY <2>6, <2>7, <2>8, <2>9, <2>10 DEF Next
<1> QED
  BY <1>1, <1>2, TypeCorrect, PTL DEF Spec

\* A save, a cancellation or an activation is accepted only from a page that
\* shows the Draft as it is, for any number of Admins, bundles and sources,
\* whatever the ordinary editors do, if no other process opens the database.
THEOREM NoStaleSaveHolds ==
    ASSUME ~Openers
    PROVE  Spec => []NoStaleSave
BY LockInvariant, PTL

-----------------------------------------------------------------------------
(***************************************************************************)
(* The bundle an action changes.                                           *)
(***************************************************************************)

\* The steps that leave the bundles and the Board scope alone.
Untouched == UNCHANGED <<item, scope>>

\* A save of one bundle, whatever it does with the Board scope.
Saved(b, new) == item' = [item EXCEPT ![b] = new]

\* Every step leaves the bundles alone, copies them, saves the Board scope,
\* reviews the structure, edits one from outside, or is a save of one bundle.
LEMMA ItemSteps ==
    ASSUME TypeOK, [Next]_vars
    PROVE  \/ Untouched
           \/ CreateSuccessorDraft
           \/ \E a \in Admins : ReviewPlanSection(a, "structure")
           \/ \E a \in Admins, S, edited, confirmed \in SUBSET Bundles :
                 SaveDraftBoardScope(a, S, edited, confirmed)
           \/ \E a \in Admins, b \in Bundles : ItemStep(a, b)
           \/ \E b \in Bundles, w \in 0..1, question, ready, missed \in BOOLEAN :
                 EditWithOrdinaryEditor(b, w, question, ready, missed)
<1>1. ASSUME NEW a \in Admins, ReviewStep(a)
      PROVE  \/ Untouched
             \/ ReviewPlanSection(a, "structure")
             \/ \E S, edited, confirmed \in SUBSET Bundles :
                   SaveDraftBoardScope(a, S, edited, confirmed)
  BY <1>1 DEF ReviewStep, UpdateDraftDetails, SaveReadinessOverride,
     ReviewPlanSection, Untouched
<1>2. ASSUME NEW a \in Admins, CancelDraft(a) \/ \E k \in BOOLEAN : Activate(a, k)
      PROVE  Untouched
  BY <1>2 DEF CancelDraft, Activate, Untouched
<1>3. ASSUME NEW a \in Admins, LoadPage(a)
      PROVE  Untouched
  BY <1>3 DEF LoadPage, stored, Untouched
<1>4. CASE Others
  BY <1>4 DEF Others, ChangeActive, ChangeActiveDetails, SaveResult,
     ReplaceTriggers, stored, Untouched
<1>5. CASE UNCHANGED vars
  BY <1>5 DEF vars, stored, Untouched
<1> QED
  BY <1>1, <1>2, <1>3, <1>4, <1>5 DEF Next, Guide

-----------------------------------------------------------------------------
(***************************************************************************)
(* Questions that had to be answered.                                      *)
(***************************************************************************)

\* A question recorded as answered before activation is answered, as long as
\* the ordinary editors are kept off the Draft.
THEOREM MustResolveHolds ==
    ASSUME ~Editors
    PROVE  Spec => []MustResolveIsResolved
<1> DEFINE Answered(i) == i.decided = "must_resolve" => ~i.question
<1>1. Init => MustResolveIsResolved
  BY DEF Init, MustResolveIsResolved, Absent
<1>2. TypeOK /\ MustResolveIsResolved /\ [Next]_vars => MustResolveIsResolved'
  <2> SUFFICES ASSUME TypeOK, MustResolveIsResolved, [Next]_vars
               PROVE  MustResolveIsResolved'
    OBVIOUS
  <2>0. /\ item \in [Bundles -> Items]
        /\ \A b \in Bundles : item[b] \in Items /\ Answered(item[b])
    BY DEF TypeOK, MustResolveIsResolved
  <2>1. CASE Untouched
    BY <2>1 DEF Untouched, MustResolveIsResolved
  <2>2. CASE CreateSuccessorDraft
    <3>1. ASSUME NEW details, NEW items, StartDraft(details, items),
                 \A b \in Bundles : items[b].decided = "none"
          PROVE  MustResolveIsResolved'
      BY <3>1 DEF StartDraft, MustResolveIsResolved
    <3>2. \A copy, open, board : \A b \in Bundles :
             Cloned(copy, open, board)[b].decided = "none"
      BY DEF Cloned, Copied, CopiedFrom, BoardCopied, Absent
    <3>3. \A b \in Bundles : [c \in Bundles |-> Absent][b].decided = "none"
      BY DEF Absent
    <3> QED
      BY <2>2, <3>1, <3>2, <3>3 DEF CreateSuccessorDraft
  <2>3. ASSUME NEW a \in Admins, ReviewPlanSection(a, "structure")
        PROVE  MustResolveIsResolved'
    <3>1. \A b \in Bundles : /\ item'[b].decided = item[b].decided
                             /\ item'[b].question = item[b].question
      BY <2>0, <2>3 DEF ReviewPlanSection, Approved, Items
    <3> QED
      BY <2>0, <3>1 DEF MustResolveIsResolved
  <2>4. ASSUME NEW a \in Admins, NEW S \in SUBSET Bundles,
               NEW edited \in SUBSET Bundles, NEW confirmed \in SUBSET Bundles,
               SaveDraftBoardScope(a, S, edited, confirmed)
        PROVE  MustResolveIsResolved'
    <3>1. \A b \in Bundles : /\ item'[b].decided = item[b].decided
                             /\ item'[b].question = item[b].question
      BY <2>0, <2>4 DEF SaveDraftBoardScope, Items
    <3> QED
      BY <2>0, <3>1 DEF MustResolveIsResolved
  <2>5. ASSUME NEW a \in Admins, NEW b \in Bundles, ItemStep(a, b)
        PROVE  MustResolveIsResolved'
    <3>1. ASSUME NEW new, Saved(b, new), Answered(new)
          PROVE  MustResolveIsResolved'
      <4>1. \A c \in Bundles : item'[c] = IF c = b THEN new ELSE item[c]
        BY <2>0, <3>1 DEF Saved
      <4> QED
        BY <2>0, <3>1, <4>1 DEF MustResolveIsResolved
    <3>2. ASSUME NEW d \in {"resolve_now", "follow_up"},
                 ClassifyDraftQuestion(a, b, d)
          PROVE  MustResolveIsResolved'
      <4> DEFINE new == [item[b] EXCEPT !.decided = Classification(d),
                                        !.question = d = "follow_up"]
      <4>1. Saved(b, new)
        BY <3>2 DEF ClassifyDraftQuestion, Replace, Saved
      <4>2. Answered(new)
        BY <2>0 DEF Classification, Items
      <4> QED
        BY <3>1, <4>1, <4>2
    <3>3. ASSUME NEW new, Saved(b, new),
                 new.decided = item[b].decided, new.question = item[b].question
          PROVE  MustResolveIsResolved'
      BY <2>0, <3>1, <3>3
    <3>4. CASE AddDraftMeasureBundle(a, b)
      <4> DEFINE new == [Absent EXCEPT !.state = "live", !.ready = TRUE]
      <4>1. Saved(b, new)
        BY <3>4 DEF AddDraftMeasureBundle, Replace, Saved
      <4>2. new.decided = "none"
        BY DEF Absent
      <4> QED
        BY <3>1, <4>1, <4>2
    <3>5. CASE AddDraftTarget(a, b)
      <4> DEFINE new == [item[b] EXCEPT !.target = "ready"]
      <4>1. Saved(b, new)
        BY <3>5 DEF AddDraftTarget, Replace, Saved
      <4>2. new.decided = item[b].decided /\ new.question = item[b].question
        BY <2>0 DEF Items
      <4> QED
        BY <3>3, <4>1, <4>2
    <3>6. CASE CopyDraftTarget(a, b)
      <4> DEFINE new == [item[b] EXCEPT !.target = "copied"]
      <4>1. Saved(b, new)
        BY <3>6 DEF CopyDraftTarget, Replace, Saved
      <4>2. new.decided = item[b].decided /\ new.question = item[b].question
        BY <2>0 DEF Items
      <4> QED
        BY <3>3, <4>1, <4>2
    <3>7. CASE UpdateDraftItem(a, b)
      <4> DEFINE new == [item[b] EXCEPT !.wording = 1 - @, !.reviewed = FALSE]
      <4>1. Saved(b, new)
        BY <3>7 DEF UpdateDraftItem, Replace, Saved
      <4>2. new.decided = item[b].decided /\ new.question = item[b].question
        BY <2>0 DEF Items
      <4> QED
        BY <3>3, <4>1, <4>2
    <3>8. ASSUME NEW rel \in Relations, NEW P \in SUBSET Sources,
                 RecordDraftLineage(a, b, rel, P)
          PROVE  MustResolveIsResolved'
      <4> DEFINE new == [item[b] EXCEPT !.lineage = @ \cup {<<rel, s>> : s \in P}]
      <4>1. Saved(b, new)
        BY <3>8 DEF RecordDraftLineage, Replace, Saved
      <4>2. new.decided = item[b].decided /\ new.question = item[b].question
        BY <2>0 DEF Items
      <4> QED
        BY <3>3, <4>1, <4>2
    <3>9. CASE ArchiveDraftPriority(a, b)
      <4> DEFINE new == [item[b] EXCEPT !.state = "archived", !.board = "out"]
      <4>1. Saved(b, new)
        BY <3>9 DEF ArchiveDraftPriority, Replace, Saved
      <4>2. new.decided = item[b].decided /\ new.question = item[b].question
        BY <2>0 DEF Items
      <4> QED
        BY <3>3, <4>1, <4>2
    <3> HIDE DEF Answered
    <3> QED
      BY <2>5, <3>2, <3>4, <3>5, <3>6, <3>7, <3>8, <3>9 DEF ItemStep
  <2> QED
    BY <2>1, <2>2, <2>3, <2>4, <2>5, ItemSteps DEF EditWithOrdinaryEditor
<1> QED
  BY <1>1, <1>2, TypeCorrect, PTL DEF Spec

-----------------------------------------------------------------------------
(***************************************************************************)
(* The Board scope.                                                        *)
(***************************************************************************)

\* Every save of one bundle either keeps its Board entry and its state, or
\* leaves it with no entry; only archiving touches the scope, and reopens it.
LEMMA ItemBoards ==
    ASSUME TypeOK, NEW a \in Admins, NEW b \in Bundles, ItemStep(a, b)
    PROVE  \E new :
              /\ Saved(b, new)
              /\ \/ /\ new.board = item[b].board /\ new.state = item[b].state
                    /\ UNCHANGED scope
                 \/ /\ b \notin Exists /\ new.board = "out" /\ UNCHANGED scope
                 \/ /\ new.board = "out" /\ scope' = "needs_review"
<1>0. item[b] \in Items
  BY DEF TypeOK
<1> DEFINE Kept(new) == /\ new.board = item[b].board /\ new.state = item[b].state
                        /\ UNCHANGED scope
<1>1. CASE AddDraftMeasureBundle(a, b)
  <2> DEFINE new == [Absent EXCEPT !.state = "live", !.ready = TRUE]
  <2>1. Saved(b, new) /\ b \notin Exists /\ UNCHANGED scope
    BY <1>1 DEF AddDraftMeasureBundle, Replace, Saved
  <2>2. new.board = "out"
    BY DEF Absent
  <2> QED
    BY <2>1, <2>2
<1>2. CASE AddDraftTarget(a, b)
  <2> DEFINE new == [item[b] EXCEPT !.target = "ready"]
  <2>1. Saved(b, new) /\ Kept(new)
    BY <1>0, <1>2 DEF AddDraftTarget, Replace, Saved, Items
  <2> QED
    BY <2>1
<1>3. CASE CopyDraftTarget(a, b)
  <2> DEFINE new == [item[b] EXCEPT !.target = "copied"]
  <2>1. Saved(b, new) /\ Kept(new)
    BY <1>0, <1>3 DEF CopyDraftTarget, Replace, Saved, Items
  <2> QED
    BY <2>1
<1>4. CASE UpdateDraftItem(a, b)
  <2> DEFINE new == [item[b] EXCEPT !.wording = 1 - @, !.reviewed = FALSE]
  <2>1. Saved(b, new) /\ Kept(new)
    BY <1>0, <1>4 DEF UpdateDraftItem, Replace, Saved, Items
  <2> QED
    BY <2>1
<1>5. ASSUME NEW d \in {"resolve_now", "follow_up"},
             ClassifyDraftQuestion(a, b, d)
      PROVE  \E new : Saved(b, new) /\ Kept(new)
  <2> DEFINE new == [item[b] EXCEPT !.decided = Classification(d),
                                    !.question = d = "follow_up"]
  <2>1. Saved(b, new) /\ Kept(new)
    BY <1>0, <1>5 DEF ClassifyDraftQuestion, Replace, Saved, Items
  <2> QED
    BY <2>1
<1>6. ASSUME NEW rel \in Relations, NEW P \in SUBSET Sources,
             RecordDraftLineage(a, b, rel, P)
      PROVE  \E new : Saved(b, new) /\ Kept(new)
  <2> DEFINE new == [item[b] EXCEPT !.lineage = @ \cup {<<rel, s>> : s \in P}]
  <2>1. Saved(b, new) /\ Kept(new)
    BY <1>0, <1>6 DEF RecordDraftLineage, Replace, Saved, Items
  <2> QED
    BY <2>1
<1>7. CASE ArchiveDraftPriority(a, b)
  <2> DEFINE new == [item[b] EXCEPT !.state = "archived", !.board = "out"]
  <2>1. Saved(b, new) /\ new.board = "out" /\ scope' = "needs_review"
    BY <1>0, <1>7 DEF ArchiveDraftPriority, Replace, Saved, Items
  <2> QED
    BY <2>1
<1> QED
  BY <1>1, <1>2, <1>3, <1>4, <1>5, <1>6, <1>7 DEF ItemStep

\* An approved Board scope has nothing left to review, an intentionally empty
\* one is empty, and no entry survives its Priority, whatever order the saves
\* come in and whatever other editors and processes do.
THEOREM BoardScopeStaysHonest == Spec => []BoardScopeHonest
<1>1. Init => BoardScopeHonest
  BY DEF Init, BoardScopeHonest, Absent
<1>2. TypeOK /\ BoardScopeHonest /\ [Next]_vars => BoardScopeHonest'
  <2> SUFFICES ASSUME TypeOK, BoardScopeHonest, [Next]_vars
               PROVE  BoardScopeHonest'
    OBVIOUS
  <2>0. item \in [Bundles -> Items] /\ \A b \in Bundles : item[b] \in Items
    BY DEF TypeOK
  <2>1. ASSUME scope' = scope,
               \A b \in Bundles : /\ item'[b].board = item[b].board
                                  /\ item'[b].state = item[b].state
        PROVE  BoardScopeHonest'
    BY <2>1 DEF BoardScopeHonest, Live
  <2>2. CASE Untouched
    BY <2>1, <2>2 DEF Untouched
  <2>3. CASE CreateSuccessorDraft
    <3>1. ASSUME NEW details, NEW items, StartDraft(details, items),
                 \A b \in Bundles : items[b].board # "out" => items[b].state = "live"
          PROVE  BoardScopeHonest'
      BY <3>1 DEF StartDraft, BoardScopeHonest, Live
    <3>2. \A copy, open, board : \A b \in Bundles :
             Cloned(copy, open, board)[b].board # "out"
               => Cloned(copy, open, board)[b].state = "live"
      BY DEF Cloned, Copied, CopiedFrom, BoardCopied, Absent
    <3>3. \A b \in Bundles : [c \in Bundles |-> Absent][b].board = "out"
      BY DEF Absent
    <3> QED
      BY <2>3, <3>1, <3>2, <3>3 DEF CreateSuccessorDraft
  <2>4. ASSUME NEW a \in Admins, ReviewPlanSection(a, "structure")
        PROVE  BoardScopeHonest'
    <3>1. \A b \in Bundles : /\ item'[b].board = item[b].board
                             /\ item'[b].state = item[b].state
      BY <2>0, <2>4 DEF ReviewPlanSection, Approved, Items
    <3> QED
      BY <2>1, <2>4, <3>1 DEF ReviewPlanSection
  <2>5. ASSUME NEW a \in Admins, NEW S \in SUBSET Bundles,
               NEW edited \in SUBSET Bundles, NEW confirmed \in SUBSET Bundles,
               SaveDraftBoardScope(a, S, edited, confirmed)
        PROVE  BoardScopeHonest'
    <3>1. \A b \in Bundles :
             /\ item'[b].board = BoardEntry(b, S, edited, confirmed)
             /\ item'[b].state = item[b].state
      BY <2>0, <2>5 DEF SaveDraftBoardScope, Items
    <3>2. /\ scope' = ScopeStatus(S, edited, confirmed)
          /\ S \subseteq Live
      BY <2>5 DEF SaveDraftBoardScope
    <3>3. \A b \in Bundles : b \notin S => item'[b].board = "out"
      BY <3>1 DEF BoardEntry
    <3>4. scope' = "approved" => \A b \in S : item'[b].board # "needs_review"
      BY <3>1, <3>2 DEF ScopeStatus
    <3>5. scope' = "intentional_empty" => S = {}
      BY <3>2 DEF ScopeStatus
    <3> QED
      BY <3>1, <3>2, <3>3, <3>4, <3>5 DEF BoardScopeHonest, Live
  <2>6. ASSUME NEW a \in Admins, NEW b \in Bundles, ItemStep(a, b)
        PROVE  BoardScopeHonest'
    <3>1. PICK new :
             /\ Saved(b, new)
             /\ \/ /\ new.board = item[b].board /\ new.state = item[b].state
                   /\ UNCHANGED scope
                \/ /\ b \notin Exists /\ new.board = "out" /\ UNCHANGED scope
                \/ /\ new.board = "out" /\ scope' = "needs_review"
      BY <2>6, ItemBoards
    <3>2. \A c \in Bundles : item'[c] = IF c = b THEN new ELSE item[c]
      BY <2>0, <3>1 DEF Saved
    <3> QED
      BY <3>1, <3>2 DEF BoardScopeHonest, Live
  <2>7. ASSUME NEW b \in Bundles, NEW w \in 0..1, NEW question \in BOOLEAN,
               NEW ready \in BOOLEAN, NEW missed \in BOOLEAN,
               EditWithOrdinaryEditor(b, w, question, ready, missed)
        PROVE  BoardScopeHonest'
    <3>1. item' = [item EXCEPT ![b] =
                     [item[b] EXCEPT !.wording = w, !.question = question,
                                     !.ready = ready]]
      BY <2>0, <2>7 DEF EditWithOrdinaryEditor
    <3>2. \A c \in Bundles : /\ item'[c].board = item[c].board
                             /\ item'[c].state = item[c].state
      BY <2>0, <3>1 DEF Items
    <3> QED
      BY <2>1, <2>7, <3>2 DEF EditWithOrdinaryEditor
  <2> QED
    BY <2>2, <2>3, <2>4, <2>5, <2>6, <2>7, ItemSteps
<1> QED
  BY <1>1, <1>2, TypeCorrect, PTL DEF Spec

-----------------------------------------------------------------------------
(***************************************************************************)
(* Provenance.                                                             *)
(***************************************************************************)

\* The provenance a bundle may have.
Coherent(L) ==
    /\ L \subseteq Relations \X Sources
    /\ \A l, m \in L : l[1] = m[1]
    /\ \A l \in L : (l[1] = "merged_from") <=> Cardinality(L) >= 2

\* Recording what LineageAllowed accepts keeps provenance coherent.
LEMMA LineageStep ==
    ASSUME NEW b \in Bundles, NEW rel \in Relations, NEW Q \in SUBSET Sources,
           Coherent(item[b].lineage), LineageAllowed(b, rel, Q)
    PROVE  Coherent(item[b].lineage \cup {<<rel, s>> : s \in Q})
<1> DEFINE L == item[b].lineage
           N == {<<rel, s>> : s \in Q}
<1>1. N \subseteq Relations \X Sources /\ \A l \in N : l[1] = rel
  OBVIOUS
<1>2. \A l \in L : l[1] = rel
  BY DEF LineageAllowed
<1>3. IsFiniteSet(Q)
  BY DraftAssumption, FS_Subset DEF DraftAssumption
<1>4. IsFiniteSet(L)
  <2>1. IsFiniteSet(Relations)
    <3>1. IsFiniteSet({"copied_from"} \cup {"merged_from"})
      BY FS_Singleton, FS_Union
    <3>2. IsFiniteSet(({"copied_from"} \cup {"merged_from"}) \cup {"split_from"})
      BY <3>1, FS_Singleton, FS_Union
    <3>3. Relations = ({"copied_from"} \cup {"merged_from"}) \cup {"split_from"}
      BY DEF Relations
    <3> QED
      BY <3>2, <3>3
  <2>2. IsFiniteSet(Relations \X Sources)
    BY <2>1, DraftAssumption, FS_Product DEF DraftAssumption
  <2> QED
    BY <2>2, FS_Subset DEF Coherent
<1>5. IsFiniteSet(N) /\ Cardinality(N) <= Cardinality(Q)
  <2> DEFINE f == [s \in Q |-> <<rel, s>>]
  <2>1. f \in Surjection(Q, N)
    BY DEF Surjection
  <2> QED
    BY <1>3, <2>1, FS_Surjection
<1>6. Cardinality(Q) <= Cardinality(N)
  <2> DEFINE f == [s \in Q |-> <<rel, s>>]
  <2>1. f \in Injection(Q, N)
    BY DEF Injection, IsInjective
  <2> QED
    BY <1>5, <2>1, FS_Injection
<1>7. /\ Cardinality(Q) \in Nat /\ Cardinality(N) \in Nat
      /\ Cardinality(L \cup N) \in Nat /\ Cardinality(N) <= Cardinality(L \cup N)
  <2>1. IsFiniteSet(L \cup N)
    BY <1>4, <1>5, FS_Union
  <2> QED
    BY <1>3, <1>5, <2>1, FS_Subset, FS_CardinalityType
<1>8. CASE rel = "merged_from"
  <2>1. Cardinality(Q) >= 2
    BY <1>8 DEF LineageAllowed
  <2>2. Cardinality(L \cup N) >= 2
    BY <2>1, <1>6, <1>7
  <2> QED
    BY <1>1, <1>2, <1>8, <2>2 DEF Coherent
<1>9. CASE rel # "merged_from"
  <2>1. L = {} /\ Cardinality(Q) = 1
    BY <1>9 DEF LineageAllowed
  <2>2. L \cup N = N /\ Cardinality(N) = 1
    BY <2>1, <1>5, <1>6, <1>7
  <2> QED
    BY <1>1, <1>2, <1>9, <2>2 DEF Coherent
<1> QED
  BY <1>8, <1>9

\* Every save of one bundle keeps its provenance or makes a coherent one.
LEMMA ItemLineages ==
    ASSUME TypeOK, NEW a \in Admins, NEW b \in Bundles, ItemStep(a, b),
           Coherent(item[b].lineage), Coherent({})
    PROVE  \E new : Saved(b, new) /\ Coherent(new.lineage)
<1>0. item[b] \in Items
  BY DEF TypeOK
<1>1. CASE AddDraftMeasureBundle(a, b)
  <2> DEFINE new == [Absent EXCEPT !.state = "live", !.ready = TRUE]
  <2>1. Saved(b, new)
    BY <1>1 DEF AddDraftMeasureBundle, Replace, Saved
  <2>2. new.lineage = {}
    BY DEF Absent
  <2> QED
    BY <2>1, <2>2
<1>2. CASE AddDraftTarget(a, b)
  <2> DEFINE new == [item[b] EXCEPT !.target = "ready"]
  <2>1. Saved(b, new) /\ new.lineage = item[b].lineage
    BY <1>0, <1>2 DEF AddDraftTarget, Replace, Saved, Items
  <2> QED
    BY <2>1
<1>3. CASE CopyDraftTarget(a, b)
  <2> DEFINE new == [item[b] EXCEPT !.target = "copied"]
  <2>1. Saved(b, new) /\ new.lineage = item[b].lineage
    BY <1>0, <1>3 DEF CopyDraftTarget, Replace, Saved, Items
  <2> QED
    BY <2>1
<1>4. CASE UpdateDraftItem(a, b)
  <2> DEFINE new == [item[b] EXCEPT !.wording = 1 - @, !.reviewed = FALSE]
  <2>1. Saved(b, new) /\ new.lineage = item[b].lineage
    BY <1>0, <1>4 DEF UpdateDraftItem, Replace, Saved, Items
  <2> QED
    BY <2>1
<1>5. ASSUME NEW d \in {"resolve_now", "follow_up"},
             ClassifyDraftQuestion(a, b, d)
      PROVE  \E new : Saved(b, new) /\ Coherent(new.lineage)
  <2> DEFINE new == [item[b] EXCEPT !.decided = Classification(d),
                                    !.question = d = "follow_up"]
  <2>1. Saved(b, new) /\ new.lineage = item[b].lineage
    BY <1>0, <1>5 DEF ClassifyDraftQuestion, Replace, Saved, Items
  <2> QED
    BY <2>1
<1>6. ASSUME NEW rel \in Relations, NEW Q \in SUBSET Sources,
             RecordDraftLineage(a, b, rel, Q)
      PROVE  \E new : Saved(b, new) /\ Coherent(new.lineage)
  <2> DEFINE new == [item[b] EXCEPT !.lineage = @ \cup {<<rel, s>> : s \in Q}]
  <2>1. /\ Saved(b, new) /\ LineageAllowed(b, rel, Q)
        /\ new.lineage = item[b].lineage \cup {<<rel, s>> : s \in Q}
    BY <1>0, <1>6 DEF RecordDraftLineage, Replace, Saved, Items
  <2>2. Coherent(new.lineage)
    BY <2>1, LineageStep
  <2> QED
    BY <2>1, <2>2
<1>7. CASE ArchiveDraftPriority(a, b)
  <2> DEFINE new == [item[b] EXCEPT !.state = "archived", !.board = "out"]
  <2>1. Saved(b, new) /\ new.lineage = item[b].lineage
    BY <1>0, <1>7 DEF ArchiveDraftPriority, Replace, Saved, Items
  <2> QED
    BY <2>1
<1> QED
  BY <1>1, <1>2, <1>3, <1>4, <1>5, <1>6, <1>7 DEF ItemStep

\* Whatever is copied, merged, split or archived in whatever order, an item
\* has one kind of provenance, with one predecessor or, merged, with several.
THEOREM LineageStaysCoherent == Spec => []LineageCoherent
<1> DEFINE Inv == \A b \in Bundles : Coherent(item[b].lineage)
<1>0. Coherent({})
  BY DEF Coherent
<1>1. Init => Inv
  <2>1. Absent.lineage = {}
    BY DEF Absent
  <2>2. Init => item = [b \in Bundles |-> Absent]
    BY DEF Init
  <2> HIDE DEF Absent
  <2> QED
    BY <1>0, <2>1, <2>2
<1>2. TypeOK /\ Inv /\ [Next]_vars => Inv'
  <2> SUFFICES ASSUME TypeOK, Inv, [Next]_vars
               PROVE  \A b \in Bundles : Coherent(item'[b].lineage)
    OBVIOUS
  <2>0. item \in [Bundles -> Items] /\ \A b \in Bundles : item[b] \in Items
    BY DEF TypeOK
  <2>1. ASSUME \A b \in Bundles : item'[b].lineage = item[b].lineage
        PROVE  \A b \in Bundles : Coherent(item'[b].lineage)
    BY <2>1
  <2>2. CASE Untouched
    BY <2>1, <2>2 DEF Untouched
  <2>3. CASE CreateSuccessorDraft
    <3>1. \A details, items : StartDraft(details, items) => item' = items
      BY DEF StartDraft
    <3>2. ASSUME NEW copy \in [Sources -> Bundles], NEW open, NEW board,
                 \A s, t \in Sources : copy[s] = copy[t] => s = t,
                 NEW b \in Bundles
          PROVE  Coherent(Cloned(copy, open, board)[b].lineage)
      <4>1. CASE \E s \in Sources : copy[s] = b
        <5>1. PICK s \in Sources : copy[s] = b
          BY <4>1
        <5>2. {t \in Sources : copy[t] = b} = {s}
          BY <3>2, <5>1
        <5>3. Cloned(copy, open, board)[b].lineage = {<<"copied_from", s>>}
          BY <4>1, <5>2 DEF Cloned, Copied, CopiedFrom, BoardCopied, Absent
        <5>4. Cardinality({<<"copied_from", s>>}) = 1
          BY FS_Singleton
        <5> QED
          BY <5>3, <5>4 DEF Coherent, Relations
      <4>2. CASE ~ \E s \in Sources : copy[s] = b
        BY <1>0, <4>2 DEF Cloned, Copied, CopiedFrom, BoardCopied, Absent
      <4> QED
        BY <4>1, <4>2
    <3>3. \A b \in Bundles : Coherent([c \in Bundles |-> Absent][b].lineage)
      BY <1>0 DEF Absent
    <3> QED
      BY <2>3, <3>1, <3>2, <3>3 DEF CreateSuccessorDraft
  <2>4. ASSUME NEW a \in Admins, ReviewPlanSection(a, "structure")
        PROVE  \A b \in Bundles : Coherent(item'[b].lineage)
    <3>1. \A b \in Bundles : item'[b].lineage = item[b].lineage
      BY <2>0, <2>4 DEF ReviewPlanSection, Approved, Items
    <3> QED
      BY <2>1, <3>1
  <2>5. ASSUME NEW a \in Admins, NEW S \in SUBSET Bundles,
               NEW edited \in SUBSET Bundles, NEW confirmed \in SUBSET Bundles,
               SaveDraftBoardScope(a, S, edited, confirmed)
        PROVE  \A b \in Bundles : Coherent(item'[b].lineage)
    <3>1. \A b \in Bundles : item'[b].lineage = item[b].lineage
      BY <2>0, <2>5 DEF SaveDraftBoardScope, Items
    <3> QED
      BY <2>1, <3>1
  <2>6. ASSUME NEW a \in Admins, NEW b \in Bundles, ItemStep(a, b)
        PROVE  \A c \in Bundles : Coherent(item'[c].lineage)
    <3>1. PICK new : Saved(b, new) /\ Coherent(new.lineage)
      BY <1>0, <2>6, ItemLineages
    <3>2. \A c \in Bundles : item'[c] = IF c = b THEN new ELSE item[c]
      BY <2>0, <3>1 DEF Saved
    <3> QED
      BY <3>1, <3>2
  <2>7. ASSUME NEW b \in Bundles, NEW w \in 0..1, NEW question \in BOOLEAN,
               NEW ready \in BOOLEAN, NEW missed \in BOOLEAN,
               EditWithOrdinaryEditor(b, w, question, ready, missed)
        PROVE  \A c \in Bundles : Coherent(item'[c].lineage)
    <3>1. item' = [item EXCEPT ![b] =
                     [item[b] EXCEPT !.wording = w, !.question = question,
                                     !.ready = ready]]
      BY <2>0, <2>7 DEF EditWithOrdinaryEditor
    <3>2. \A c \in Bundles : item'[c].lineage = item[c].lineage
      BY <2>0, <3>1 DEF Items
    <3> QED
      BY <2>1, <3>2
  <2> QED
    BY <2>2, <2>3, <2>4, <2>5, <2>6, <2>7, ItemSteps
<1>3. Inv => LineageCoherent
  BY DEF Coherent, LineageCoherent
<1> HIDE DEF Inv
<1> QED
  BY <1>1, <1>2, <1>3, TypeCorrect, PTL DEF Spec

-----------------------------------------------------------------------------
(***************************************************************************)
(* Approvals.                                                              *)
(***************************************************************************)

Reviewed == {"details", "structure"}

\* What a step may do to a reviewed section: decide on it, reset it, or leave
\* its review and its content alone.
Settled(s, D) == \/ s \in D
                 \/ review'[s] = "needs_review"
                 \/ review'[s] = review[s] /\ Basis'[s] = Basis[s]

\* A step that settles the sections keeps approvals covering the content.
LEMMA SettledCovers ==
    ASSUME TypeOK, ApprovalCoversContent, IsDraft, NEW D, Track(D),
           \A s \in Reviewed : Settled(s, D)
    PROVE  ApprovalCoversContent'
<1> SUFFICES ASSUME NEW s \in Reviewed, review'[s] = "approved"
             PROVE  ~since'[s]
  BY DEF ApprovalCoversContent, Reviewed
<1>1. since'[s] = (s \notin D /\ (since[s] \/ Basis'[s] # Basis[s]))
  BY DEF Track, Reviewed, Concerns
<1>2. review[s] = "approved" => ~since[s]
  BY DEF ApprovalCoversContent, Reviewed
<1> QED
  BY <1>1, <1>2 DEF Settled

\* The content of a section as long as nothing it consists of is written.
LEMMA SameDetails ==
    ASSUME draft'.details = draft.details,
           source'.changed["details"] = source.changed["details"]
    PROVE  Basis'["details"] = Basis["details"]
BY DEF Basis

LEMMA SameStructure ==
    ASSUME source'.changed["structure"] = source.changed["structure"],
           \A b \in Bundles :
              /\ item'[b].state = item[b].state
              /\ item'[b].wording = item[b].wording
              /\ item'[b].ready = item[b].ready
              /\ item'[b].question = item[b].question
              /\ item'[b].lineage = item[b].lineage
    PROVE  Basis'["structure"] = Basis["structure"]
BY DEF Basis

\* A save of one bundle that resets the sections S.
LEMMA ReplaceCovers ==
    ASSUME TypeOK, ApprovalCoversContent, NEW a \in Admins, NEW b \in Bundles,
           NEW new, NEW S, Replace(a, b, new, S),
           \/ "structure" \in S
           \/ /\ new.state = item[b].state /\ new.wording = item[b].wording
              /\ new.ready = item[b].ready /\ new.question = item[b].question
              /\ new.lineage = item[b].lineage
    PROVE  ApprovalCoversContent'
<1>1. /\ IsDraft /\ Track({}) /\ source' = source
      /\ draft' = Advanced /\ review' = Reset(S)
      /\ item' = [item EXCEPT ![b] = new]
  BY DEF Replace, Save, RequireCurrentDraft
<1>2. /\ review'["details"] \in {"needs_review", review["details"]}
      /\ review'["structure"] \in {"needs_review", review["structure"]}
      /\ "structure" \in S => review'["structure"] = "needs_review"
  BY <1>1 DEF Reset, Sections
<1>3. Basis'["details"] = Basis["details"]
  BY <1>1, AdvancedType, SameDetails
<1>4. "structure" \notin S => Basis'["structure"] = Basis["structure"]
  <2> SUFFICES ASSUME "structure" \notin S
               PROVE  Basis'["structure"] = Basis["structure"]
    OBVIOUS
  <2>1. \A c \in Bundles : item'[c] = IF c = b THEN new ELSE item[c]
    BY <1>1 DEF TypeOK
  <2> QED
    BY <1>1, <2>1, SameStructure
<1> QED
  BY <1>1, <1>2, <1>3, <1>4, SettledCovers DEF Settled, Reviewed

LEMMA GuideCovers ==
    ASSUME TypeOK, ApprovalCoversContent, NEW a \in Admins, Guide(a)
    PROVE  ApprovalCoversContent'
<1>0. /\ item \in [Bundles -> Items] /\ \A b \in Bundles : item[b] \in Items
      /\ review \in [Sections -> Statuses]
  BY DEF TypeOK
<1>1. ASSUME NEW d \in {"complete", "revised"}, NEW moved \in BOOLEAN,
             UpdateDraftDetails(a, d, moved)
      PROVE  ApprovalCoversContent'
  <2>1. /\ IsDraft /\ Track({}) /\ source' = source /\ item' = item
        /\ review' = Reset(IF moved THEN Sections ELSE {"details"})
    BY <1>1 DEF UpdateDraftDetails, Save, RequireCurrentDraft
  <2>2. /\ review'["details"] = "needs_review"
        /\ review'["structure"] \in {"needs_review", review["structure"]}
    BY <2>1 DEF Reset, Sections
  <2>3. Basis'["structure"] = Basis["structure"]
    BY <2>1, SameStructure
  <2> QED
    BY <2>1, <2>2, <2>3, SettledCovers DEF Settled, Reviewed
<1>2. ASSUME NEW s \in Sections, ReviewPlanSection(a, s)
      PROVE  ApprovalCoversContent'
  <2>1. /\ IsDraft /\ Track({s}) /\ source' = source /\ draft' = Advanced
        /\ review' = [review EXCEPT ![s] = "approved"]
        /\ s # "structure" => item' = item
    BY <1>2 DEF ReviewPlanSection, Save, RequireCurrentDraft
  <2>2. \A t \in Sections : t # s => review'[t] = review[t]
    BY <1>0, <2>1
  <2>3. Basis'["details"] = Basis["details"]
    BY <2>1, AdvancedType, SameDetails
  <2>4. s # "structure" => Basis'["structure"] = Basis["structure"]
    BY <2>1, SameStructure
  <2> QED
    BY <2>1, <2>2, <2>3, <2>4, SettledCovers DEF Settled, Reviewed, Sections
<1>3. ASSUME NEW k \in Overridable, SaveReadinessOverride(a, k)
      PROVE  ApprovalCoversContent'
  <2>1. /\ IsDraft /\ source' = source /\ draft' = Advanced
        /\ item' = item /\ review' = review
        /\ Track(IF k = "source_changed_since_clone" THEN {"active"} ELSE {})
    BY <1>3 DEF SaveReadinessOverride, Save, RequireCurrentDraft
  <2>2. /\ Basis'["details"] = Basis["details"]
        /\ Basis'["structure"] = Basis["structure"]
    BY <2>1, AdvancedType, SameDetails, SameStructure
  <2> QED
    BY <2>1, <2>2, SettledCovers DEF Settled, Reviewed
<1>4. ASSUME NEW S \in SUBSET Bundles, NEW edited \in SUBSET Bundles,
             NEW confirmed \in SUBSET Bundles,
             SaveDraftBoardScope(a, S, edited, confirmed)
      PROVE  ApprovalCoversContent'
  <2>1. /\ IsDraft /\ Track({}) /\ source' = source /\ draft' = Advanced
        /\ item' = [b \in Bundles |->
                      [item[b] EXCEPT !.board = BoardEntry(b, S, edited, confirmed)]]
    BY <1>4 DEF SaveDraftBoardScope, Save, RequireCurrentDraft
  <2>2. /\ review'["details"] = review["details"]
        /\ review'["structure"] = review["structure"]
    <3>1. \E x : review' = [review EXCEPT !["targets"] = x]
      BY <1>4 DEF SaveDraftBoardScope
    <3> QED
      BY <1>0, <3>1 DEF Sections
  <2>3. \A b \in Bundles :
           /\ item'[b].state = item[b].state /\ item'[b].wording = item[b].wording
           /\ item'[b].ready = item[b].ready /\ item'[b].question = item[b].question
           /\ item'[b].lineage = item[b].lineage
    BY <1>0, <2>1 DEF Items
  <2>4. /\ Basis'["details"] = Basis["details"]
        /\ Basis'["structure"] = Basis["structure"]
    BY <2>1, <2>3, AdvancedType, SameDetails, SameStructure
  <2> QED
    BY <2>1, <2>2, <2>4, SettledCovers DEF Settled, Reviewed
<1>5. ASSUME NEW b \in Bundles, ItemStep(a, b)
      PROVE  ApprovalCoversContent'
  <2>1. ASSUME NEW new, NEW S, Replace(a, b, new, S), "structure" \in S
        PROVE  ApprovalCoversContent'
    BY <2>1, ReplaceCovers
  <2>2. ASSUME NEW t, Replace(a, b, [item[b] EXCEPT !.target = t], {"targets"})
        PROVE  ApprovalCoversContent'
    BY <1>0, <2>2, ReplaceCovers DEF Items
  <2>3. CASE AddDraftTarget(a, b)
    BY <2>2, <2>3 DEF AddDraftTarget
  <2>4. CASE CopyDraftTarget(a, b)
    BY <2>2, <2>4 DEF CopyDraftTarget
  <2>5. CASE AddDraftMeasureBundle(a, b)
    BY <2>1, <2>5 DEF AddDraftMeasureBundle
  <2>6. CASE UpdateDraftItem(a, b)
    BY <2>1, <2>6 DEF UpdateDraftItem
  <2>7. ASSUME NEW d, ClassifyDraftQuestion(a, b, d)
        PROVE  ApprovalCoversContent'
    BY <2>1, <2>7 DEF ClassifyDraftQuestion
  <2>8. ASSUME NEW rel, NEW Q, RecordDraftLineage(a, b, rel, Q)
        PROVE  ApprovalCoversContent'
    BY <2>1, <2>8 DEF RecordDraftLineage
  <2>9. CASE ArchiveDraftPriority(a, b)
    BY <2>1, <2>9 DEF ArchiveDraftPriority
  <2> QED
    BY <1>5, <2>3, <2>4, <2>5, <2>6, <2>7, <2>8, <2>9 DEF ItemStep
<1>6. CASE CancelDraft(a) \/ \E k \in BOOLEAN : Activate(a, k)
  <2>1. ~IsDraft'
    BY <1>6 DEF CancelDraft, Activate, IsDraft, TypeOK
  <2> QED
    BY <2>1 DEF ApprovalCoversContent
<1> QED
  BY <1>1, <1>2, <1>3, <1>4, <1>5, <1>6 DEF Guide, ReviewStep

LEMMA OthersCover ==
    ASSUME TypeOK, PagesBehind, ApprovalCoversContent, ~Openers, ~Editors, Others
    PROVE  ApprovalCoversContent'
<1>0. Missed = {FALSE}
  BY DEF Missed, PagesBehind
<1>1. ASSUME NEW S, Propagate(S, FALSE), Track({}), item' = item,
             \A s \in Reviewed :
                s \notin S => source'.changed[s] = source.changed[s]
      PROVE  ApprovalCoversContent'
  <2>1. CASE ~IsDraft
    <3>1. draft' = draft
      BY <1>1, <2>1 DEF Propagate
    <3> QED
      BY <2>1, <3>1 DEF ApprovalCoversContent, IsDraft
  <2>2. CASE IsDraft
    <3>1. draft' = Advanced /\ review' = Reset(S)
      BY <1>1, <2>2 DEF Propagate
    <3>2. \A s \in Reviewed : Settled(s, {})
      <4>1. "details" \notin S => Basis'["details"] = Basis["details"]
        BY <1>1, <3>1, AdvancedType, SameDetails DEF Reviewed
      <4>2. "structure" \notin S => Basis'["structure"] = Basis["structure"]
        BY <1>1, SameStructure DEF Reviewed
      <4> QED
        BY <3>1, <4>1, <4>2 DEF Settled, Reviewed, Reset, Sections
    <3> QED
      BY <1>1, <2>2, <3>2, SettledCovers
  <2> QED
    BY <2>1, <2>2
<1>2. ASSUME NEW s \in Sections, NEW missed \in BOOLEAN,
             NEW reported \in BOOLEAN, ChangeActive(s, missed, reported)
      PROVE  ApprovalCoversContent'
  <2>1. missed = FALSE
    BY <1>0, <1>2 DEF ChangeActive
  <2>2. \A t \in Sections : t # s => source'.changed[t] = source.changed[t]
    BY <1>2 DEF ChangeActive, Changed, TypeOK
  <2>3. Propagate({s}, FALSE) /\ Track({}) /\ item' = item
    BY <1>2, <2>1 DEF ChangeActive
  <2> QED
    BY <1>1, <2>2, <2>3 DEF Reviewed, Sections
<1>3. ASSUME NEW end \in 0..1, NEW reported \in BOOLEAN,
             ChangeActiveDetails(end, reported)
      PROVE  ApprovalCoversContent'
  BY <1>1, <1>3 DEF ChangeActiveDetails, Reviewed, Sections
<1>4. CASE SaveResult
  <2>1. source'.changed = source.changed
    BY <1>4 DEF SaveResult, TypeOK
  <2>2. /\ draft' = draft /\ item' = item /\ review' = review /\ Track({})
    BY <1>4 DEF SaveResult, stored
  <2>3. /\ Basis'["details"] = Basis["details"]
        /\ Basis'["structure"] = Basis["structure"]
    BY <2>1, <2>2, SameDetails, SameStructure
  <2>4. CASE IsDraft
    BY <2>2, <2>3, <2>4, SettledCovers DEF Settled, Reviewed
  <2>5. CASE ~IsDraft
    BY <2>2, <2>5 DEF IsDraft, ApprovalCoversContent
  <2> QED
    BY <2>4, <2>5
<1> QED
  BY <1>2, <1>3, <1>4 DEF Others, EditWithOrdinaryEditor, ReplaceTriggers

\* An approved section says what it said when it was approved, and the Active
\* plan has not changed under it, with the ordinary editors kept off the
\* Draft and no second process on the database.
THEOREM ApprovalsCoverContent ==
    ASSUME ~Openers, ~Editors
    PROVE  Spec => []ApprovalCoversContent
<1>1. Init => ApprovalCoversContent
  BY DEF Init, ApprovalCoversContent, IsDraft
<1>2. TypeOK /\ PagesBehind /\ ApprovalCoversContent /\ [Next]_vars
        => ApprovalCoversContent'
  <2> SUFFICES ASSUME TypeOK, PagesBehind, ApprovalCoversContent, [Next]_vars
               PROVE  ApprovalCoversContent'
    OBVIOUS
  <2>1. ASSUME UNCHANGED <<draft, review, since>>
        PROVE  ApprovalCoversContent'
    BY <2>1 DEF ApprovalCoversContent, IsDraft
  <2>2. CASE CreateSuccessorDraft
    <3>1. review' = [s \in Sections |-> "needs_review"]
      BY <2>2 DEF CreateSuccessorDraft, StartDraft
    <3> QED
      BY <3>1 DEF ApprovalCoversContent, Sections
  <2>3. ASSUME NEW a \in Admins, LoadPage(a)
        PROVE  ApprovalCoversContent'
    BY <2>1, <2>3 DEF LoadPage, stored
  <2>4. CASE UNCHANGED vars
    BY <2>1, <2>4 DEF vars, stored, ghosts
  <2> QED
    BY <2>2, <2>3, <2>4, GuideCovers, OthersCover DEF Next
<1> QED
  BY <1>1, <1>2, LockInvariant, PTL DEF Spec

-----------------------------------------------------------------------------
(***************************************************************************)
(* Readiness.                                                              *)
(***************************************************************************)

\* While the triggers are in place, a change of the Active plan that nobody
\* decided on shows in its revision.
SourceRevisionShows ==
    /\ draft.cloned <= source.rev
    /\ since["active"] => draft.cloned < source.rev

LEMMA SourceShown ==
    ASSUME ~Openers
    PROVE  Spec => []SourceRevisionShows
<1>1. Init => SourceRevisionShows
  BY DEF Init, SourceRevisionShows, Concerns
<1>2. TypeOK /\ PagesBehind /\ SourceRevisionShows /\ [Next]_vars
        => SourceRevisionShows'
  <2> SUFFICES ASSUME TypeOK, PagesBehind, SourceRevisionShows, [Next]_vars
               PROVE  SourceRevisionShows'
    OBVIOUS
  <2>0. /\ draft.cloned \in Nat /\ source.rev \in Nat
        /\ Advanced.cloned = draft.cloned
    BY DEF TypeOK, Advanced
  <2>1. ASSUME draft'.cloned = draft.cloned, source' = source,
               NEW D, Track(D)
        PROVE  SourceRevisionShows'
    <3>1. since'["active"] => since["active"]
      BY <2>1 DEF Track, Concerns, Basis
    <3> QED
      BY <2>1, <3>1 DEF SourceRevisionShows
  <2>2. ASSUME draft'.cloned = draft.cloned, source'.rev = source.rev + 1
        PROVE  SourceRevisionShows'
    BY <2>0, <2>2 DEF SourceRevisionShows
  <2>3. ASSUME UNCHANGED <<draft, source, since>>
        PROVE  SourceRevisionShows'
    BY <2>3 DEF SourceRevisionShows
  <2>4. CASE CreateSuccessorDraft
    <3>1. /\ draft'.cloned = source.rev /\ source' = source
          /\ since' = [c \in Concerns |-> FALSE]
      BY <2>4 DEF CreateSuccessorDraft, StartDraft
    <3> QED
      BY <2>0, <3>1 DEF SourceRevisionShows, Concerns
  <2>5. ASSUME NEW a \in Admins, LoadPage(a)
        PROVE  SourceRevisionShows'
    BY <2>3, <2>5 DEF LoadPage, stored
  <2>6. ASSUME NEW a \in Admins, Guide(a)
        PROVE  SourceRevisionShows'
    <3>1. CASE ReviewStep(a)
      <4>1. draft'.cloned = draft.cloned
        BY <2>0, <3>1 DEF ReviewStep, UpdateDraftDetails, ReviewPlanSection,
           SaveReadinessOverride, SaveDraftBoardScope, Advanced, TypeOK
      <4>2. source' = source /\ \E D : Track(D)
        BY <3>1 DEF ReviewStep, UpdateDraftDetails, ReviewPlanSection,
           SaveReadinessOverride, SaveDraftBoardScope, Save
      <4> QED
        BY <2>1, <4>1, <4>2
    <3>2. ASSUME NEW b \in Bundles, ItemStep(a, b)
          PROVE  SourceRevisionShows'
      <4>1. \E new, S : Replace(a, b, new, S)
        BY <3>2 DEF ItemStep, AddDraftMeasureBundle, AddDraftTarget,
           CopyDraftTarget, UpdateDraftItem, ClassifyDraftQuestion,
           RecordDraftLineage, ArchiveDraftPriority
      <4>2. draft' = Advanced /\ source' = source /\ Track({})
        BY <4>1 DEF Replace, Save
      <4> QED
        BY <2>0, <2>1, <4>2
    <3>3. CASE CancelDraft(a) \/ \E k \in BOOLEAN : Activate(a, k)
      <4>1. draft'.cloned = draft.cloned /\ source' = source /\ Track({})
        BY <3>3 DEF CancelDraft, Activate, TypeOK
      <4> QED
        BY <2>1, <4>1
    <3> QED
      BY <2>6, <3>1, <3>2, <3>3 DEF Guide
  <2>7. CASE Others
    <3>0. Missed = {FALSE}
      BY DEF Missed, PagesBehind
    <3>1. \A S : Propagate(S, FALSE) => draft'.cloned = draft.cloned
      BY <2>0 DEF Propagate
    <3>2. ASSUME NEW s \in Sections, NEW missed \in BOOLEAN,
                 NEW reported \in BOOLEAN, ChangeActive(s, missed, reported)
          PROVE  SourceRevisionShows'
      <4>1. missed = FALSE
        BY <3>0, <3>2 DEF ChangeActive
      <4>2. source'.rev = source.rev + 1 /\ Propagate({s}, FALSE)
        BY <3>2, <4>1 DEF ChangeActive, Changed, TypeOK
      <4> QED
        BY <2>2, <3>1, <4>2
    <3>3. ASSUME NEW end \in 0..1, NEW reported \in BOOLEAN,
                 ChangeActiveDetails(end, reported)
          PROVE  SourceRevisionShows'
      <4>1. source'.rev = source.rev + 1 /\ Propagate(Sections, FALSE)
        BY <3>3 DEF ChangeActiveDetails, Changed, TypeOK
      <4> QED
        BY <2>2, <3>1, <4>1
    <3>4. CASE SaveResult
      <4>1. /\ draft' = draft /\ source'.rev = source.rev
            /\ source'.changed = source.changed /\ Track({})
        BY <3>4 DEF SaveResult, stored, TypeOK
      <4>2. since'["active"] => since["active"]
        BY <4>1 DEF Track, Concerns, Basis
      <4> QED
        BY <4>1, <4>2 DEF SourceRevisionShows
    <3>5. ASSUME NEW b \in Bundles, NEW w \in 0..1, NEW question \in BOOLEAN,
                 NEW ready \in BOOLEAN, NEW missed \in BOOLEAN,
                 EditWithOrdinaryEditor(b, w, question, ready, missed)
          PROVE  SourceRevisionShows'
      <4>1. draft'.cloned = draft.cloned /\ source' = source /\ Track({})
        BY <2>0, <3>5 DEF EditWithOrdinaryEditor
      <4> QED
        BY <2>1, <4>1
    <3>6. CASE ReplaceTriggers
      BY <3>6 DEF ReplaceTriggers
    <3> QED
      BY <2>7, <3>2, <3>3, <3>4, <3>5, <3>6 DEF Others
  <2>8. CASE UNCHANGED vars
    BY <2>3, <2>8 DEF vars, stored, ghosts
  <2> QED
    BY <2>4, <2>5, <2>6, <2>7, <2>8 DEF Next
<1> QED
  BY <1>1, <1>2, LockInvariant, PTL DEF Spec

\* A green readiness without exceptions means what it says: every Measure that
\* will be reported was reviewed, is defined and has an approved Target, and
\* nothing that was reviewed has changed since.
THEOREM ReadyIsReviewed ==
    ASSUME ~Openers, ~Editors
    PROVE  Spec => []ReadyMeansReviewed
<1>1. TypeOK /\ ApprovalCoversContent /\ SourceRevisionShows => ReadyMeansReviewed
  <2> SUFFICES ASSUME TypeOK, ApprovalCoversContent, SourceRevisionShows,
                      IsDraft, CanActivate, overrides = {}
               PROVE  /\ Live # {}
                      /\ \A b \in Live : item[b].reviewed /\ item[b].ready
                                         /\ item[b].target = "ready"
                      /\ ~since["details"] /\ ~since["structure"]
                      /\ ~since["active"]
    BY DEF ReadyMeansReviewed
  <2>1. \A k \in Keys : ~Requirements[k]
    BY DEF CanActivate, Unmet
  <2>2. /\ ~Requirements["minimum_plan_structure"]
        /\ ~Requirements["successor_review"]
        /\ ~Requirements["first_year_definition_coverage"]
        /\ ~Requirements["first_year_target_coverage"]
        /\ ~Requirements["source_changed_since_clone"]
    BY <2>1 DEF Keys
  <2>3. Live # {}
    BY <2>2 DEF Requirements
  <2>4. \A b \in Live : item[b].reviewed /\ item[b].ready
                        /\ item[b].target = "ready"
    BY <2>2 DEF Requirements, Unreviewed, Live, Exists, Covered
  <2>5. review["details"] = "approved" /\ review["structure"] = "approved"
    <3>1. review["details"] # "needs_review" /\ review["structure"] # "needs_review"
      BY <2>2 DEF Requirements, Unreviewed
    <3> QED
      BY <3>1 DEF TypeOK, Sections, Statuses
  <2>6. ~since["details"] /\ ~since["structure"]
    BY <2>5 DEF ApprovalCoversContent
  <2>7. ~since["active"]
    <3>1. draft.cloned = source.rev
      BY <2>2 DEF Requirements
    <3> QED
      BY <3>1 DEF SourceRevisionShows, TypeOK
  <2> QED
    BY <2>3, <2>4, <2>6, <2>7
<1> QED
  BY <1>1, TypeCorrect, ApprovalsCoverContent, SourceShown, PTL
=============================================================================
