------------------------------ MODULE BoardEditor ------------------------------
(***************************************************************************)
(* What Board accounts may see: the Board reporting scope of each plan     *)
(* (features/board-reporting/server.ts) and the Admin pages that replace   *)
(* it (BoardReportingEditorClient.tsx), while the catalog changes under    *)
(* both (Catalog) and a successor becomes the Active plan.                 *)
(*                                                                         *)
(* A scope's content is, by Priority, the Measures its focus statements    *)
(* link.  How they are divided among statements, titles and order are left *)
(* out; so is the review of a successor's scope, which is PlanDraft's.     *)
(* A refused save changes nothing, on either side.  A page offers what its *)
(* plan had when it was loaded: any of it here, the server checks it.      *)
(***************************************************************************)
EXTENDS Catalog

CONSTANTS
  Admins,         \* pages open on the editor
  NoPage,
  CatalogsFound,  \* the Priorities and Measures there may be to begin with
  DefaultBoard,   \* DEFAULT_BOARD_REPORTING_SCOPE, by Priority
  MaxRevision     \* bound: revisions of a scope

(* A catalog there may be: no Measure hangs below itself.                   *)
ASSUME BoardAssumption ==
  /\ MaxRevision \in Nat /\ MaxChanges \in Nat
  /\ \A found \in CatalogsFound :
       /\ DOMAIN found.priority \subseteq Priorities
       /\ found.priority \in [DOMAIN found.priority -> PriorityRow]
       /\ DOMAIN found.kpi \subseteq Kpis
       /\ found.kpi \in [DOMAIN found.kpi -> KpiRow]
       /\ Forest(found.kpi)

VARIABLES
  initialized,    \* meta: board_reporting_scope_initialized
  page,           \* by Admin: its plan and revision; history: is it stale?
  saved,          \* history: the content last accepted for a plan
  overwritten     \* history: has a stale page replaced what it did not show?

boardVars == <<board, initialized, page, saved, overwritten>>
boardEditorVars == <<catalogVars, boardVars>>

BoardRow == [live : BOOLEAN, links : SUBSET Kpis, past : SUBSET Kpis]
Page == [plan : {1, 2}, revision : 0 .. MaxRevision, stale : BOOLEAN]

Empty == [p \in {} |-> {}]

-----------------------------------------------------------------------------
(* Reading.                                                                 *)

LiveRows(rows) == {p \in DOMAIN rows : rows[p].live}
Stored(n) == [p \in LiveRows(board[n].rows) |-> board[n].rows[p].links]

(* The joins of readScope: an archived Priority or Measure stays for        *)
(* disclosure only, an inactive Measure for nobody.                         *)
LinkShown(k, p, disclosed) ==
  /\ k \in DOMAIN kpi /\ kpi[k].priority = p
  /\ IF disclosed THEN kpi[k].active \/ kpi[k].archived
                  ELSE kpi[k].active /\ ~kpi[k].archived

ReadScope(n, disclosed) ==
  [p \in {q \in DOMAIN Stored(n) :
            q \in DOMAIN priority /\ PlanOf[q] = n /\ (disclosed \/ ~priority[q].archived)} |->
     {k \in Stored(n)[p] : LinkShown(k, p, disclosed)}]

-----------------------------------------------------------------------------
(* Writing.                                                                 *)

(* The statements a Priority had are archived, also those that stayed below *)
(* a row that was itself archived.                                          *)
Written(rows, content) ==
  [p \in DOMAIN rows \cup DOMAIN content |->
     IF p \notin DOMAIN content THEN [rows[p] EXCEPT !.live = FALSE]
     ELSE [live |-> TRUE, links |-> content[p],
           past |-> IF p \in DOMAIN rows THEN LinksOf(rows[p]) ELSE {}]]

Available(p) == p \in DOMAIN priority /\ InActivePlan(p) /\ ~priority[p].archived
Linkable(k, p) ==
  k \in DOMAIN kpi /\ kpi[k].priority = p /\ kpi[k].active /\ ~kpi[k].archived

(* initializeDefaultScope: once, at the first read, from what is there.     *)
DefaultContent ==
  [p \in {q \in DOMAIN DefaultBoard : Available(q)} |->
     {k \in DefaultBoard[p] : Linkable(k, p)}]

InitializeDefaultScope ==
  /\ initialized' = TRUE
  /\ IF initialized \/ DOMAIN board[activePlan].rows # {}
       THEN UNCHANGED <<board, saved>>
       ELSE /\ board' = [board EXCEPT ![activePlan].rows = Written(@, DefaultContent)]
            /\ saved' = [saved EXCEPT ![activePlan] = DefaultContent]

(* getBoardReportingScope, by an overview, a report or the editor.          *)
ReadBoard ==
  /\ ~initialized
  /\ InitializeDefaultScope
  /\ UNCHANGED <<catalogVars, page, overwritten>>

(* getBoardReportingAdminModel; the client keeps it until it is left.       *)
LoadPage(a) ==
  /\ InitializeDefaultScope
  /\ page' = [page EXCEPT ![a] =
       [plan |-> activePlan, revision |-> board[activePlan].revision, stale |-> FALSE]]
  /\ UNCHANGED <<catalogVars, overwritten>>

(* validateReferences, of whatever the page offers.                         *)
ContentsOf(n) ==
  UNION {[P -> SUBSET DOMAIN kpi] :
           P \in SUBSET (OfPlan(n) \cap DOMAIN priority)}

ReferencesValid(content) ==
  \A p \in DOMAIN content :
    Available(p) /\ \A k \in content[p] : Linkable(k, p)

NextRevision_Same(r) == r

NextRevision(r) == r + 1

(* updateBoardReportingScope for the plan that is Active by then; the answer*)
(* may be lost.                                                             *)
SaveBoard(a, content) ==
  LET n == activePlan IN
  /\ page[a] # NoPage /\ board[n].revision < MaxRevision
  /\ page[a].revision = board[n].revision
  /\ ReferencesValid(content)
  /\ board' = [board EXCEPT ![n] =
       [revision |-> NextRevision(@.revision), rows |-> Written(@.rows, content)]]
  /\ \E answered \in BOOLEAN :
       page' = [b \in Admins |->
         IF page[b] = NoPage THEN NoPage
         ELSE IF b = a /\ answered
         THEN [page[b] EXCEPT !.revision = board'[n].revision, !.stale = page[b].plan # n]
         ELSE [page[b] EXCEPT !.stale = TRUE]]
  /\ saved' = [saved EXCEPT ![n] = content]
  /\ overwritten' =
       (overwritten \/ (page[a].stale /\ ~(page[a].plan # n /\ content = Empty)))
  /\ UNCHANGED <<catalogVars, initialized>>

(* The successor takes over; what its scope says was settled in its Draft.  *)
ActivateSuccessor ==
  /\ activePlan = 1 /\ activePlan' = 2
  /\ page' = [b \in Admins |->
       IF page[b] = NoPage THEN NoPage ELSE [page[b] EXCEPT !.stale = TRUE]]
  /\ UNCHANGED <<priority, kpi, changes, board, initialized, saved, overwritten>>

BoardEditorNext ==
  \/ CatalogStep /\ UNCHANGED boardVars
  \/ ReadBoard
  \/ \E a \in Admins : LoadPage(a)
  \/ \E a \in Admins : page[a] # NoPage /\ \E content \in ContentsOf(page[a].plan) :
       SaveBoard(a, content)
  \/ ActivateSuccessor

(* Nobody has read the scope yet, or it was emptied since an Admin linked   *)
(* what there is below one Priority; the successor has or has not a         *)
(* statement about one of its own.                                          *)
BoardEditorInit ==
  /\ activePlan = 1 /\ changes = 0
  /\ \E found \in CatalogsFound : priority = found.priority /\ kpi = found.kpi
  /\ \E once \in {Empty} \cup {[p \in {q} |-> KpisOf(q)] : q \in OfPlan(1) \cap DOMAIN priority},
        next \in {Empty} \cup {[p \in {q} |-> {}] : q \in OfPlan(2) \cap DOMAIN priority} :
       /\ board = <<[revision |-> 0, rows |-> Written(Written(Empty, once), Empty)],
                   [revision |-> 0, rows |-> Written(Empty, next)]>>
       /\ saved = <<Empty, next>>
       /\ initialized = (once # Empty)
  /\ page = [a \in Admins |-> NoPage]
  /\ overwritten = FALSE

BoardEditorSpec == BoardEditorInit /\ [][BoardEditorNext]_boardEditorVars

-----------------------------------------------------------------------------

(* The type invariant.                                                      *)
BoardTypeOK ==
  /\ activePlan \in {1, 2} /\ changes \in 0 .. MaxChanges
  /\ DOMAIN priority \subseteq Priorities /\ priority \in [DOMAIN priority -> PriorityRow]
  /\ DOMAIN kpi \subseteq Kpis /\ kpi \in [DOMAIN kpi -> KpiRow]
  /\ DOMAIN board = {1, 2} /\ DOMAIN saved = {1, 2}
  /\ \A n \in {1, 2} : LET rows == board[n].rows IN
       /\ board[n] = [revision |-> board[n].revision, rows |-> rows]
       /\ board[n].revision \in 0 .. MaxRevision
       /\ DOMAIN rows \subseteq Priorities /\ rows \in [DOMAIN rows -> BoardRow]
  /\ initialized \in BOOLEAN /\ overwritten \in BOOLEAN
  /\ page \in [Admins -> Page \cup {NoPage}]

(* What is disclosed is what an Admin last approved, link for link, except  *)
(* Measures that are switched off; what the Board's overview shows leaves   *)
(* out what is archived as well.  No move or deletion in the catalog and no *)
(* earlier save shows through (getBoardReportingDisclosureScope).           *)
BoardShowsWhatWasSaved ==
  LET off == {k \in DOMAIN kpi : ~kpi[k].active /\ ~kpi[k].archived}
      away == {k \in DOMAIN kpi : ~kpi[k].active \/ kpi[k].archived}
      put == {p \in DOMAIN priority : priority[p].archived}
      less(content, P, K) ==
        [p \in DOMAIN content \ P |-> content[p] \ K]
  IN  \A n \in {1, 2} :
        /\ ReadScope(n, TRUE) = less(saved[n], {}, off)
        /\ ReadScope(n, FALSE) = less(saved[n], put, away)

(* An accepted save replaces what was approved when its page was loaded, not*)
(* what somebody else approved meanwhile; a page of the plan before can at  *)
(* most empty it (expectedRevision, which names no plan).                   *)
NoApprovalOverwritten == ~overwritten

BoardStands == BoardTypeOK /\ BoardShowsWhatWasSaved /\ NoApprovalOverwritten

(* The catalog below it stands as well.                                     *)
CatalogStands == []HierarchyIsForest /\ [][DeletionSpares]_boardEditorVars
=============================================================================
