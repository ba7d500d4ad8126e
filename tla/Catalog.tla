-------------------------------- MODULE Catalog --------------------------------
(***************************************************************************)
(* The catalog of Priorities and Measures as Admins change it through      *)
(* features/catalog/server.ts: legacy Measures that hang below one another *)
(* (kpis.parent_id) and may be deleted, configured ones that are only ever *)
(* archived, and what else in the database holds on to them.               *)
(*                                                                         *)
(* One action is one SQLite transaction.  There are two plans, the Active  *)
(* one and its successor.  A Measure is strategic once it has a membership *)
(* or a definition, which are never deleted; whether it has values from    *)
(* before definitions existed was settled long ago.  Names, order, units   *)
(* and audit rows are left out.  A deleted id stands for a new one when it *)
(* is used again: nothing may refer to it any more.                        *)
(***************************************************************************)
EXTENDS Naturals, FiniteSets, Functions

CONSTANTS
  Priorities,     \* categories that may come to exist
  PlanOf,         \* the plan of each of them: 1, or its successor 2
  Kpis,           \* Measures that may come to exist
  NoKpi,          \* parent_id IS NULL
  MaxChanges      \* bound: changes of the catalog

ASSUME CatalogAssumption ==
  /\ PlanOf \in [Priorities -> {1, 2}]
  /\ NoKpi \notin Kpis /\ IsFiniteSet(Kpis)

VARIABLES
  activePlan,
  priority,       \* categories, by id
  kpi,            \* kpis, by id
  changes,        \* how many there were
  board           \* what Board reporting stores, by plan (BoardEditor)

catalogVars == <<activePlan, priority, kpi, changes>>

PriorityRow == [archived : BOOLEAN, goals : BOOLEAN]

(* was: the is_active its latest archive event recorded, while it matters.  *)
KpiRow ==
  [priority : Priorities, parent : Kpis \cup {NoKpi}, active : BOOLEAN,
   archived : BOOLEAN, was : BOOLEAN, strategic : BOOLEAN, entries : BOOLEAN]

OfPlan(n) == {p \in Priorities : PlanOf[p] = n}
InActivePlan(p) == PlanOf[p] = activePlan

(* The database keeps closed plans as they were (the plan-state triggers).  *)
Editable(p) == PlanOf[p] >= activePlan

KpisOf(p) == {k \in DOMAIN kpi : kpi[k].priority = p}

(* WITH RECURSIVE descendants: K and what hangs below, in any Priority - the *)
(* smallest set that what hangs below a member belongs to.                  *)
Closed(rows, S) == \A k \in DOMAIN rows : rows[k].parent \in S => k \in S

Below(rows, K) ==
  {k \in Kpis : \A S \in SUBSET Kpis : K \subseteq S /\ Closed(rows, S) => k \in S}

Descendants(K) == Below(kpi, K)

Forest(rows) ==
  \A k \in DOMAIN rows : k \notin Below(rows, {c \in DOMAIN rows : rows[c].parent = k})

(* board_reporting_statement_kpis: links of archived statements remain.     *)
LinksOf(row) == row.past \cup row.links
BoardLinked ==
  UNION {UNION {LinksOf(board[n].rows[p]) : p \in DOMAIN board[n].rows} : n \in {1, 2}}

-----------------------------------------------------------------------------
(* What is archived rather than deleted.                                    *)

IsStrategicKPI_ByDefinition(k) == \E d \in Descendants({k}) : kpi[d].strategic

IsStrategicKPI(k) ==
  \E d \in Descendants({k}) : kpi[d].strategic \/ d \in BoardLinked

IsStrategicCategory(p) ==
  \/ priority[p].goals
  \/ \E n \in {1, 2} : p \in DOMAIN board[n].rows
  \/ \E d \in Descendants(KpisOf(p)) : kpi[d].strategic

Dependents_OwnOnly(K) == {k \in K : kpi[k].entries}

(* countKPIDependents, countCategoryDependents.                             *)
Dependents(K) == {k \in Descendants(K) : kpi[k].entries}

(* What SQLite lets a cascade take: no row that a RESTRICT refers to, none  *)
(* of a closed plan.                                                        *)
Cascades(K) ==
  \A k \in Descendants(K) :
    ~kpi[k].strategic /\ k \notin BoardLinked /\ Editable(kpi[k].priority)

Without(rows, ids) == [x \in DOMAIN rows \ ids |-> rows[x]]

-----------------------------------------------------------------------------
(* Measures.                                                                *)

(* createStrategicMeasure: the Measure with its membership and definition.  *)
CreateStrategicMeasure(k, p) ==
  /\ k \notin DOMAIN kpi
  /\ InActivePlan(p) /\ priority[p].goals /\ ~priority[p].archived
  /\ kpi' = [x \in DOMAIN kpi \cup {k} |->
       IF x # k THEN kpi[x]
       ELSE [priority |-> p, parent |-> NoKpi, active |-> TRUE, archived |-> FALSE,
             was |-> TRUE, strategic |-> TRUE, entries |-> FALSE]]
  /\ UNCHANGED <<activePlan, priority>>

(* assertKpiUpdateIntegrity.  A destination may be of the successor.        *)
MayMove(k, p) ==
  p # kpi[k].priority => ~IsStrategicKPI(k) /\ ~priority[p].archived /\ Editable(p)

(* The walk up from the new parent does not meet the Measure.               *)
MayHang(k, parent) ==
  parent # NoKpi => parent \in DOMAIN kpi /\ parent \notin Descendants({k})

UpdateKPI(k, p, parent, active) ==
  /\ InActivePlan(kpi[k].priority)
  /\ MayMove(k, p) /\ (parent # kpi[k].parent => MayHang(k, parent))
  /\ kpi' = [kpi EXCEPT ![k].priority = p, ![k].parent = parent, ![k].active = active]
  /\ UNCHANGED <<activePlan, priority>>

ArchiveKPI(k) ==
  /\ ~kpi[k].archived /\ Editable(kpi[k].priority)
  /\ kpi' = [kpi EXCEPT ![k].archived = TRUE, ![k].was = kpi[k].active, ![k].active = FALSE]
  /\ UNCHANGED <<activePlan, priority>>

(* previousKpiActiveState.                                                  *)
RestoreKPI(k) ==
  /\ kpi[k].archived /\ Editable(kpi[k].priority)
  /\ kpi' = [kpi EXCEPT ![k].archived = FALSE, ![k].active = kpi[k].was,
                         ![k].was = TRUE]
  /\ UNCHANGED <<activePlan, priority>>

DeleteKPI(k) ==
  /\ Dependents({k}) = {} /\ Cascades({k})
  /\ kpi' = Without(kpi, Descendants({k}))
  /\ UNCHANGED <<activePlan, priority>>

RetireOrDeleteKPI(k) ==
  \/ IsStrategicKPI(k) /\ ArchiveKPI(k)
  \/ ~IsStrategicKPI(k) /\ DeleteKPI(k)

-----------------------------------------------------------------------------
(* Priorities.                                                              *)

CreateCategory(p) ==
  /\ p \notin DOMAIN priority /\ InActivePlan(p)
  /\ priority' = [x \in DOMAIN priority \cup {p} |->
       IF x = p THEN [archived |-> FALSE, goals |-> FALSE] ELSE priority[x]]
  /\ UNCHANGED <<activePlan, kpi>>

ArchiveCategory(p) ==
  /\ ~priority[p].archived /\ Editable(p)
  /\ priority' = [priority EXCEPT ![p].archived = TRUE]
  /\ UNCHANGED <<activePlan, kpi>>

RestoreCategory(p) ==
  /\ priority[p].archived /\ Editable(p)
  /\ priority' = [priority EXCEPT ![p].archived = FALSE]
  /\ UNCHANGED <<activePlan, kpi>>

DeleteCategory(p) ==
  /\ Dependents(KpisOf(p)) = {} /\ Cascades(KpisOf(p)) /\ Editable(p)
  /\ priority' = Without(priority, {p})
  /\ kpi' = Without(kpi, Descendants(KpisOf(p)))
  /\ UNCHANGED activePlan

RetireOrDeleteCategory(p) ==
  \/ IsStrategicCategory(p) /\ ArchiveCategory(p)
  \/ ~IsStrategicCategory(p) /\ DeleteCategory(p)

CatalogChange ==
  \/ \E k \in Kpis \ DOMAIN kpi, p \in DOMAIN priority : CreateStrategicMeasure(k, p)
  \/ \E k \in DOMAIN kpi :
       \/ \E p \in DOMAIN priority, parent \in DOMAIN kpi \cup {NoKpi}, active \in BOOLEAN :
            UpdateKPI(k, p, parent, active)
       \/ ArchiveKPI(k) \/ RestoreKPI(k) \/ RetireOrDeleteKPI(k)
  \/ \E p \in Priorities : CreateCategory(p)
  \/ \E p \in DOMAIN priority :
       ArchiveCategory(p) \/ RestoreCategory(p) \/ RetireOrDeleteCategory(p)

CatalogStep == changes < MaxChanges /\ changes' = changes + 1 /\ CatalogChange

-----------------------------------------------------------------------------

(* No Measure hangs below itself, however often Measures are hung elsewhere *)
(* (assertKpiUpdateIntegrity): every walk over the hierarchy ends.          *)
HierarchyIsForest == Forest(kpi)

(* A deletion takes no value nobody was asked about, nor a configured or    *)
(* Board Measure, wherever in the hierarchy the cascade finds it            *)
(* (countCategoryDependents, retireOrDeleteKPI).                            *)
DeletionSpares ==
  \A k \in DOMAIN kpi \ DOMAIN kpi' :
    ~kpi[k].entries /\ ~kpi[k].strategic /\ k \notin BoardLinked
=============================================================================
