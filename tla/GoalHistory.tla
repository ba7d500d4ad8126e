------------------------------ MODULE GoalHistory ------------------------------
(***************************************************************************)
(* One Goal of the Active plan over the years: the effective-dated         *)
(* versions of its completion rule (strategic_goals), the Measures that    *)
(* count towards each of them (goal_kpis), and the years for which those   *)
(* Measures have results - while Admins version the rule and the           *)
(* memberships, archive and restore the Goal, its Measures and its         *)
(* Priority, and move the years of the plan (configuration-editing.ts,     *)
(* mutations.ts, catalog/server.ts, installation/server.ts).               *)
(*                                                                         *)
(* One action is one SQLite transaction.  A request may carry any revision *)
(* or none, so that every request is considered here.  A role stands for   *)
(* is_required and weight: 0 is informational.  Every membership has an    *)
(* end: no operation leaves effective_to_year NULL any more.  Definitions  *)
(* and Targets of the Measures are MeasureHistory's; they can only forbid  *)
(* more.                                                                   *)
(***************************************************************************)
EXTENDS Naturals, FiniteSets

CONSTANTS
  MaxYear,      \* bound: the years are 1..MaxYear
  Versions,     \* versions of the Goal that may come to exist
  Measures,     \* Measures of its Priority that may come to exist
  Roles,        \* what a Measure may count for
  Rules,        \* completion rules: [type, count], count 0 where there is none
  MaxResults,   \* bound: years and Measures with a result
  MaxMembers,   \* bound: memberships
  Narrowing     \* bound: may the plan give up years it had?

ASSUME GoalAssumption ==
  /\ MaxYear \in Nat \ {0}
  /\ Roles \subseteq Nat /\ 1 \in Roles
  /\ \A r \in Rules : /\ r.count \in Nat
                      /\ r.type = "threshold_count" \/ r.count = 0
  /\ IsFiniteSet(Measures)

VARIABLES
  plan,         \* its years
  goal,         \* strategic_goals
  members,      \* goal_kpis
  measure,      \* kpis
  priority,     \* is the Priority not archived?
  results       \* <<measure, year>> for which values are recorded

vars == <<plan, goal, members, measure, priority, results>>

Years == 1 .. MaxYear
Statuses == {"draft", "ready"}   \* ready: calculations use it (ready, active)

Absent == [state |-> "absent"]

Covers(row, y) == row.from <= y /\ y <= row.to
Meets(row, from, to) == row.from <= to /\ from <= row.to
Lower(a, b) == IF a < b THEN a ELSE b
Higher(a, b) == IF a > b THEN a ELSE b

Existing == {g \in Versions : goal[g] # Absent}
Live(g) == goal[g].state = "live"
Editable(g) == Live(g) /\ priority

(* kpiHasHistoricalValuesInRange.                                           *)
HasResults(m, from, to) == \E r \in results : r[1] = m /\ from <= r[2] /\ r[2] <= to

(* A version's required Measures have results in these years of it,         *)
(* archived ones included.                                                  *)
(* Mutated form: only those of memberships that begin in those years.       *)
HasHistory_NewMembersOnly(g, from, to) ==
  \E x \in members :
    /\ x.goal = g /\ x.role > 0 /\ from <= x.from
    /\ HasResults(x.measure, x.from, Lower(Lower(goal[g].to, to), x.to))
HasHistory(g, from, to) ==
  \E x \in members :
    /\ x.goal = g /\ x.role > 0
    /\ HasResults(x.measure, Higher(Higher(goal[g].from, from), x.from),
                             Lower(Lower(goal[g].to, to), x.to))

Required(M, g, y) == {x \in M : x.goal = g /\ x.role > 0 /\ Covers(x, y)}

(* A count of required Measures that every one of these years can reach.    *)
(* Mutated form: that some year can.                                        *)
Satisfiable_SomeYear(rule, M, g, from, to) ==
  \E y \in from .. to : rule.count <= Cardinality(Required(M, g, y))
Satisfiable(rule, M, g, from, to) ==
  \A y \in from .. to : rule.count <= Cardinality(Required(M, g, y))

(* A rule judged by hand has a status from the first, which is a result.    *)
Judged(g) == goal[g].rule.type = "manual_status"

-----------------------------------------------------------------------------
(* The Goal.                                                                *)

Version(from, to, rule, status) ==
  [state |-> "live", from |-> from, to |-> to, rule |-> rule, status |-> status]

Reinterprets(g, rule, status) ==
  \/ rule # goal[g].rule
  \/ goal[g].status = "ready" /\ status # "ready"

UpdateGoal(g, rule, status) ==
  /\ Editable(g)
  /\ Reinterprets(g, rule, status) =>
       ~HasHistory(g, goal[g].from, goal[g].to) /\ ~Judged(g)
  /\ Satisfiable(rule, members, g, goal[g].from, goal[g].to)
  /\ goal' = [goal EXCEPT ![g].rule = rule, ![g].status = status]
  /\ UNCHANGED <<plan, members, measure, priority, results>>

(* The memberships of a version from a year on, as its successor's own, and *)
(* those that began earlier, cut.  (One that begins later also stays on the *)
(* predecessor, where it counts for nothing.)                               *)
(* Mutated form: only those that hold in the year the successor starts in.  *)
Carried(g, start) ==
  {x \in members : x.goal = g /\ Meets(x, start, goal[g].to)}
Inherited_Holding(g, new, start) ==
  {[x EXCEPT !.goal = new, !.from = start, !.to = Lower(goal[g].to, x.to)] :
     x \in {x \in Carried(g, start) : Covers(x, start)}}
Inherited(g, new, start) ==
  {[x EXCEPT !.goal = new, !.from = Higher(start, x.from), !.to = Lower(goal[g].to, x.to)] :
     x \in Carried(g, start)}
Cut(g, start) ==
  {IF x \in Carried(g, start) /\ x.from < start THEN [x EXCEPT !.to = start - 1] ELSE x :
     x \in members}

(* Mutated form: the predecessor keeps the year the successor starts in.    *)
PredecessorEnd_Shared(start) == start
PredecessorEnd(start) == start - 1

CreateSuccessorGoal(g, new, start, rule, status) ==
  /\ Editable(g) /\ goal[new] = Absent
  /\ start <= plan.end
  /\ goal[g].from < start /\ start <= goal[g].to
  /\ ~HasHistory(g, start, goal[g].to)
  /\ Satisfiable(rule, members, g, start, goal[g].to)
  /\ goal' = [goal EXCEPT ![g].to = PredecessorEnd(start),
                          ![new] = Version(start, goal[g].to, rule, status)]
  /\ members' = Cut(g, start) \cup Inherited(g, new, start)
  /\ Cardinality(members') <= MaxMembers
  /\ UNCHANGED <<plan, measure, priority, results>>

ArchiveGoal(g) ==
  /\ Live(g) /\ priority
  /\ goal' = [goal EXCEPT ![g].state = "archived"]
  /\ UNCHANGED <<plan, members, measure, priority, results>>

RestoreGoal(g) ==
  /\ goal[g].state = "archived" /\ priority
  /\ goal' = [goal EXCEPT ![g].state = "live"]
  /\ UNCHANGED <<plan, members, measure, priority, results>>

-----------------------------------------------------------------------------
(* Its Measures.                                                            *)

Member(g, m, from, to, role) ==
  [goal |-> g, measure |-> m, from |-> from, to |-> to, role |-> role]

(* createStrategicMeasure: a Measure is created as a member of a Goal, from *)
(* any of its years on.                                                     *)
CreateMeasure(m, g, from) ==
  /\ measure[m] = "absent"
  /\ Editable(g) /\ Covers(goal[g], from)
  /\ measure' = [measure EXCEPT ![m] = "live"]
  /\ members' = members \cup {Member(g, m, from, goal[g].to, 1)}
  /\ Cardinality(members') <= MaxMembers
  /\ UNCHANGED <<plan, goal, priority, results>>

MemberEditable(x) == Editable(x.goal) /\ measure[x.measure] = "live"

MemberHasHistory(x, from) ==
  HasResults(x.measure, Higher(from, goal[x.goal].from), Lower(x.to, goal[x.goal].to))

UpdateMembership(x, role) ==
  LET changed == (members \ {x}) \cup {[x EXCEPT !.role = role]} IN
  /\ MemberEditable(x)
  /\ role # x.role
  /\ ~MemberHasHistory(x, x.from)
  /\ members' = changed
  /\ Satisfiable(goal[x.goal].rule, changed, x.goal, goal[x.goal].from, goal[x.goal].to)
  /\ UNCHANGED <<plan, goal, measure, priority, results>>

Split(x, start, role) ==
  {[x EXCEPT !.to = start - 1], [x EXCEPT !.from = start, !.role = role]}

CreateSuccessorMembership(x, start, role) ==
  LET others == {y \in members \ {x} : y.goal = x.goal /\ y.measure = x.measure}
      changed == (members \ {x}) \cup Split(x, start, role)
      row == goal[x.goal]
  IN
  /\ MemberEditable(x)
  /\ start <= plan.end
  /\ x.from < start /\ start <= x.to /\ start <= row.to
  /\ ~MemberHasHistory(x, start)
  /\ ~ \E y \in others : Meets(y, start, x.to)
  /\ members' = changed
  /\ Satisfiable(row.rule, changed, x.goal, row.from, row.to)
  /\ Cardinality(members') <= MaxMembers
  /\ UNCHANGED <<plan, goal, measure, priority, results>>

(* archiveKPI, restoreKPI; archiveCategory, restoreCategory: nothing below  *)
(* is touched.                                                              *)
ArchiveOrRestoreMeasure(m) ==
  /\ measure[m] # "absent"
  /\ measure' = [measure EXCEPT ![m] = IF @ = "live" THEN "archived" ELSE "live"]
  /\ UNCHANGED <<plan, goal, members, priority, results>>

ArchiveOrRestorePriority ==
  /\ priority' = ~priority
  /\ UNCHANGED <<plan, goal, members, measure, results>>

(* Data Entry: the Goal is not asked.                                       *)
EnterResult(m, y) ==
  /\ measure[m] = "live" /\ priority
  /\ Covers([from |-> plan.start, to |-> plan.end], y)
  /\ results' = results \cup {<<m, y>>}
  /\ Cardinality(results') <= MaxResults
  /\ UNCHANGED <<plan, goal, members, measure, priority>>

DeleteResult(r) ==
  /\ measure[r[1]] = "live" /\ priority
  /\ results' = results \ {r}
  /\ UNCHANGED <<plan, goal, members, measure, priority>>

-----------------------------------------------------------------------------
(* The years of the plan.                                                   *)

(* assertPlanRangeCanChange: what is live stays inside.                     *)
RangeAllowed(start, end) ==
  /\ \A g \in Existing : Live(g) => start <= goal[g].from /\ goal[g].to <= end
  /\ \A x \in members : Live(x.goal) => start <= x.from /\ x.to <= end
  /\ \A r \in results : start <= r[2] /\ r[2] <= end

(* extendPlanBoundaryCoverage: what is live and reaches the boundary        *)
(* follows it.                                                              *)
Stretched(row, start, end) ==
  [row EXCEPT !.from = IF start < plan.start /\ @ = plan.start THEN start ELSE @,
              !.to = IF end > plan.end /\ @ = plan.end THEN end ELSE @]
MembersStretched(start, end) ==
  {IF ~Live(x.goal) THEN x
   ELSE [x EXCEPT
           !.from = IF goal[x.goal].from = plan.start THEN Stretched(x, start, end).from ELSE @,
           !.to = IF goal[x.goal].to = plan.end THEN Stretched(x, start, end).to ELSE @] :
     x \in members}

ChangePlanRange(start, end) ==
  /\ start <= end /\ [start |-> start, end |-> end] # plan
  /\ Narrowing \/ (start <= plan.start /\ plan.end <= end)
  /\ RangeAllowed(start, end)
  /\ goal' = [g \in Versions |-> IF Live(g) THEN Stretched(goal[g], start, end) ELSE goal[g]]
  /\ members' = MembersStretched(start, end)
  /\ plan' = [start |-> start, end |-> end]
  /\ UNCHANGED <<measure, priority, results>>

-----------------------------------------------------------------------------
(* A plan in use: one version of the Goal, for all of its years.            *)
Init ==
  /\ plan \in [start : Years, end : Years] /\ plan.start < plan.end
  /\ \E g \in Versions, rule \in Rules, status \in Statuses, S \in SUBSET Measures :
     \E role \in [S -> Roles] :
       /\ goal = [h \in Versions |-> IF h = g THEN Version(plan.start, plan.end, rule, status)
                                     ELSE Absent]
       /\ members = {Member(g, m, plan.start, plan.end, role[m]) : m \in S}
       /\ measure = [m \in Measures |-> IF m \in S THEN "live" ELSE "absent"]
       /\ rule.count <= Cardinality({m \in S : role[m] > 0})
  /\ priority = TRUE
  /\ results = {}

GoalStep ==
  \E g \in Existing :
    \/ \E rule \in Rules, status \in Statuses :
         \/ UpdateGoal(g, rule, status)
         \/ \E new \in Versions, start \in Years : CreateSuccessorGoal(g, new, start, rule, status)
    \/ ArchiveGoal(g)
    \/ RestoreGoal(g)

MemberStep ==
  \E x \in members, role \in Roles :
    \/ UpdateMembership(x, role)
    \/ \E start \in Years : CreateSuccessorMembership(x, start, role)

MeasureStep ==
  \E m \in Measures :
    \/ \E g \in Existing, from \in Years : CreateMeasure(m, g, from)
    \/ ArchiveOrRestoreMeasure(m)
    \/ \E y \in Years : EnterResult(m, y)

Next ==
  \/ GoalStep
  \/ MemberStep
  \/ MeasureStep
  \/ ArchiveOrRestorePriority
  \/ \E r \in results : DeleteResult(r)
  \/ \E start, end \in Years : ChangePlanRange(start, end)

Spec == Init /\ [][Next]_vars

-----------------------------------------------------------------------------
PlanRanges == [start : Years, end : Years]
GoalRows ==
  [state : {"live", "archived"}, from : Years, to : Years, rule : Rules, status : Statuses]
MemberRows == [goal : Versions, measure : Measures, from : Years, to : Years, role : Roles]

(* The rows of the plan, its Goal, its memberships and its Measures hold    *)
(* values of their types.                                                   *)
TypeOK ==
  /\ plan \in PlanRanges
  /\ goal \in [Versions -> GoalRows \cup {Absent}]
  /\ members \subseteq MemberRows
  /\ measure \in [Measures -> {"absent", "live", "archived"}]
  /\ priority \in BOOLEAN
  /\ results \subseteq Measures \X Years

(* Properties.                                                              *)

(* What year y is judged by, archived or not: the rules of the Goal, and    *)
(* what a Measure counts for.                                               *)
Judging(y) == {g \in Existing : Covers(goal[g], y)}
RulesOf(y) == {goal[g].rule : g \in Judging(y)}
RolesOf(m, y) == {x.role : x \in {x \in members : /\ x.measure = m /\ Covers(x, y)
                                                  /\ x.goal \in Judging(y)}}

(* "one effective goal for each plan year" (createSuccessorStrategicGoal):  *)
(* no year is judged by two versions of the Goal.                           *)
OneVersionPerYear ==
  \A g, h \in Existing : Live(g) /\ Live(h) /\ g # h =>
    ~Meets(goal[g], goal[h].from, goal[h].to)

(* A Measure counts once for a version in a year, however its memberships   *)
(* are split, inherited and stretched.                                      *)
OneMembershipPerYear ==
  \A x, y \in members : x.goal = y.goal /\ x.measure = y.measure /\ x # y =>
    ~Meets(x, y.from, y.to)

(* So every Measure counts at most once in a year of the plan.              *)
OneCountPerYear == OneVersionPerYear /\ OneMembershipPerYear

(* "A threshold-count completion rule is only meaningful when the threshold *)
(* is reachable in every year of the goal"                                  *)
(* (assertThresholdCountSatisfiable): it is, whatever happens to the        *)
(* memberships and to the years.                                            *)
ThresholdReachable ==
  \A g \in Existing : Satisfiable(goal[g].rule, members, g, goal[g].from, goal[g].to)

(* A year with results keeps the rule they were recorded under, and a rule  *)
(* calculations use stays in use; a rule judged by hand stays that.         *)
ReportedYearsKeepRule ==
  [][\A y \in Years :
       (\E m \in Measures : <<m, y>> \in results /\ RolesOf(m, y) \ {0} # {}) =>
         /\ RulesOf(y)' = RulesOf(y)
         /\ \A g \in Judging(y) : goal[g].status = "ready" => goal'[g].status = "ready"]_vars

(* A Measure with a result for a year keeps what it counts for in that      *)
(* year.                                                                    *)
ReportedMeasuresKeepRole ==
  [][\A r \in results :
       RolesOf(r[1], r[2]) # {} => RolesOf(r[1], r[2])' = RolesOf(r[1], r[2])]_vars

(* Both: what a reported year was judged by, and by which Measures, stands. *)
ReportedYearsStand == ReportedYearsKeepRule /\ ReportedMeasuresKeepRole

(* Versioning the Goal takes every Measure along: in each year of the plan  *)
(* the same Measures count for the same.                                    *)
MembersFollow ==
  [][Existing' # Existing =>
       \A m \in Measures, y \in plan.start .. plan.end : RolesOf(m, y)' = RolesOf(m, y)]_vars

=============================================================================
