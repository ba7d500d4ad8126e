------------------------------ MODULE Summary ------------------------------
(***************************************************************************)
(* From stored results to the dashboard: the calculated actuals of a       *)
(* Measure (strategy-actuals.ts, strategy-actuals-server.ts), the target   *)
(* that applies in a year (target-policy.ts), the year-to-date and plan    *)
(* figures (strategy-summary.ts) and the completion of its Goal            *)
(* (goal-completion.ts).                                                   *)
(*                                                                         *)
(* A Measure m is what ResultRules says, with status, baseline, direction, *)
(* targets, method (of aggregation) and components.  An actual is a stored *)
(* period - year, period type and index - with the kernel's result.        *)
(***************************************************************************)
EXTENDS ResultRules

PeriodTypes == <<"monthly", "quarterly", "annual", "cumulative", "one_time">>
PeriodRank(type) == CHOOSE i \in DOMAIN PeriodTypes : PeriodTypes[i] = type
SortKey(a) == PeriodRank(a.type) * 100 + a.index

LastBy(rows, Key(_)) == CHOOSE r \in rows : \A s \in rows : Key(s) <= Key(r)
FirstBy(rows, Key(_)) == CHOOSE r \in rows : \A s \in rows : Key(r) <= Key(s)

-----------------------------------------------------------------------------
(* The target of a year.                                                    *)

NormalStatus(status) ==
  IF status \in {"needs_definition", "ready", "active"} THEN status ELSE "needs_target"

Open(status) == NormalStatus(status) \in {"needs_definition", "needs_target"}

TargetDecision(t, kind, value, parent) ==
  LET status == IF Open(parent) \/ t = Null THEN NormalStatus(parent)
                ELSE IF Open(t.status) THEN NormalStatus(t.status)
                ELSE IF value = Null THEN "needs_definition"
                ELSE NormalStatus(parent)
      shown == CASE status = "needs_definition" -> status
                 [] status # "needs_definition" /\ (status = "needs_target" \/ t = Null) ->
                      "target_not_finalized"
                 [] OTHER -> "not_started"
  IN  [kind |-> kind, target |-> t, value |-> value, status |-> status,
       progressStatus |-> shown]

Policy(yearly, plan) ==
  [annual |-> yearly, fullPlan |-> plan,
   effective |-> IF yearly.target = Null THEN plan ELSE yearly]

(* The annual target of the year; for the plan, the nearest target from the *)
(* year on, else the latest before it; the lower id where years tie.        *)
TargetPolicy(targets, year, type, parent) ==
  LET live == {t \in targets : ~t.archived}
      annual == {t \in live : t.scope = "annual" /\ t.year = year}
      ahead == {t \in live : t.scope = "full_plan" /\ t.targetYear >= year}
      behind == {t \in live : t.scope = "full_plan" /\ t.targetYear < year}
      nearest(ts) == FirstBy(ts, LAMBDA t : t.targetYear * 100 + t.id)
      latest(ts) == LastBy(ts, LAMBDA t : t.targetYear * 100 - t.id)
      decided(t, kind) ==
        TargetDecision(t, kind, IF t = Null THEN Null ELSE ConfiguredTargetValue(t, type), parent)
      yearly == IF annual = {} THEN <<Null, Null>> ELSE <<nearest(annual), "annual">>
      plan == IF ahead # {} THEN <<nearest(ahead), "future_full_plan">>
              ELSE IF behind # {} THEN <<latest(behind), "past_full_plan">>
              ELSE <<Null, Null>>
  IN  Policy(decided(yearly[1], yearly[2]), decided(plan[1], plan[2]))

-----------------------------------------------------------------------------
(* Calculated actuals.  A stored result s: year, type, index, row, and the  *)
(* component it belongs to (Null for a Measure of one input).               *)

EmptyRow ==
  [value |-> Null, completed |-> Null, milestone |-> Null, num |-> Null, den |-> Null,
   raw |-> [f \in DOMAIN NoAverage \ {"method"} |-> Null]]

SamePeriod(s, r) == s.type = r.type /\ s.index = r.index

(* Last year's value of the same period, else the Measure's own baseline.   *)
PreviousValue(stored, s, start, otherwise) ==
  LET before == {r \in stored : /\ r.year = s.year - 1 /\ r.year >= start
                                /\ SamePeriod(r, s) /\ r.component = s.component
                                /\ Given(r.row.value)}
  IN  IF before = {} THEN otherwise ELSE (CHOOSE r \in before : TRUE).row.value

PolicyBaseline(policy, otherwise) ==
  IF policy.target # Null /\ policy.target.baseline # Null
  THEN policy.target.baseline ELSE otherwise

(* What the target of a component adds to the question about its result.    *)
Targeting(comp, policy) ==
  [targeted |-> policy.target # Null, target |-> policy.value, direction |-> "higher",
   baseline |-> IF policy.target = Null THEN Null ELSE PolicyBaseline(policy, comp.baseline),
   status |-> IF policy.target = Null THEN Null ELSE policy.status]

ComponentInput(m, comp, stored, s, start) ==
  LET own == {r \in stored : /\ r.component = comp.id /\ r.year = s.year
                             /\ SamePeriod(r, s)}
      row == IF own = {} THEN EmptyRow ELSE (CHOOSE r \in own : TRUE).row
      previous == PreviousValue(stored, [s EXCEPT !.component = comp.id], start, comp.previous)
  IN  Over([id |-> comp.id, unit |-> comp.unit, role |-> comp.role, weight |-> comp.weight,
            required |-> TRUE,
            input |-> KernelQuestion([comp EXCEPT !.allowOver = m.allowOver], row, previous)],
           Targeting(comp, TargetPolicy(comp.targets, s.year, comp.type,
                                        comp.status).effective))

CalculatedResult(m, stored, s, start) ==
  IF m.type = "multi_component"
  THEN Measurement([type |-> m.type, method |-> m.method, components |->
         [i \in DOMAIN m.components |->
            ComponentInput(m, m.components[i], stored, s, start)]])
  ELSE Calculated(m, s.row, PreviousValue(stored, s, start, m.baseline))

Actual(s, result) ==
  [year |-> s.year, type |-> s.type, index |-> s.index, value |-> result.value,
   result |-> result]

CalculatedActual(m, stored, s, start) == Actual(s, CalculatedResult(m, stored, s, start))

CalculatedActuals(m, stored, start, year) ==
  {CalculatedActual(m, stored, s, start) : s \in {r \in stored : r.year \in start .. year}}

-----------------------------------------------------------------------------
(* Year to date and through the plan.                                       *)

Additive(type, frequency) ==
  /\ type \in {"count", "cumulative", "currency"}
  /\ frequency \in {"monthly", "quarterly", "annual", "flexible"}

PeriodIncluded(a, month) ==
  \/ a.index = P!Single \/ a.type \in {"annual", "cumulative", "one_time"}
  \/ a.type = "quarterly" /\ a.index <= (month + 2) \div 3
  \/ a.type = "monthly" /\ a.index <= month

(* A full-year row wins; otherwise additive periods are summed, and of the  *)
(* others the latest counts.                                                *)
CombinedValue(rows, type, frequency, month) ==
  LET finite == {r \in rows : Given(r.value) /\ PeriodIncluded(r, month)}
      yearly == {r \in finite : r.index = P!Single}
      sum == SumFunction([r \in finite |-> r.value])
      latest(rs) == LastBy(rs, LAMBDA r : r.index * 10 + PeriodRank(r.type)).value
  IN  IF finite = {} THEN [value |-> Null, invalid |-> FALSE]
      ELSE IF yearly # {} THEN [value |-> latest(yearly), invalid |-> FALSE]
      ELSE IF ~Additive(type, frequency) THEN [value |-> latest(finite), invalid |-> FALSE]
      ELSE [value |-> Rounded(sum, 1), invalid |-> Rounded(sum, 1) = Null]

InvalidAggregate(result) ==
  [(IF result = Null THEN Result([state |-> "invalid"]) ELSE result) EXCEPT
     !.state = "invalid", !.value = Null, !.percent = Null,
     !.issues = @ \cup {"NON_FINITE_RESULT"}]

WithLatest(combined, latest) ==
  [value |-> combined.value, invalid |-> combined.invalid,
   result |-> IF combined.invalid THEN InvalidAggregate(latest) ELSE latest]

ResolvedActual(m, actuals, year, month) ==
  LET direct == {a \in actuals : a.year = year}
      included == {a \in direct : PeriodIncluded(a, month)}
  IN  WithLatest(CombinedValue(direct, m.type, m.frequency, month),
                 IF included = {} THEN Null ELSE LastBy(included, SortKey).result)

NoActual == [value |-> Null, invalid |-> FALSE]
BrokenActual == [value |-> Null, invalid |-> TRUE]
ValueOnly(a) == [value |-> a.value, invalid |-> a.invalid]

(* at: the actual of each year of the plan so far.                          *)
LatestActual(at) ==
  LET telling == {y \in DOMAIN at : at[y].invalid \/ at[y].value # Null}
  IN  IF telling = {} THEN NoActual ELSE ValueOnly(at[LastBy(telling, LAMBDA y : y)])

SummedActual(at) ==
  LET summed == {y \in DOMAIN at : at[y].value # Null}
      total == SumFunction([y \in summed |-> at[y].value])
  IN  IF \E y \in DOMAIN at : at[y].invalid THEN BrokenActual
      ELSE IF summed = {} THEN NoActual
      ELSE IF Rounded(total, 1) = Null THEN BrokenActual
      ELSE [value |-> total, invalid |-> FALSE]

CumulativeActual(m, actuals, year, start, month) ==
  LET through(y) == IF y = year THEN month ELSE P!Months
  IN  CASE m.frequency \in {"cumulative", "one_time"} ->
             LatestActual([y \in start .. year |-> ResolvedActual(m, actuals, y, through(y))])
        [] m.type = "cumulative" /\ m.frequency = "annual" ->
             SummedActual([y \in start .. year |-> ResolvedActual(m, actuals, y, P!Months)])
        [] OTHER -> ValueOnly(ResolvedActual(m, actuals, year, month))

PacingElapsed(frequency, month) ==
  IF frequency \in {"monthly", "quarterly", "annual", "flexible"}
  THEN <<Clamped(month, P!Months), P!Months>> ELSE <<1, 1>>

-----------------------------------------------------------------------------
(* Progress of a Measure whose targets are those of its components.         *)

Towards(current, target, direction, status) ==
  Progress([current |-> current, target |-> target, baseline |-> Null,
            direction |-> direction, status |-> status])

NeedsDefinition == Towards(Null, Factor, "higher", "needs_definition")

CompatibleUnits(comps) ==
  LET units == {c.unit : c \in Elements(comps)}
  IN  Cardinality(units) = 1 /\ Null \notin units

(* What one component adds to an average of progress: its percentage, zero  *)
(* before its first result, Null when it is unusable.                       *)
ComponentShare(part) ==
  LET p == part.progress
  IN  IF p = Null THEN Null
      ELSE IF p.state = "invalid" \/ p.status \in {"needs_definition", "target_not_finalized"}
      THEN Null
      ELSE IF p.actual # Null THEN p.actual
      ELSE IF p.state = "missing" /\ p.status = "not_started" THEN 0 ELSE Null

AveragedProgress(m, parts) ==
  LET usable == \A part \in Elements(parts) : ComponentShare(part) # Null /\ part.weight > 0
      weight(part) == IF m.method = "weighted_average" THEN part.weight ELSE 1
      current == Rounded(SumOf(parts, LAMBDA part : ComponentShare(part) * weight(part)),
                         SumOf(parts, weight))
  IN  IF ~CompatibleUnits(m.components) THEN NeedsDefinition
      ELSE IF parts = Null THEN Towards(Null, Whole, "higher", m.status)
      ELSE IF ~usable THEN NeedsDefinition
      ELSE IF current = Null THEN NeedsDefinition
      ELSE Towards(current, Whole, "higher", m.status)

ComponentDecisions(comps, year) ==
  [i \in DOMAIN comps |->
     TargetPolicy(comps[i].targets, year, comps[i].type, comps[i].status).effective]

(* decisions: what is decided of the target of each component.              *)
ComponentCompletion(m, result, decisions) ==
  LET ready == \A d \in Elements(decisions) : d.value # Null /\ d.status \in {"ready", "active"}
      current == IF result = Null THEN Null
                 ELSE IF result.state = "ok" THEN result.value ELSE Null
      parts == IF result = Null THEN Null ELSE result.components
      wanted == Rounded(SumOf(decisions, LAMBDA d : d.value), 1)
  IN  IF m.type # "multi_component" \/ m.components = <<>> \/ ~ready THEN Null
      ELSE IF result # Null /\ result.state = "invalid" THEN NeedsDefinition
      ELSE CASE m.method = "all_complete" -> Towards(current, Factor, "higher", m.status)
             [] m.method = "sum" ->
                  IF ~CompatibleUnits(m.components) THEN NeedsDefinition
                  ELSE IF wanted = Null THEN Null
                  ELSE Towards(current, wanted, m.direction, m.status)
             [] m.method \in {"average", "weighted_average"} -> AveragedProgress(m, parts)
             [] OTHER -> Null

-----------------------------------------------------------------------------
(* The dashboard row of a Measure, and the completion of a Goal.            *)

Usable(a) == IF a.invalid THEN NaN ELSE a.value

(* Its progress, from the actual of the year and that of the plan so far.   *)
MeasureProgress(m, current, plan, policy, month) ==
  AnnualAndPlanProgress(
    [annualActual |-> Usable(current), annualTarget |-> policy.annual.value,
     targetToDate |-> Null, elapsed |-> PacingElapsed(m.frequency, month),
     annualBaseline |-> PolicyBaseline(policy.annual, m.baseline),
     cumulative |-> Usable(plan), planTarget |-> policy.fullPlan.value,
     planBaseline |-> PolicyBaseline(policy.fullPlan, m.baseline),
     direction |-> m.direction, annualStatus |-> policy.annual.status,
     planStatus |-> policy.fullPlan.status])

(* By its own targets, else by those of its components.                     *)
MeasureCompletion(policy, progress, byComponents) ==
  IF policy.effective.target = Null /\ byComponents # Null THEN byComponents
  ELSE IF policy.effective.kind = "annual" THEN progress.annual ELSE progress.plan

SummaryRow(current, plan, policy, progress, byComponents) ==
  [current |-> current.value, result |-> current.result, cumulative |-> plan.value,
   policy |-> policy, progress |-> progress,
   completion |-> MeasureCompletion(policy, progress, byComponents)]

Summarized(m, current, plan, policy, year, month) ==
  SummaryRow(current, plan, policy, MeasureProgress(m, current, plan, policy, month),
             ComponentCompletion(m, current.result, ComponentDecisions(m.components, year)))

MeasureSummary(m, actuals, year, start, month) ==
  Summarized(m, ResolvedActual(m, actuals, year, month),
             CumulativeActual(m, actuals, year, start, month),
             TargetPolicy(m.targets, year, m.type, m.status), year, month)

(* rule as in Calculations; a Goal that is not ready is not counted.        *)
GoalSummary(goal, kpis) ==
  IF goal.status \notin {"ready", "active"}
  THEN GoalResult([state |-> "missing", reasons |-> {goal.status}])
  ELSE GoalCompletion(goal.rule, kpis)

(* The kpis of a Goal's completion: its members, and the archived members   *)
(* it no longer has.                                                        *)
GoalKpis(members, archivedOnly) ==
  members \o [i \in 1 .. archivedOnly |->
                [informational |-> FALSE, status |-> "archived", progress |-> Null, weight |-> 0]]

=============================================================================
