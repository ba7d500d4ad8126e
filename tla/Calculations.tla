---------------------------- MODULE Calculations ----------------------------
(***************************************************************************)
(* The calculation kernel (src/src/features/strategy/calculations.ts): how *)
(* a recorded result becomes a value, a value becomes progress toward a    *)
(* target, and the progress of Measures becomes the completion of a Goal.  *)
(*                                                                         *)
(* Numbers are integers in units of 1/Factor, Factor = 10^precision for    *)
(* one admitted precision; a percentage has the same unit, so that 100 per *)
(* cent is Whole.  NaN stands for anything that is not a finite number,    *)
(* Null for a value not given, and a magnitude above MaxNum is what        *)
(* overflows.  A result keeps the set of its issue codes, without wording. *)
(***************************************************************************)
EXTENDS Integers, FiniteSets, SequencesExt

CONSTANTS
  Null, NaN,
  Factor,        \* 10^precision of the Measure
  GoalFactor,    \* 10^precision of a Goal's completion (DEFAULT_PRECISION)
  MaxNum         \* the largest magnitude that is still finite

ASSUME NumberAssumption ==
  /\ Null \notin Int \cup BOOLEAN /\ NaN \notin Int /\ NaN # Null
  /\ Factor \in Nat \ {0}
  /\ MaxNum \in Nat /\ 100 * Factor <= MaxNum

Whole == 100 * Factor

StateOf(x) == CASE x = Null -> "missing" [] x = NaN -> "invalid" [] OTHER -> "ok"
Given(x) == x \notin {Null, NaN}
FiniteOrNull(x) == IF x = NaN THEN Null ELSE x

Combined(states) ==
  CASE "invalid" \in states -> "invalid"
    [] states \cap {"invalid", "missing"} = {"missing"} -> "missing"
    [] OTHER -> "ok"

(* Math.round is half up; Null when the result is not a finite number.      *)
FiniteNumber(x) == IF x \in -MaxNum .. MaxNum THEN x ELSE Null

Rounded(num, den) ==
  LET n == IF den < 0 THEN -num ELSE num
      d == IF den < 0 THEN -den ELSE den
  IN  FiniteNumber((2 * n + d) \div (2 * d))

Percentage(num, den) == IF den = 0 THEN Null ELSE Rounded(num * Whole, den)
AverageOf(sum, count) == Rounded(sum, count)
Clamped(x, top) == IF x < 0 THEN 0 ELSE IF x > top THEN top ELSE x
SumOf(seq, Value(_)) == SumFunction([i \in DOMAIN seq |-> Value(seq[i])])
Elements(seq) == {seq[i] : i \in DOMAIN seq}

(* g with the fields of f: f @@ g, in a form the provers expand.            *)
Over(f, g) == [x \in DOMAIN f \cup DOMAIN g |-> IF x \in DOMAIN f THEN f[x] ELSE g[x]]

-----------------------------------------------------------------------------
(* Results of one Measure.                                                  *)

Result(fields) ==
  Over(fields, [state |-> "invalid", value |-> Null, percent |-> Null, num |-> Null,
                den |-> Null, respondents |-> Null, issues |-> {},
                composition |-> Null, components |-> <<>>])

Refused(code) == Result([issues |-> {code}])
Lacking(code) == Result([state |-> "missing", issues |-> {code}])
Unread(states) == Result([state |-> Combined(states), issues |-> {"UNREADABLE_VALUE"}])

(* A value that is computed: Null when no number says it.                   *)
Stating(value) ==
  [state |-> IF value = Null THEN "invalid" ELSE "ok", value |-> value,
   issues |-> IF value = Null THEN {"NON_FINITE_RESULT"} ELSE {}]

Binary(completed) ==
  IF completed = Null THEN Lacking("MISSING_BOOLEAN")
  ELSE IF completed \notin BOOLEAN THEN Refused("INVALID_BOOLEAN")
  ELSE Result([state |-> "ok", value |-> IF completed THEN Factor ELSE 0,
               percent |-> IF completed THEN Whole ELSE 0])

Milestone(in) ==
  LET states == {StateOf(in.done), StateOf(in.total)}
  IN  IF in.completed # Null
      THEN IF in.done # Null \/ in.total # Null
           THEN Refused("AMBIGUOUS_MILESTONE_INPUT")
           ELSE Binary(in.completed)
      ELSE IF Combined(states) # "ok" THEN Unread(states)
      ELSE IF in.done < 0 \/ in.total <= 0 THEN Refused("INVALID_MILESTONE_COUNTS")
      ELSE IF in.done > in.total THEN Refused("COMPLETED_EXCEEDS_TOTAL")
      ELSE Result([state |-> "ok", value |-> in.done, num |-> in.done, den |-> in.total,
                   percent |-> Percentage(in.done, in.total)])

Scalar(value) ==
  IF StateOf(value) # "ok" THEN Unread({StateOf(value)})
  ELSE IF Rounded(value, 1) = Null THEN Refused("NON_FINITE_RESULT")
  ELSE Result([state |-> "ok", value |-> Rounded(value, 1)])

(* The entered denominator wins over the fixed one, which must agree.       *)
Fraction(in, scale) ==
  LET den == IF in.den # Null THEN in.den ELSE in.fixed
      value == Rounded(in.num * scale, den)
  IN  IF NaN \in {in.num, in.den, in.fixed} THEN Unread({"invalid"})
      ELSE IF in.num = Null THEN Unread({"missing"})
      ELSE IF Null \notin {in.den, in.fixed} /\ in.den # in.fixed
           THEN Refused("DENOMINATOR_CONFLICT")
      ELSE IF den = Null THEN [Lacking("MISSING_DENOMINATOR") EXCEPT !.num = in.num]
      ELSE IF den = 0
           THEN [Refused("ZERO_DENOMINATOR") EXCEPT !.num = in.num, !.den = den]
      ELSE Result(Over([num |-> in.num, den |-> den], Stating(value)))

WithPercent(fraction, counts) ==
  [fraction EXCEPT !.percent =
     IF fraction.state = "ok" /\ counts THEN fraction.value ELSE Null]

PercentageMeasure(in) == WithPercent(Fraction(in, Whole), TRUE)

Ratio(in) ==
  LET scale == IF in.scale = Null THEN Factor ELSE in.scale
  IN  IF scale = NaN THEN Refused("INVALID_SCALE")
      ELSE WithPercent(Fraction(in, scale), scale = Whole)

(* The pair an average divides, by method.  A possible total not entered is *)
(* the respondents times the most one of them can score.                    *)
AveragePair(in) ==
  CASE in.method = "total_score" ->
         [num |-> in.totalScore,
          den |-> IF in.possible # Null THEN in.possible
                  ELSE IF Given(in.respondents) /\ Given(in.maxEach)
                       THEN (in.respondents * in.maxEach) \div Factor ELSE Null]
    [] in.method = "average_score" ->
         [num |-> in.averageScore,
          den |-> IF in.maxScale # Null THEN in.maxScale ELSE in.maxEach]
    [] in.method = "percent_positive" -> [num |-> in.positive, den |-> in.responses]
    [] OTHER -> [num |-> NaN, den |-> NaN]

Average(in) ==
  LET pair == AveragePair(in)
      states == {StateOf(pair.num), StateOf(pair.den)}
      unread == in.respondents = NaN \/ (in.respondents # Null /\ in.respondents < 0)
      unreadable == in.method = "total_score" /\ NaN \in {in.possible, in.maxEach}
      positives == in.method = "percent_positive"
      asked == IF in.respondents # Null THEN in.respondents
               ELSE IF positives THEN pair.den ELSE Null
      refused(code) == [Refused(code) EXCEPT !.respondents = in.respondents]
  IN  IF unread THEN Refused("INVALID_RESPONDENT_COUNT")
      ELSE IF unreadable THEN Unread({"invalid"})
      ELSE IF Combined(states) # "ok"
           THEN [Unread(states) EXCEPT !.respondents = in.respondents]
      ELSE IF pair.den = 0 /\ positives
           THEN [Lacking("NO_RESPONSES_RECORDED") EXCEPT
                   !.respondents = asked, !.num = pair.num, !.den = pair.den]
      ELSE IF pair.den <= 0 THEN refused("ZERO_DENOMINATOR")
      ELSE IF pair.num < 0 THEN refused("NEGATIVE_SCORE")
      ELSE IF ~in.allowOver /\ pair.num > pair.den
           THEN [refused("SCORE_EXCEEDS_MAXIMUM") EXCEPT
                   !.num = pair.num, !.den = pair.den]
      ELSE LET value == Percentage(pair.num, pair.den)
           IN  Result([state |-> "ok", value |-> value, percent |-> value,
                       num |-> pair.num, den |-> pair.den, respondents |-> asked])

YearOverYear(in) ==
  LET states == {StateOf(in.current), StateOf(in.previous)}
      delta == in.current - in.previous
      size == IF in.previous < 0 THEN -in.previous ELSE in.previous
  IN  IF Combined(states) # "ok" THEN Unread(states)
      ELSE IF in.previous = 0
           THEN [Refused("ZERO_PREVIOUS_PERIOD") EXCEPT !.num = delta, !.den = 0]
      ELSE Result([state |-> "ok", value |-> Rounded(delta * Whole, size),
                   num |-> delta, den |-> in.previous])

-----------------------------------------------------------------------------
(* A distribution over bands, and a Measure of several components.          *)

Repeated(categories) ==
  \E i, j \in DOMAIN categories :
    i < j /\ (\/ categories[i].id = categories[j].id
              \/ categories[i].label = categories[j].label)

(* The share of the respondents in the bands classed as non-white; a        *)
(* distribution without such a band has none.                               *)
NonWhitePercentage(categories, total) ==
  LET nonWhite == SelectSeq(categories, LAMBDA c : c.group = "non_white")
  IN  IF nonWhite = <<>> THEN Null
      ELSE Percentage(SumOf(nonWhite, LAMBDA c : c.count), total)

Distribution(in) ==
  LET cats == in.categories
      states == {StateOf(cats[i].count) : i \in DOMAIN cats}
      outOfRange == \E i \in DOMAIN cats :
                      Given(cats[i].count) /\ cats[i].count \notin 0 .. in.total
      counted == SumOf(cats, LAMBDA c : c.count)
      about(r) == [r EXCEPT !.respondents = in.total]
  IN  IF StateOf(in.total) # "ok" THEN Unread({StateOf(in.total)})
      ELSE IF in.total < 0 THEN about(Refused("NEGATIVE_RESPONDENT_TOTAL"))
      ELSE IF in.total = 0 THEN about(Lacking("NO_RESPONSES_RECORDED"))
      ELSE IF cats = <<>> THEN about(Lacking("MISSING_DISTRIBUTION_CATEGORIES"))
      ELSE IF Repeated(cats) \/ outOfRange THEN about(Refused("INVALID_CATEGORY"))
      ELSE IF Combined(states) # "ok" THEN about(Unread(states))
      ELSE IF ~in.allowNonExclusive /\ counted # in.total
           THEN about(Refused("CATEGORY_TOTAL_MISMATCH"))
      ELSE Result([state |-> "ok", respondents |-> in.total, den |-> in.total,
                   composition |->
                     [share |-> [i \in DOMAIN cats |-> Percentage(cats[i].count, in.total)],
                      unallocated |-> Clamped(in.total - counted, in.total),
                      nonWhite |-> IF in.allowNonExclusive THEN Null
                                   ELSE NonWhitePercentage(cats, in.total)]])

DefaultUnit(type) ==
  CASE type \in {"percentage", "average", "year_over_year"} -> "percent"
    [] type \in {"count", "cumulative"} -> "count"
    [] OTHER -> type

-----------------------------------------------------------------------------
(* Progress toward a target.                                                *)

(* p: current, target, baseline, direction ("higher", "lower"), status.     *)
ProgressResult(p, fields) ==
  Over(fields, [state |-> "invalid", status |-> "needs_definition",
                current |-> FiniteOrNull(p.current), target |-> FiniteOrNull(p.target),
                baseline |-> FiniteOrNull(p.baseline), actual |-> Null, display |-> Null,
                isComplete |-> FALSE, isExceeded |-> FALSE, issues |-> {}])

Met(p) == IF p.direction = "lower" THEN p.current <= p.target ELSE p.current >= p.target

(* Higher is better without a baseline measures from zero.                  *)
Start(p) == IF p.baseline = Null THEN 0 ELSE p.baseline
Span(p) == IF p.direction = "lower" THEN Start(p) - p.target ELSE p.target - Start(p)
Covered(p) == IF p.direction = "lower" THEN Start(p) - p.current ELSE p.current - Start(p)

ShareCovered(p, span) ==
  IF span # 0 THEN Rounded(Covered(p) * Whole, span) ELSE IF Met(p) THEN Whole ELSE 0

ProgressStatus(actual, met, exceeded) ==
  CASE exceeded -> "exceeded"
    [] met /\ ~exceeded -> "complete"
    [] ~met /\ actual <= 0 -> "not_started"
    [] OTHER -> "in_progress"

(* actual: the share of the way that is covered.                            *)
ProgressMade(p, actual, met) ==
  LET exceeded == met /\ p.current # p.target
  IN  IF actual = Null THEN [issues |-> {"NON_FINITE_RESULT"}]
      ELSE [state |-> "ok", actual |-> actual, display |-> Clamped(actual, Whole),
            isComplete |-> met, isExceeded |-> exceeded,
            status |-> ProgressStatus(actual, met, exceeded)]

ProgressTold(p) ==
  LET lacking(status, code) == [state |-> "missing", status |-> status, issues |-> {code}]
      refused(code) == [issues |-> {code}]
      nonFinite == NaN \in {p.current, p.target, p.baseline}
  IN  CASE p.status = "needs_definition" -> lacking("needs_definition", "NEEDS_DEFINITION")
        [] p.status = "needs_target" -> lacking("target_not_finalized", "TARGET_NOT_FINALIZED")
        [] OTHER ->
             IF nonFinite THEN refused("NON_FINITE_VALUE")
             ELSE IF p.target = Null THEN lacking("target_not_finalized", "TARGET_NOT_FINALIZED")
             ELSE IF p.current = Null THEN lacking("not_started", "MISSING_ACTUAL")
             ELSE IF p.direction = "lower" /\ p.baseline = Null
             THEN refused("BASELINE_REQUIRED")
             ELSE IF Span(p) < 0 THEN refused("INVALID_TARGET_RANGE")
             ELSE ProgressMade(p, ShareCovered(p, Span(p)), Met(p))

Progress(p) == ProgressResult(p, ProgressTold(p))

(* The value a target stands for: a number, else the number or the flag it  *)
(* is structured as; a draft or unresolved target stands for none.          *)
ConfiguredTargetValue(t, type) ==
  CASE t.status \notin {"ready", "active"} -> Null
    [] t.status \in {"ready", "active"} /\ Given(t.value) -> t.value
    [] OTHER ->
         IF Given(t.structured) THEN t.structured
         ELSE IF type # "binary" THEN Null
         ELSE IF t.completed \in BOOLEAN THEN IF t.completed THEN Factor ELSE 0
         ELSE IF t.described THEN Factor ELSE Null

PacingTarget_FromZero(in) ==
  IF in.annualTarget = Null THEN Null
  ELSE Rounded(in.annualTarget * in.elapsed[1], in.elapsed[2])

(* Where a Measure should stand after elapsed[1] of elapsed[2] parts of the *)
(* year: the elapsed share of the distance from the baseline to the target. *)
PacingTarget(in) ==
  IF in.targetToDate # Null THEN in.targetToDate
  ELSE IF in.annualTarget = Null THEN Null
  ELSE LET from == IF in.annualBaseline = Null THEN 0 ELSE in.annualBaseline
       IN  Rounded(from * in.elapsed[2] + (in.annualTarget - from) * in.elapsed[1],
                   in.elapsed[2])

ThreeProgresses(target, paced, annual, plan) ==
  [state |-> Combined({paced.state, annual.state, plan.state}),
   pacingTarget |-> target, pacing |-> paced, annual |-> annual, plan |-> plan]

AnnualAndPlanProgress(in) ==
  LET unusable == NaN \in {in.targetToDate, in.annualTarget, in.annualBaseline}
      pacing == PacingTarget(in)
      toward(current, target, baseline, status) ==
        Progress([current |-> current, target |-> target, baseline |-> baseline,
                  direction |-> in.direction, status |-> status])
      nothing == ProgressResult([current |-> Null, target |-> Null, baseline |-> Null],
                                [issues |-> {"NON_FINITE_VALUE"}])
  IN  IF in.elapsed[1] \notin 0 .. in.elapsed[2] \/ unusable
      THEN ThreeProgresses(Null, nothing, nothing, nothing)
      ELSE ThreeProgresses(pacing,
             toward(in.annualActual, pacing, in.annualBaseline, in.annualStatus),
             toward(in.annualActual, in.annualTarget, in.annualBaseline, in.annualStatus),
             toward(in.cumulative, in.planTarget, in.planBaseline, in.planStatus))

-----------------------------------------------------------------------------
(* A Measure of several components.  A component: id, unit (Null for the    *)
(* unit of its type), role, weight, required, its calculated result, and    *)
(* its progress (Null unless it is targeted).                               *)

ComponentProgress(c, result) ==
  IF ~c.targeted /\ c.status \notin {"needs_target", "needs_definition"} THEN Null
  ELSE Progress([current |-> result.value, target |-> c.target, baseline |-> c.baseline,
                 direction |-> c.direction, status |-> c.status])

Aggregations == {"none", "average", "weighted_average", "sum", "ratio", "all_complete"}

(* Why a component is not known to be complete or not.                      *)
Unfinished(c) ==
  IF c.progress = Null THEN {"MISSING_COMPONENT_TARGET"} ELSE c.progress.issues

AllComplete(included) ==
  LET unfinished == {c \in included : c.progress = Null \/ c.progress.state # "ok"}
      broken == \E c \in unfinished : c.progress # Null /\ c.progress.state = "invalid"
      done == \A c \in included : c.progress.isComplete
  IN  IF unfinished # {}
      THEN Result([state |-> IF broken THEN "invalid" ELSE "missing",
                   issues |-> UNION {Unfinished(c) : c \in unfinished}])
      ELSE Binary(done)

RatioOf(parts) ==
  LET part(role) == SelectSeq(parts, LAMBDA c : c.role = role)
      total(role) == SumOf(part(role), LAMBDA c : c.result.value)
      value == Percentage(total("numerator"), total("denominator"))
  IN  IF part("numerator") = <<>> \/ part("denominator") = <<>> \/ part("value") # <<>>
      THEN Refused("INVALID_RATIO_COMPONENT_ROLES")
      ELSE IF total("denominator") <= 0 THEN Refused("INVALID_RATIO_DENOMINATOR")
      ELSE Result(Over([percent |-> value, num |-> total("numerator"),
                        den |-> total("denominator")], Stating(value)))

(* Sum, average and weighted average of parts that share a unit.            *)
Blended(parts, method) ==
  LET weights == SumOf(parts, LAMBDA c : c.weight)
      value == CASE method = "sum" -> Rounded(SumOf(parts, LAMBDA c : c.result.value), 1)
                 [] method = "average" ->
                      AverageOf(SumOf(parts, LAMBDA c : c.result.value), Len(parts))
                 [] OTHER ->
                      Rounded(SumOf(parts, LAMBDA c : c.result.value * c.weight), weights)
      unweighted == method = "weighted_average"
                    /\ (weights <= 0 \/ \E c \in Elements(parts) : c.weight < 0)
  IN  IF unweighted THEN Refused("INVALID_COMPONENT_WEIGHT")
      ELSE Result(Over([percent |-> IF parts[1].unit = "percent" THEN value ELSE Null],
                       Stating(value)))

Aggregated(comps, method) ==
  LET included == SelectSeq(comps, LAMBDA c : c.result.state = "ok")
      reported == {c \in Elements(comps) : c.result.state = "ok"}
      units == {c.unit : c \in reported}
      issuesOf(cs) == UNION {c.result.issues : c \in cs}
      broken == {c \in Elements(comps) : c.result.state = "invalid"}
      awaited == {c \in Elements(comps) : c.required /\ c.result.state = "missing"}
  IN  IF broken # {} THEN Result([issues |-> issuesOf(broken)])
      ELSE IF method = "none"
      THEN Result([state |-> "ok", issues |-> issuesOf(Elements(comps))])
      ELSE IF awaited # {} THEN Result([state |-> "missing", issues |-> issuesOf(awaited)])
      ELSE IF reported = {} THEN Lacking("NO_AGGREGATABLE_COMPONENTS")
      ELSE IF method = "all_complete" THEN AllComplete(reported)
      ELSE IF Cardinality(units) > 1 THEN Refused("INCOMPATIBLE_COMPONENT_UNITS")
      ELSE IF \E c \in reported : c.result.value = Null
      THEN Refused("NON_SCALAR_COMPONENT")
      ELSE IF method = "ratio" THEN RatioOf(included)
      ELSE Blended(included, method)

(* Every type but a Measure of components; a component is one of these.     *)
SingleMeasurement(in) ==
  CASE in.type = "binary" -> Binary(in.completed)
    [] in.type = "milestone" -> Milestone(in)
    [] in.type \in {"count", "cumulative", "currency"} -> Scalar(in.value)
    [] in.type = "percentage" -> PercentageMeasure(in)
    [] in.type = "average" -> Average(in)
    [] in.type = "year_over_year" -> YearOverYear(in)
    [] in.type = "distribution" -> Distribution(in)
    [] in.type = "ratio" -> Ratio(in)
    [] OTHER -> Refused("UNSUPPORTED_MEASUREMENT_TYPE")

CalculatedComponent(c, result) ==
  [unit |-> IF c.unit = Null THEN DefaultUnit(c.input.type) ELSE c.unit,
   role |-> c.role, weight |-> c.weight, required |-> c.required,
   id |-> c.id, result |-> result, progress |-> ComponentProgress(c, result)]

MultiComponent(comps, method) ==
  LET repeated == \E i, j \in DOMAIN comps : i < j /\ comps[i].id = comps[j].id
  IN  IF comps = <<>> THEN Lacking("MISSING_COMPONENTS")
      ELSE IF method \notin Aggregations THEN Refused("INVALID_AGGREGATION_METHOD")
      ELSE IF repeated THEN Refused("DUPLICATE_COMPONENT")
      ELSE [Aggregated(comps, method) EXCEPT !.components = comps]

Measurement(in) ==
  IF in.type # "multi_component" THEN SingleMeasurement(in)
  ELSE MultiComponent([i \in DOMAIN in.components |->
                         CalculatedComponent(in.components[i],
                                             SingleMeasurement(in.components[i].input))],
                      in.method)

-----------------------------------------------------------------------------
(* The completion of a Goal from the progress of its Measures, and rollups. *)
(* A kpi: informational, status, progress (a ProgressResult or Null) and    *)
(* weight.  A completion is in units of 1/GoalFactor per cent.              *)

NormalizedProgress_SkipsUnreported(progress) ==
  IF progress = Null THEN [state |-> "missing", progress |-> Null, complete |-> FALSE]
  ELSE [state |-> progress.state, progress |-> progress.display,
        complete |-> progress.isComplete]

(* A required Measure that has a target and no result yet counts as zero.   *)
NormalizedProgress(progress) ==
  IF progress = Null THEN [state |-> "missing", progress |-> Null, complete |-> FALSE]
  ELSE IF progress.state = "missing" /\ progress.status = "not_started"
  THEN [state |-> "ok", progress |-> 0, complete |-> FALSE]
  ELSE [state |-> progress.state, progress |-> progress.display,
        complete |-> progress.isComplete]

ExclusionReasons ==
  {"informational", "draft", "archived", "needs_definition", "needs_target",
   "missing_progress", "invalid_progress"}

ASSUME ReasonAssumption == Null \notin ExclusionReasons

(* Why a Measure does not count toward its Goal; Null when it does.         *)
Exclusion(k) ==
  LET normal == NormalizedProgress(k.progress)
  IN  IF k.informational THEN "informational"
      ELSE IF k.status \in {"draft", "archived", "needs_definition", "needs_target"}
      THEN k.status
      ELSE IF normal.state = "invalid" THEN "invalid_progress"
      ELSE IF normal.state = "ok" /\ normal.progress # Null
      THEN IF k.weight < 0 THEN "invalid_progress" ELSE Null
      ELSE IF k.progress = Null THEN "missing_progress"
      ELSE CASE k.progress.status = "needs_definition" -> "needs_definition"
             [] k.progress.status = "target_not_finalized" -> "needs_target"
             [] OTHER -> "missing_progress"

(* The number of complete Measures a threshold rule asks of n, or Null.     *)
ThresholdCount(rule, n) ==
  IF (rule.count = Null) = (rule.percentage = Null) THEN Null
  ELSE IF rule.count # Null THEN IF rule.count \in 1 .. n THEN rule.count ELSE Null
  ELSE IF rule.percentage \notin 1 .. 100 THEN Null
  ELSE (n * rule.percentage + 99) \div 100

GoalResult(fields) ==
  Over(fields, [state |-> "invalid", eligible |-> FALSE, complete |-> FALSE,
                completion |-> Null, completed |-> 0, counted |-> 0, reasons |-> {}])

(* rule: type, percentage (Null for 100), count, manual.                    *)
GoalCompletion(rule, kpis) ==
  LET counted == {i \in DOMAIN kpis : Exclusion(kpis[i]) = Null}
      normal(i) == NormalizedProgress(kpis[i].progress)
      reasons == {Exclusion(kpis[i]) : i \in DOMAIN kpis} \ {Null}
      excluded == reasons \ {"informational"}
      n == Cardinality(counted)
      done == Cardinality({i \in counted : normal(i).complete})
      weights == MapThenSumSet(LAMBDA i : kpis[i].weight, counted)
      progress == MapThenSumSet(LAMBDA i : normal(i).progress, counted)
      weighted == MapThenSumSet(LAMBDA i : normal(i).progress * kpis[i].weight, counted)
      threshold == IF rule.percentage = Null THEN 100 ELSE rule.percentage
      reached == Rounded(weighted * GoalFactor, weights * Factor)
      shown == IF reached = Null THEN Null ELSE Clamped(reached, 100 * GoalFactor)
      needed == ThresholdCount(rule, n)
      outcome(complete, completion) ==
        GoalResult([state |-> "ok", eligible |-> TRUE, complete |-> complete,
                    completion |-> completion, completed |-> done, counted |-> n,
                    reasons |-> excluded])
      refused(codes) ==
        GoalResult([completed |-> done, counted |-> n, reasons |-> excluded \cup codes])
      lacking(code) == GoalResult([state |-> "missing", reasons |-> excluded \cup {code}])
      unweighted == (IF weights <= 0 THEN {"ZERO_WEIGHT_TOTAL"} ELSE {})
        \cup (IF threshold \notin 0 .. 100 THEN {"INVALID_COMPLETION_THRESHOLD"} ELSE {})
  IN  IF "invalid_progress" \in excluded THEN GoalResult([reasons |-> reasons])
      ELSE IF rule.type = "manual_status"
      THEN IF rule.manual \in BOOLEAN
           THEN outcome(rule.manual, IF rule.manual THEN 100 * GoalFactor ELSE 0)
           ELSE lacking("MANUAL_STATUS_REQUIRED")
      ELSE IF n = 0 THEN lacking("NO_ELIGIBLE_KPIS")
      ELSE CASE rule.type = "all_required_kpis" ->
                  outcome(done = n, AverageOf(progress * GoalFactor, n * Factor))
             [] rule.type = "weighted_average" ->
                  IF unweighted # {} THEN refused(unweighted)
                  ELSE outcome((IF shown = Null THEN 0 ELSE shown) >= threshold * GoalFactor,
                               shown)
             [] OTHER ->
                  IF needed = Null THEN refused({"INVALID_THRESHOLD"})
                  ELSE outcome(done >= needed, Rounded(done * 100 * GoalFactor, n))

GoalRollup(results) ==
  LET counted == SelectSeq(results, LAMBDA r : r.state = "ok" /\ r.eligible)
      done == Len(SelectSeq(counted, LAMBDA r : r.complete))
  IN  [completed |-> done, counted |-> Len(counted),
       excluded |-> Len(results) - Len(counted),
       completion |-> IF counted = <<>> THEN Null
                      ELSE Rounded(done * 100 * GoalFactor, Len(counted))]

(* goals: pairs of a priority and a result.                                 *)
StrategyRollups(goals) ==
  LET resultsOf(seq) == [i \in DOMAIN seq |-> seq[i].result]
  IN  [organization |-> GoalRollup(resultsOf(goals)),
       priorities |-> [p \in {g.priority : g \in Elements(goals)} |->
                         GoalRollup(resultsOf(SelectSeq(goals, LAMBDA g : g.priority = p)))]]

=============================================================================
