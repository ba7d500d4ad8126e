----------------------------- MODULE ResultEntry -----------------------------
(***************************************************************************)
(* One Measure over the years of its plan: Editors enter, correct and      *)
(* remove its results through the entry form, and every reader - the       *)
(* dashboard, a Goal, the Board - sees what the stored rows come to.       *)
(*                                                                         *)
(* A save is the form's own check, the request it builds, the server's     *)
(* check and the row written (strategic-data-entry-model.ts,               *)
(* upsertStrategyObservation and upsertStrategyMultiComponentBatch of      *)
(* value-entry.ts), one transaction.  A result is stored under its         *)
(* component, year and period, so that a second entry replaces the first.  *)
(***************************************************************************)
EXTENDS BoardReport

CONSTANTS
  Measures,         \* the Measures of an instance
  Numbers,          \* by type, what may be typed in a field; Null is left blank
  PlanYears,        \* the years of the active plan
  EntryIndexes,     \* the months and quarters an instance enters
  ViewedMonths,     \* the months a reader looks through
  Rules, Peers,     \* completion rules, and sequences of the other Measures of a Goal
  MaxStored         \* bound, by type: stored results

Readings == {Null, NaN} \cup -MaxNum .. MaxNum

ConfigurationStatuses ==
  {"draft", "needs_definition", "needs_target", "ready", "active", "archived"}

(* A field is blank, a finite number or no number; what a target says is a  *)
(* number if it is given; the components of a Measure have ids of their own.*)
ASSUME EntryAssumption ==
  /\ PlanYears \subseteq Nat /\ ViewedMonths \subseteq Int
  /\ \A type \in DOMAIN Numbers : Numbers[type] \subseteq Readings
  /\ \A m \in Measures :
       /\ m.type \in DOMAIN Numbers \cup {"distribution"}
       /\ m.fixed \in {Null} \cup 1 .. MaxNum
       /\ DOMAIN m.components = 1 .. Len(m.components)
       /\ \A i, j \in DOMAIN m.components :
            /\ m.components[i].type \in DOMAIN Numbers
            /\ m.components[i].previous \in Readings \ {NaN}
            /\ m.components[i].id # Null
            /\ m.components[i].id = m.components[j].id => i = j
       /\ m.baseline \in Readings \ {NaN} /\ m.status \in ConfigurationStatuses
       /\ \A t \in m.targets :
            /\ t.id \in Nat /\ t.targetYear \in Nat
            /\ {t.value, t.structured, t.baseline} \subseteq Readings \ {NaN}

ASSUME PeerAssumption ==
  \A peers \in Peers :
    /\ Len(peers) \in Nat
    /\ \A i \in 1 .. Len(peers) :
         /\ peers[i].informational \in BOOLEAN /\ peers[i].weight \in Nat
         /\ peers[i].status \in ConfigurationStatuses

VARIABLES
  measure,          \* the Measure, as the plan defines it
  stored            \* its results

vars == <<measure, stored>>

PlanStart == CHOOSE y \in PlanYears : \A z \in PlanYears : y <= z

Blank ==
  [mode |-> "monthly", index |-> 1, value |-> Null, binary |-> Null, num |-> Null,
   den |-> Null, method |-> "total_score", respondents |-> Null, totalScore |-> Null,
   averageScore |-> Null, maxEach |-> Null, possible |-> Null, positive |-> Null,
   responses |-> Null]

(* The fields a form of this type shows, filled in every way.               *)
FilledFields(type) ==
  CASE type \in {"percentage", "ratio"} -> {{"num", "den"}}
    [] type = "average" -> {SentFields(method) : method \in
                              {"percent_positive", "average_score", "total_score"}}
    [] type = "binary" -> {{"binary"}}
    [] OTHER -> {{"value"}}

MethodOf(fields) ==
  CASE "positive" \in fields -> "percent_positive"
    [] "averageScore" \in fields -> "average_score"
    [] OTHER -> "total_score"

Modes(c) == IF c.frequency = "flexible" THEN P!FlexibleModes ELSE {"monthly"}
Indexes(c) == IF c.frequency \in {"monthly", "quarterly", "flexible"} THEN EntryIndexes ELSE {1}

Fillings(type) ==
  UNION {[fields \ {"method"} -> Numbers[type]] : fields \in FilledFields(type)}

Draft(typed, mode, i) ==
  [Over(typed, Blank) EXCEPT !.method = MethodOf(DOMAIN typed), !.mode = mode, !.index = i]

(* The stored result of a component (Null for the Measure's own).           *)
Stored(c, component, w) ==
  LET period == WritePeriod(c, w)
  IN  [year |-> w.year, type |-> period.resolved, index |-> period.index,
       component |-> component, row |-> StoredRow(c, w)]

SameResult(s, r) ==
  s.component = r.component /\ s.year = r.year /\ SamePeriod(s, r)

Upserted(rows, new) == {s \in rows : ~ \E r \in new : SameResult(s, r)} \cup new

-----------------------------------------------------------------------------
(* Operations.                                                              *)

Init == measure \in Measures /\ stored = {}

Save ==
  \E year \in PlanYears, typed \in Fillings(measure.type),
     mode \in Modes(measure), i \in Indexes(measure) :
    LET d == Draft(typed, mode, i)
        w == FormWrite(measure, d, year)
    IN  /\ measure.type # "multi_component"
        /\ FormAccepts(measure, d)
        /\ AcceptsResult(measure, w)
        /\ stored' = Upserted(stored, {Stored(measure, Null, w)})
        /\ Cardinality(stored') <= MaxStored[measure.type]
        /\ UNCHANGED measure

(* The form of a Measure of components asks for all of them, and one that   *)
(* is refused refuses them all.                                             *)
SaveComponents ==
  \E year \in PlanYears, index \in EntryIndexes :
  \E values \in [DOMAIN measure.components ->
                   UNION {Numbers[c.type] : c \in Elements(measure.components)}] :
    LET comp(i) == measure.components[i]
        draft(i) == [Blank EXCEPT !.index = index, !.value = values[i], !.binary = values[i]]
        w(i) == FormWrite(comp(i), draft(i), year)
        slots == DOMAIN values
    IN  /\ measure.type = "multi_component" /\ slots # {}
        /\ \A i \in slots : values[i] \in Numbers[comp(i).type]
        /\ \A i \in slots : FormAccepts(comp(i), draft(i)) /\ AcceptsResult(comp(i), w(i))
        /\ stored' = Upserted(stored, {Stored(comp(i), comp(i).id, w(i)) : i \in slots})
        /\ Cardinality(stored') <= MaxStored[measure.type]
        /\ UNCHANGED measure

(* deleteStrategyObservation, deleteStrategyComponentEntry.                 *)
RemoveResult ==
  \E s \in stored :
    /\ stored' = stored \ {s}
    /\ UNCHANGED measure

Next == Save \/ SaveComponents \/ RemoveResult

Spec == Init /\ [][Next]_vars

-----------------------------------------------------------------------------
(* What readers see.                                                        *)

Actuals(year) == CalculatedActuals(measure, stored, PlanStart, year)

Row(year, month) == MeasureSummary(measure, Actuals(year), year, PlanStart, month)

Board(year, month) == BoardRow(measure, Row(year, month), year, FALSE, FALSE)

(* A Goal of this Measure and its peers: what progress asks of each of them *)
(* is given, Null where it asks nothing.                                    *)
Kpi(row) ==
  [informational |-> FALSE, status |-> measure.status, progress |-> row.completion,
   weight |-> 1]

PeerKpi(peer) ==
  [informational |-> peer.informational, status |-> peer.status, weight |-> peer.weight,
   progress |-> IF peer.asked = Null THEN Null ELSE Progress(peer.asked)]

Kpis(row, peers) ==
  [i \in 1 .. Len(peers) + 1 |-> IF i = 1 THEN Kpi(row) ELSE PeerKpi(peers[i - 1])]

Goal(rule, kpis) == GoalSummary([status |-> "active", rule |-> rule], kpis)

Owner(s) ==
  IF s.component = Null THEN measure
  ELSE CHOOSE c \in Elements(measure.components) : c.id = s.component

Outcome(s) == CalculatedResult(measure, stored, s, PlanStart)

-----------------------------------------------------------------------------
(* Properties.                                                              *)

(* What Data Entry saves the kernel can use (CALC-001): a stored result     *)
(* computes, or says why it has no value, and the reason is not that it     *)
(* should not have been saved: nobody answered, there is nothing or zero to *)
(* compare it with, the number is too large, or components that compute are *)
(* put together, or held against targets, in a way that does not.           *)
Unsayable == {"NON_FINITE_RESULT", "ZERO_PREVIOUS_PERIOD"}

Misfits ==
  {"INVALID_AGGREGATION_METHOD", "MISSING_COMPONENT_TARGET", "INCOMPATIBLE_COMPONENT_UNITS",
   "NON_SCALAR_COMPONENT", "INVALID_RATIO_COMPONENT_ROLES", "INVALID_RATIO_DENOMINATOR",
   "INVALID_COMPONENT_WEIGHT", "NEEDS_DEFINITION", "TARGET_NOT_FINALIZED", "MISSING_ACTUAL",
   "NON_FINITE_VALUE", "BASELINE_REQUIRED", "INVALID_TARGET_RANGE"}

Computes(result, excuses) ==
  /\ result.state # "ok" => result.issues # {}
  /\ result.state = "invalid" => result.issues \subseteq excuses

SavableComputes ==
  \A s \in stored :
    LET result == Outcome(s)
        parts == {part.result : part \in Elements(result.components)}
    IN  IF measure.type = "multi_component"
        THEN /\ Computes(result, Unsayable \cup Misfits)
             /\ \A part \in parts : Computes(part, Unsayable)
        ELSE /\ Computes(result, Unsayable)
             /\ result.state = "missing" =>
                  measure.type = "year_over_year" \/ result.issues = {"NO_RESPONSES_RECORDED"}

(* A stored result opened in the form and saved unchanged is accepted and   *)
(* is the same result: the form's reading of a row inverts the server's     *)
(* writing of it, although the method of an average is not stored.          *)
Resavable ==
  \A s \in stored :
    LET c == Owner(s)
        d == DraftFromRow(s.row, [frequency |-> c.frequency, resolved |-> s.type,
                                  index |-> s.index])
        w == FormWrite(c, d, s.year)
    IN  /\ FormAccepts(c, d) /\ AcceptsResult(c, w)
        /\ Stored(c, s.component, w) = s

(* The Board's headline of an additive Measure is the year to date that its *)
(* own annual row states (F-07), through December the sum of the year's     *)
(* periods where no full-year result replaces them.                         *)
YearToDateStated(board, periods, month) ==
  LET parts == \A s \in periods : s.type \in {"monthly", "quarterly"}
      sum == SumFunction([s \in periods |-> s.row.value])
  IN  /\ board.annual # Null => board.headline.value = board.annual.actual
      /\ board.headline.state = "invalid" => board.headline.value = Null
      /\ (month = P!Months /\ parts /\ periods # {} /\ FiniteNumber(sum) # Null) =>
            board.headline.value = sum

HeadlineIsYearToDate ==
  Additive(measure.type, measure.frequency) =>
    \A year \in PlanYears, month \in ViewedMonths :
      YearToDateStated(Board(year, month), {s \in stored : s.year = year}, month)

(* Pacing is honest: a Measure is on track only if it has covered its share *)
(* of the way from its baseline to its target (to half a unit of rounding), *)
(* one that has met its target always is, unless it is so far beyond where  *)
(* it should be that no number says how far, and in December the two agree. *)
PacedHonestly(paced, annual, elapsed) ==
  LET onTrack == PacingStatus(paced) = "on_track"
      way == [current |-> annual.current, target |-> annual.target,
              baseline |-> annual.baseline, direction |-> measure.direction]
  IN  annual.state = "ok" =>
        /\ onTrack => 2 * elapsed[2] * Covered(way)
                        >= 2 * elapsed[1] * Span(way) - elapsed[2]
        /\ annual.isComplete => onTrack \/ "NON_FINITE_RESULT" \in paced.issues
        /\ elapsed[1] = elapsed[2] => (onTrack = annual.isComplete)

PacingIsHonest ==
  measure.type # "distribution" =>
    \A year \in PlanYears, month \in ViewedMonths :
    \A row \in {Row(year, month)} :
      PacedHonestly(row.progress.pacing, row.progress.annual,
                    PacingElapsed(measure.frequency, month))

(* A Goal that asks for all of its Measures is complete if and only if each *)
(* of them that has a target has met it - a Measure without a result is not *)
(* one to leave out - and it names what it leaves out.                      *)
Expected(k) ==
  /\ ~k.informational /\ k.status \in {"ready", "active"} /\ k.progress # Null
  /\ k.progress.status \notin {"needs_definition", "target_not_finalized"}

Earned(goal, rule, kpis) ==
  LET all == rule.type = "all_required_kpis"
             \/ (rule.type = "threshold_count" /\ rule.percentage = 100)
      expected == {i \in DOMAIN kpis : Expected(kpis[i])}
      earned == \A i \in expected : kpis[i].progress.isComplete
  IN  /\ all => (goal.complete <=> goal.eligible /\ earned)
      /\ \A i \in DOMAIN kpis :
           kpis[i].informational \/ i \in expected \/ Exclusion(kpis[i]) \in goal.reasons

GoalIsEarned ==
  measure.type # "distribution" =>
    \A year \in PlanYears, month \in ViewedMonths :
    \A row \in {Row(year, month)}, rule \in Rules, peers \in Peers :
    \A kpis \in {Kpis(row, peers)} : Earned(Goal(rule, kpis), rule, kpis)

=============================================================================
