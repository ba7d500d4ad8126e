---------------------------- MODULE ResultRules ----------------------------
(***************************************************************************)
(* The rules one reported result passes: what the entry form builds from   *)
(* its fields (strategic-data-entry-model.ts), what the server accepts and *)
(* stores (value-entry.ts, with the schemas of validation.ts), and what    *)
(* the calculation kernel is asked about the stored row                    *)
(* (strategy-actuals.ts).  Each of the three is written on its own in the  *)
(* code; the properties relate them.                                       *)
(*                                                                         *)
(* A Measure c: type, frequency, fixed (denominator), allowOver, percents  *)
(* (its unit is "%").  Notes, sources and labels are left out.             *)
(***************************************************************************)
EXTENDS Calculations

CONSTANTS FirstYear, LastYear

P == INSTANCE Periods

NonNegative(x) == x = Null \/ (Given(x) /\ x >= 0)
Positive(x) == x = Null \/ (Given(x) /\ x > 0)

-----------------------------------------------------------------------------
(* The server.  A write w: year, month, quarter, mode, value, num, den and  *)
(* avg, the raw inputs of an average (Null for none).                       *)

NoAverage == [method |-> Null, respondents |-> Null, totalScore |-> Null,
              averageScore |-> Null, maxEach |-> Null, possible |-> Null,
              positive |-> Null, responses |-> Null]

WriteShape(w) == w.value # NaN /\ NonNegative(w.num) /\ Positive(w.den)

(* An annual Measure takes monthly checkpoints: it is entered as flexible.  *)
WritePeriod(c, w) ==
  P!ValidatedPeriod(
    [frequency |-> IF c.frequency = "annual" /\ w.mode # Null
                   THEN "flexible" ELSE c.frequency,
     year |-> w.year, index |-> Null, month |-> w.month, quarter |-> w.quarter,
     mode |-> w.mode])

(* How an average is entered.                                               *)
Methods == {"total_score", "average_score", "percent_positive"}

ASSUME MethodAssumption == Null \notin Methods

PositiveShareRules(a) ==
  /\ Given(a.positive) /\ Given(a.responses)
  /\ a.positive <= a.responses

(* Mutated form: a score is not held against the most there is.             *)
ScoreRules_Uncapped(a, allowOver) ==
  /\ Given(a.respondents) /\ a.respondents >= Factor
  /\ IF a.method = "average_score"
     THEN a.averageScore # Null /\ a.maxEach # Null
     ELSE a.totalScore # Null /\ (a.possible # Null \/ a.maxEach # Null)

ScoreRules(a, allowOver) ==
  LET most == IF a.method = "average_score" THEN a.maxEach
              ELSE IF a.possible # Null THEN a.possible
              ELSE IF a.maxEach # Null THEN (a.respondents * a.maxEach) \div Factor
              ELSE Null
      score == IF a.method = "average_score" THEN a.averageScore ELSE a.totalScore
  IN  /\ Given(a.respondents) /\ a.respondents >= Factor
      /\ score # Null /\ most # Null
      /\ most \in 1 .. MaxNum
      /\ allowOver \/ score <= most

(* Raw fields of one method only.                                           *)
ForeignFields(method) ==
  CASE method = "total_score" -> {"averageScore", "positive", "responses"}
    [] method = "average_score" -> {"totalScore", "possible", "positive", "responses"}
    [] OTHER -> {"totalScore", "averageScore", "possible", "maxEach"}

AverageRules(a, allowOver) ==
  /\ a.method \in Methods
  /\ \A f \in {"respondents", "totalScore", "averageScore", "positive", "responses"} :
       NonNegative(a[f])
  /\ Positive(a.maxEach) /\ Positive(a.possible)
  /\ IF a.method = "percent_positive" THEN PositiveShareRules(a)
     ELSE ScoreRules(a, allowOver)
  /\ \A f \in ForeignFields(a.method) : a[f] = Null

(* A percentage is a share of a whole; a ratio may exceed one.              *)
FractionRules(c, w) ==
  LET ceiling == IF w.den # Null THEN w.den ELSE c.fixed
  IN  /\ w.num # Null /\ ceiling # Null /\ w.value = Null
      /\ c.type = "percentage" => w.num <= ceiling

ValueRules(type, value) ==
  /\ value # Null
  /\ type = "binary" => value \in {0, Factor}
  /\ type \in {"count", "cumulative"} => value >= 0
  /\ type = "milestone" => value \in 0 .. Whole

AcceptsResult(c, w) ==
  /\ c.type \notin {"distribution", "multi_component"}
  /\ WriteShape(w)
  /\ WritePeriod(c, w) # Null
  /\ w.avg # Null => AverageRules(w.avg, c.allowOver)
  /\ CASE c.type \in {"percentage", "ratio"} -> FractionRules(c, w)
       [] c.type = "average" -> w.avg # Null /\ w.value = Null
       [] OTHER -> ValueRules(c.type, w.value)

(* The row a write becomes.  The method of an average is not stored.        *)
StoredRow(c, w) ==
  LET a == IF w.avg = Null THEN NoAverage ELSE w.avg
      scalar == c.type \notin {"binary", "milestone", "percentage", "ratio", "average"}
  IN  [value |-> IF scalar THEN w.value ELSE Null,
       completed |-> IF c.type = "binary" THEN w.value ELSE Null,
       milestone |-> IF c.type = "milestone" THEN w.value ELSE Null,
       num |-> w.num, den |-> w.den,
       raw |-> [f \in DOMAIN NoAverage \ {"method"} |-> a[f]]]

InferredMethod_NoAverage(raw) ==
  IF raw.positive # Null THEN "percent_positive"
  ELSE IF raw.totalScore # Null \/ raw.averageScore # Null THEN "total_score" ELSE Null

InferredMethod(raw) ==
  CASE raw.positive # Null -> "percent_positive"
    [] raw.positive = Null /\ raw.averageScore # Null -> "average_score"
    [] raw.positive = Null /\ raw.averageScore = Null /\ raw.totalScore # Null -> "total_score"
    [] OTHER -> Null

-----------------------------------------------------------------------------
(* The question a stored row puts to the kernel.                            *)

KernelQuestion(c, row, previous) ==
  LET method == InferredMethod(row.raw)
  IN  CASE c.type = "binary" ->
             [type |-> "binary",
              completed |-> IF row.completed = Null THEN Null ELSE row.completed = Factor]
        [] c.type = "milestone" ->
             [type |-> "milestone", completed |-> Null, done |-> row.milestone,
              total |-> Whole]
        [] c.type \in {"percentage", "ratio"} ->
             [type |-> c.type, num |-> row.num, den |-> row.den, fixed |-> c.fixed,
              scale |-> IF c.percents THEN Whole ELSE Factor]
        [] c.type = "average" ->
             Over(row.raw, [type |-> "average", allowOver |-> c.allowOver,
                            maxScale |-> row.raw.maxEach,
                            method |-> IF method = Null THEN "total_score" ELSE method])
        [] c.type = "year_over_year" ->
             [type |-> c.type, current |-> row.value, previous |-> previous]
        [] OTHER -> [type |-> c.type, value |-> row.value]

Calculated(c, row, previous) == SingleMeasurement(KernelQuestion(c, row, previous))

(* A distribution write: total, exclusive, and bands with a slug, a label,  *)
(* a count, an order and a group.                                           *)
AcceptsDistribution(w) ==
  LET different(Field(_)) ==
        Cardinality({Field(b) : b \in Elements(w.bands)}) = Len(w.bands)
  IN  /\ w.total >= 0 /\ w.bands # <<>>
      /\ \A b \in Elements(w.bands) : b.count \in 0 .. w.total
      /\ different(LAMBDA b : b.slug)
      /\ different(LAMBDA b : b.label)
      /\ different(LAMBDA b : b.order)
      /\ w.exclusive => SumOf(w.bands, LAMBDA b : b.count) = w.total

DistributionQuestion(w) ==
  [type |-> "distribution", total |-> w.total, allowNonExclusive |-> ~w.exclusive,
   categories |-> [i \in DOMAIN w.bands |->
                     [id |-> w.bands[i].slug, label |-> w.bands[i].label,
                      count |-> w.bands[i].count, group |-> w.bands[i].group]]]

-----------------------------------------------------------------------------
(* The form.  A draft d holds what is typed: Null for a blank field, NaN    *)
(* for text that is no number; method, flexible mode and period index are   *)
(* chosen.                                                                  *)

Typed(x) == x \notin {Null, NaN}
TypedNonNegative(x) == Typed(x) /\ x >= 0
TypedPositive(x) == Typed(x) /\ x > 0
OptionalPositive(x) == x = Null \/ TypedPositive(x)

FormFrequency(c, d) == IF c.frequency = "flexible" THEN d.mode ELSE c.frequency

FormPeriod(c, d) ==
  LET f == FormFrequency(c, d)
  IN  [mode |-> IF c.frequency = "flexible" THEN d.mode ELSE Null,
       month |-> IF f = "monthly" THEN d.index ELSE Null,
       quarter |-> IF f = "quarterly" THEN d.index ELSE Null]

AcceptsPeriod(c, d) ==
  /\ FormFrequency(c, d) = "monthly" => d.index \in 1 .. 12
  /\ FormFrequency(c, d) = "quarterly" => d.index \in 1 .. 4

AcceptsFraction(c, d) ==
  LET whole == IF c.fixed = Null THEN d.den ELSE c.fixed
  IN  /\ TypedNonNegative(d.num)
      /\ c.fixed = Null => TypedPositive(d.den)
      /\ c.type = "percentage" => d.num <= whole

AcceptsAverage(d) ==
  CASE d.method = "percent_positive" ->
         /\ TypedNonNegative(d.positive) /\ TypedNonNegative(d.responses)
         /\ d.positive <= d.responses
    [] d.method = "average_score" ->
         /\ TypedPositive(d.respondents)
         /\ TypedNonNegative(d.averageScore) /\ TypedPositive(d.maxEach)
    [] OTHER ->
         /\ TypedPositive(d.respondents) /\ TypedNonNegative(d.totalScore)
         /\ OptionalPositive(d.possible) /\ OptionalPositive(d.maxEach)
         /\ d.possible # Null \/ d.maxEach # Null

FormAccepts(c, d) ==
  /\ AcceptsPeriod(c, d)
  /\ CASE c.type \in {"count", "currency", "cumulative", "year_over_year"} -> Typed(d.value)
       [] c.type = "binary" -> d.binary \in {0, Factor}
       [] c.type = "milestone" -> Typed(d.value) /\ d.value \in 0 .. Whole
       [] c.type \in {"percentage", "ratio"} -> AcceptsFraction(c, d)
       [] c.type = "average" -> AcceptsAverage(d)
       [] OTHER -> FALSE

(* The raw fields each method submits; the others are not sent.             *)
SentFields(method) ==
  CASE method = "percent_positive" -> {"method", "positive", "responses"}
    [] method = "average_score" -> {"method", "respondents", "averageScore", "maxEach"}
    [] OTHER -> {"method", "respondents", "totalScore", "possible", "maxEach"}

(* The write the form submits; a fixed denominator is never sent.           *)
FormWrite(c, d, year) ==
  LET period == FormPeriod(c, d)
      fraction == c.type \in {"percentage", "ratio"}
  IN  [year |-> year, month |-> period.month, quarter |-> period.quarter,
       mode |-> period.mode,
       value |-> IF c.type = "binary" THEN d.binary
                 ELSE IF fraction \/ c.type = "average" THEN Null ELSE d.value,
       num |-> IF fraction THEN d.num ELSE Null,
       den |-> IF fraction /\ c.fixed = Null THEN d.den ELSE Null,
       avg |-> IF c.type # "average" THEN Null
               ELSE [f \in DOMAIN NoAverage |->
                       IF f \in SentFields(d.method) THEN d[f] ELSE Null]]

(* The draft a stored row is edited in.                                     *)
DraftFromRow(row, period) ==
  LET method == InferredMethod(row.raw)
  IN  Over(row.raw,
        [mode |-> IF period.frequency = "flexible" /\ period.resolved = "annual"
                  THEN "annual" ELSE "monthly",
         index |-> period.index,
         value |-> IF row.value # Null THEN row.value ELSE row.milestone,
         binary |-> row.completed, num |-> row.num, den |-> row.den,
         method |-> IF method = Null THEN "total_score" ELSE method])

FormAcceptsDistribution(w) ==
  /\ TypedNonNegative(w.total) /\ w.bands # <<>>
  /\ \A b \in Elements(w.bands) : TypedNonNegative(b.count)
  /\ w.exclusive => SumOf(w.bands, LAMBDA b : b.count) = w.total
  /\ ~w.exclusive => \A b \in Elements(w.bands) : b.count <= w.total

=============================================================================
