------------------------------ MODULE Periods ------------------------------
(***************************************************************************)
(* Reporting periods (src/src/features/strategy/periods.ts): which period  *)
(* an entry names, which one a form opens on, and the part of the year it  *)
(* closes.  A period is stored as a frequency and an index: a month, a     *)
(* quarter, or Single for the frequencies with one period in a year.       *)
(***************************************************************************)
EXTENDS Integers, FiniteSets

CONSTANTS
  Null,
  FirstYear, LastYear      \* MIN_REPORTING_YEAR and MAX_REPORTING_YEAR

Single == 0
Months == 12
Quarters == 4

ConcreteFrequencies == {"monthly", "quarterly", "annual", "cumulative", "one_time"}
Frequencies == ConcreteFrequencies \cup {"flexible"}
FlexibleModes == {"monthly", "annual"}

IsReportingYear(y) == y \in FirstYear .. LastYear

(* The frequency a definition stands for; Null when it names none: only the *)
(* legacy flexible frequency takes a mode, and it must.                     *)
Resolved(frequency, mode) ==
  CASE frequency = "flexible" /\ mode \in FlexibleModes -> mode
    [] frequency \in ConcreteFrequencies /\ mode = Null -> frequency
    [] OTHER -> Null

PeriodIndexes(resolved) ==
  CASE resolved = "monthly" -> 1 .. Months
    [] resolved = "quarterly" -> 1 .. Quarters
    [] OTHER -> {Single}

(* c: frequency, year, index, month, quarter, mode; at most one of index,   *)
(* month and quarter, and only the one that fits the frequency.  A single   *)
(* period needs none.                                                       *)
SuppliedIndexes(c) == {f \in {"index", "month", "quarter"} : c[f] # Null}

FittingIndexes(resolved) ==
  CASE resolved = "monthly" -> {"index", "month"}
    [] resolved = "quarterly" -> {"index", "quarter"}
    [] OTHER -> {"index"}

PeriodIndex(c, resolved) ==
  IF SuppliedIndexes(c) = {} THEN IF resolved \in {"monthly", "quarterly"} THEN Null ELSE Single
  ELSE c[CHOOSE f \in SuppliedIndexes(c) : TRUE]

(* The validated period, or Null.                                           *)
ValidatedPeriod(c) ==
  LET resolved == Resolved(c.frequency, c.mode)
  IN  IF /\ c.frequency \in Frequencies
         /\ IsReportingYear(c.year)
         /\ resolved # Null
         /\ Cardinality(SuppliedIndexes(c)) <= 1
         /\ SuppliedIndexes(c) \subseteq FittingIndexes(resolved)
         /\ PeriodIndex(c, resolved) \in PeriodIndexes(resolved)
      THEN [frequency |-> c.frequency, resolved |-> resolved, year |-> c.year,
            index |-> PeriodIndex(c, resolved), mode |-> c.mode]
      ELSE Null

(* now: the current year and month.  Past years open on their last period,  *)
(* future years on their first, the current year on the running one.        *)
DefaultPeriod(frequency, mode, year, now) ==
  LET resolved == Resolved(frequency, mode)
      last == IF resolved = "monthly" THEN Months ELSE Quarters
      running == IF resolved = "monthly" THEN now.month ELSE ((now.month - 1) \div 3) + 1
  IN  [frequency |-> frequency, resolved |-> resolved, year |-> year, mode |-> mode,
       index |-> IF resolved \notin {"monthly", "quarterly"} THEN Single
                 ELSE IF year < now.year THEN last
                 ELSE IF year > now.year THEN 1 ELSE running]

(* A fraction as <<numerator, denominator>>.                                *)
ElapsedFraction(p) ==
  CASE p.resolved = "monthly" -> <<p.index, Months>>
    [] p.resolved = "quarterly" -> <<p.index, Quarters>>
    [] OTHER -> <<1, 1>>

AllowedOptions(frequency, mode) == PeriodIndexes(Resolved(frequency, mode))

PeriodForYear(p, year, now) == DefaultPeriod(p.frequency, p.mode, year, now)

=============================================================================
