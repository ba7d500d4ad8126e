--------------------------- MODULE DataEntryLaws ---------------------------
(* The pure parts of Data Entry and of reporting against what they are for, *)
(* over all inputs of a bounded set: evaluated once, when TLC starts.       *)
EXTENDS DistributionEntry

Naming(frequency, mode, field, i) ==
  [frequency |-> frequency, year |-> FirstYear, mode |-> mode,
   index |-> IF field = "index" THEN i ELSE Null,
   month |-> IF field = "month" THEN i ELSE Null,
   quarter |-> IF field = "quarter" THEN i ELSE Null]

(* A frequency's options are exactly the periods that may be stored, under  *)
(* either name of their index; the form opens on one of them, in any year   *)
(* and month; and the last option of a year, and it alone, closes the year  *)
(* (periods.ts).                                                            *)
ASSUME PeriodLaws ==
  \A frequency \in P!Frequencies, mode \in P!FlexibleModes \cup {Null} :
    LET resolved == P!Resolved(frequency, mode)
        options == P!AllowedOptions(frequency, mode)
        period(field, i) == P!ValidatedPeriod(Naming(frequency, mode, field, i))
        elapsed(i) == P!ElapsedFraction([resolved |-> resolved, index |-> i])
    IN  resolved # Null =>
          /\ \A i \in 0 .. P!Months + 1 :
               /\ i \in options <=> period("index", i) # Null
               /\ \A field \in {"month", "quarter"} :
                    period(field, i) # Null => period(field, i) = period("index", i)
          /\ \A month \in 1 .. P!Months, year \in FirstYear .. LastYear :
               P!PeriodForYear([frequency |-> frequency, mode |-> mode], year,
                               [year |-> FirstYear + 1, month |-> month]).index \in options
          /\ \A i \in options :
               /\ elapsed(i)[1] \in 1 .. elapsed(i)[2]
               /\ (elapsed(i)[1] = elapsed(i)[2]) <=> \A j \in options : j <= i

(* Writes of two groups, as a form or another client may fill them in.      *)
GroupWrites ==
  {[total |-> total, exclusive |-> exclusive,
    bands |-> <<[slug |-> 1, label |-> 1, order |-> 0, count |-> a, group |-> g],
                [slug |-> slug, label |-> label, order |-> 1, count |-> b, group |-> h]>>] :
     total \in -1 .. 3, exclusive \in BOOLEAN, a \in -1 .. 3, b \in -1 .. 3,
     g \in {"non_white", "other"}, h \in {"non_white", "other"}, slug \in {1, 2}, label \in {1, 2}}

(* What the form lets pass the server accepts, unless two groups are one;   *)
(* what the server accepts computes, or says that nobody answered; and of   *)
(* groups that exclude each other the shares leave nobody out, the derived  *)
(* one being 100 per cent or nothing when all the groups are, or are not,   *)
(* part of it (validateDistribution, calculateDistribution).                *)
ASSUME DistributionLaws ==
  \A w \in GroupWrites :
    LET result == SingleMeasurement(DistributionQuestion(w))
        distinct == w.bands[1].slug # w.bands[2].slug /\ w.bands[1].label # w.bands[2].label
        groups2 == {b.group : b \in Elements(w.bands)}
    IN  /\ FormAcceptsDistribution(w) /\ distinct => AcceptsDistribution(w)
        /\ AcceptsDistribution(w) =>
             /\ result.state \in {"ok", "missing"}
             /\ result.state = "missing" <=> w.total = 0
        /\ AcceptsDistribution(w) /\ w.exclusive /\ w.total > 0 =>
             /\ result.composition.unallocated = 0
             /\ groups2 = {"non_white"} => result.composition.nonWhite = Whole
             /\ groups2 = {"other"} => result.composition.nonWhite = Null

GoalOutcomes ==
  {GoalResult([state |-> state, eligible |-> state = "ok", complete |-> complete,
               completion |-> IF complete THEN 100 * GoalFactor ELSE 0]) :
     state \in {"ok", "missing"}, complete \in BOOLEAN}

(* The organization's rollup is that of its Priorities together, and is     *)
(* 100 per cent exactly when every Goal that counts is shown complete; a    *)
(* Goal whose Measures are all archived never is (calculateStrategyRollups, *)
(* goalCompletionStatus, calculateStrategicGoalCompletion).                 *)
ASSUME RollupLaws ==
  /\ \A goals \in [1 .. 3 -> [priority : {1, 2}, result : GoalOutcomes]] :
       LET rollups == StrategyRollups(goals)
           all == rollups.organization
           part(p) == rollups.priorities[p]
           summed(Field(_)) ==
             SumFunction([p \in DOMAIN rollups.priorities |-> Field(part(p))])
           shown == {GoalStatus(goals[i].result) : i \in DOMAIN goals} \ {"needs_definition"}
       IN  /\ all.completed = summed(LAMBDA r : r.completed)
           /\ all.counted = summed(LAMBDA r : r.counted)
           /\ all.excluded = summed(LAMBDA r : r.excluded)
           /\ all.completion = 100 * GoalFactor <=> shown = {"complete"}
  /\ \A archived \in 0 .. 2, rule \in Rules :
       GoalCompletion(rule, GoalKpis(<<>>, archived)).complete => rule.type = "manual_status"

(* The download has a row for every Measure, and one for every detail.      *)
ASSUME DownloadLaws ==
  \A components, shares, streams \in 0 .. 2 :
    LET details(n) == [i \in 1 .. n |-> i]
        row == [components |-> details(components),
                demographics |-> IF shares = 0 THEN Null ELSE [shares |-> details(shares)],
                revenue |-> IF streams = 0 THEN Null ELSE [streams |-> details(streams)]]
        rows == DetailRows(row)
    IN  /\ Cardinality(Elements(rows)) = Len(rows)
        /\ Len(rows) = IF components + shares + streams = 0 THEN 1
                       ELSE components + shares + streams

=============================================================================
