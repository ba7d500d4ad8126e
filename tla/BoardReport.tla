----------------------------- MODULE BoardReport -----------------------------
(***************************************************************************)
(* The Board's report: what one Measure, one Goal and their details show   *)
(* (strategic-board-adapter.ts), what is kept of it when the report is     *)
(* made safe to display (strategic-board-report.ts), and the rows of its   *)
(* download.  A cell that would be a sentence is a tag; names, wording and *)
(* number formats are left out.                                            *)
(*                                                                         *)
(* A row is a MeasureSummary of Summary.                                   *)
(***************************************************************************)
EXTENDS Summary

Resulted(result, field) == IF result = Null THEN Null ELSE result[field]

(* What a result shows: a tag, or the number under "value".                 *)
Shown(type, method, state, value, result) ==
  LET told(tag) == [tag |-> tag, value |-> Null]
      number == IF value = Null THEN told("Not reported")
                ELSE [tag |-> "value", value |-> value]
      reported == Cardinality({i \in DOMAIN result.components :
                                 result.components[i].result.state = "ok"})
  IN  CASE state = "missing" ->
             IF result # Null /\ "NO_RESPONSES_RECORDED" \in result.issues
             THEN told("No responses") ELSE told("Not reported")
        [] state = "invalid" -> told("Needs review")
        [] state = "ok" /\ type = "distribution" ->
             [tag |-> "respondents", value |-> Resulted(result, "respondents")]
        [] state = "ok" /\ type = "binary" ->
             CASE value = Factor -> told("Complete")
               [] value = 0 -> told("Not complete")
               [] OTHER -> told("Needs review")
        [] state = "ok" /\ type = "multi_component" /\ method = "none" ->
             [tag |-> "components", value |-> reported]
        [] OTHER -> number

Headline_Latest(m, row) ==
  LET state == IF row.result = Null THEN "missing" ELSE row.result.state
      value == Resulted(row.result, "value")
  IN  [state |-> state, value |-> value,
       shown |-> Shown(m.type, m.method, state, value, row.result)]

(* The headline of an additive Measure is its year to date, while its       *)
(* calculation is that of the latest period.                                *)
Headline(m, row) ==
  LET calculation == row.result
      state == IF calculation # Null THEN calculation.state
               ELSE IF row.current = Null THEN "missing" ELSE "ok"
      value == IF Additive(m.type, m.frequency) \/ calculation = Null THEN row.current
               ELSE calculation.value
  IN  [state |-> state, value |-> value,
       shown |-> Shown(m.type, m.method, state, value, calculation)]

-----------------------------------------------------------------------------
(* Progress toward the annual and the plan target.                          *)

PacingStatus(paced) ==
  CASE paced.status \in {"complete", "exceeded"} -> "on_track"
    [] paced.status = "in_progress" -> "off_track"
    [] paced.status = "not_started" ->
         IF paced.current = Null THEN "not_reported" ELSE "off_track"
    [] OTHER -> paced.status

(* The progress the report states for a scope; Null when it has none.       *)
ProgressInput(m, row, scope) ==
  LET policy == IF scope = "annual" THEN row.policy.annual ELSE row.policy.fullPlan
      progress == IF scope = "annual" THEN row.progress.annual ELSE row.progress.plan
      described == policy.target # Null /\ policy.target.described
      nothing == policy.value = Null /\ ~described
      awaited == progress.status = "target_not_finalized" \/ m.status = "needs_target"
      awaiting == [actual |-> row.current, target |-> Null, percent |-> Null,
                   status |-> "target_not_finalized", pacing |-> Null, paced |-> Null]
  IN  IF nothing THEN IF awaited THEN awaiting ELSE Null
      ELSE [actual |-> progress.current, target |-> progress.target,
            percent |-> progress.actual, status |-> progress.status,
            pacing |-> IF scope = "annual" THEN row.progress.pacingTarget ELSE Null,
            paced |-> IF scope = "annual" THEN PacingStatus(row.progress.pacing) ELSE Null]

(* A progress without a target states no percentage; one above the whole is *)
(* shown as exceeded.                                                       *)
SanitizedProgress(input, status) ==
  LET percent == IF input.target = Null THEN Null ELSE input.percent
      exceeded == percent # Null /\ percent > Whole
  IN  IF input = Null THEN Null
      ELSE [actual |-> input.actual, target |-> input.target, percent |-> percent,
            display |-> IF percent = Null THEN Null ELSE Clamped(percent, Whole),
            exceeded |-> exceeded, pacing |-> input.pacing, paced |-> input.paced,
            status |-> IF input.target = Null
                       THEN IF status = "needs_definition" THEN status
                            ELSE "target_not_finalized"
                       ELSE IF exceeded THEN "exceeded" ELSE input.status]

GoalStatus(result) ==
  IF ~result.eligible \/ result.state # "ok" THEN "needs_definition"
  ELSE IF result.complete THEN "complete"
  ELSE IF result.completion # Null /\ result.completion > 0 THEN "in_progress"
  ELSE "not_started"

-----------------------------------------------------------------------------
(* The details of a Measure.                                                *)

Currencies == {"USD", "currency"}

IsCurrencyComposition(m) ==
  /\ m.type = "multi_component" /\ m.method = "sum" /\ m.components # <<>>
  /\ m.unit \in Currencies
  /\ \A c \in Elements(m.components) : c.type = "currency" /\ c.unit \in Currencies

(* The share of a stream in the total, as a ratio whose scale is 100.       *)
RevenueShare(value, total) ==
  Ratio([num |-> value, den |-> total, fixed |-> Null, scale |-> Whole]).value

(* A component's own row: its result, and its progress or its bare target.  *)
ComponentRow(comp, part, policy) ==
  LET state == IF part = Null THEN "missing" ELSE part.result.state
      value == IF part = Null THEN Null ELSE part.result.value
      bare == [actual |-> Null, target |-> policy.value, percent |-> Null,
               status |-> policy.progressStatus, pacing |-> Null, paced |-> Null]
      progress == IF part # Null /\ part.progress # Null
                  THEN [bare EXCEPT !.actual = part.progress.current,
                                    !.target = part.progress.target,
                                    !.percent = part.progress.actual,
                                    !.status = part.progress.status]
                  ELSE IF policy.target # Null THEN bare ELSE Null
  IN  [kind |-> "component", id |-> comp.id, state |-> state, value |-> value,
       shown |-> Shown(comp.type, Null, state, value,
                       IF part = Null THEN Null ELSE part.result),
       progress |-> progress, status |-> comp.status]

ComponentRows(m, result, year) ==
  LET part(comp) == IF result = Null THEN {}
                    ELSE {p \in Elements(result.components) : p.id = comp.id}
      only(parts) == IF parts = {} THEN Null ELSE CHOOSE p \in parts : TRUE
      decisions == ComponentDecisions(m.components, year)
  IN  [i \in DOMAIN m.components |->
         ComponentRow(m.components[i], only(part(m.components[i])), decisions[i])]

(* The shares of a distribution; a composition that is not of exclusive     *)
(* bands has no non-white share.                                            *)
Demographics(m, result) ==
  LET composition == Resulted(result, "composition")
  IN  IF m.type # "distribution" THEN Null
      ELSE IF composition = Null THEN [total |-> Null, shares |-> <<>>, nonWhite |-> Null]
      ELSE [total |-> result.respondents, nonWhite |-> composition.nonWhite,
            shares |-> composition.share]

Revenue(m, result, rows) ==
  IF ~IsCurrencyComposition(m) THEN Null
  ELSE [total |-> Resulted(result, "value"),
        streams |-> [i \in DOMAIN rows |->
                       [id |-> rows[i].id, value |-> rows[i].value,
                        share |-> RevenueShare(rows[i].value, Resulted(result, "value"))]]]

(* What is displayed of them: a percentage lies between nothing and all.    *)
Displayed(share) == IF share = Null THEN Null ELSE Clamped(share, Whole)

SanitizedComponents(rows) ==
  [i \in DOMAIN rows |->
     [rows[i] EXCEPT !.progress = SanitizedProgress(@, rows[i].status)]]

SanitizedDemographics(input) ==
  IF input = Null THEN Null
  ELSE [input EXCEPT !.nonWhite = Displayed(@),
                     !.shares = [i \in DOMAIN @ |-> Displayed(@[i])]]

SanitizedRevenue(input) ==
  IF input = Null THEN Null
  ELSE [input EXCEPT !.streams =
          [i \in DOMAIN @ |-> [@[i] EXCEPT !.share = Displayed(@)]]]

(* Everything that asks for attention beside a Measure.                     *)
Unresolved(row, questioned, restoredWithHiddenData) ==
  (IF questioned THEN {"UNRESOLVED_QUESTION"} ELSE {})
    \cup (IF row.result = Null THEN {} ELSE row.result.issues)
    \cup (row.completion.issues \ {"MISSING_ACTUAL"})
    \cup (IF restoredWithHiddenData THEN {"HIDDEN_DATA_CHANGED"} ELSE {})

ReportedRow(m, row, components, unresolved) ==
  [headline |-> Headline(m, row),
   annual |-> SanitizedProgress(ProgressInput(m, row, "annual"), m.status),
   plan |-> SanitizedProgress(ProgressInput(m, row, "full_plan"), m.status),
   components |-> SanitizedComponents(components),
   demographics |-> SanitizedDemographics(Demographics(m, row.result)),
   revenue |-> SanitizedRevenue(Revenue(m, row.result, components)),
   unresolved |-> unresolved]

BoardRow(m, row, year, questioned, restored) ==
  ReportedRow(m, row, ComponentRows(m, row.result, year),
              Unresolved(row, questioned, restored))

(* The rows of the download: one for each detail of a Measure, or one for   *)
(* the Measure alone.                                                       *)
DetailRows(row) ==
  LET tagged(kind, n) == [i \in 1 .. n |-> <<kind, i>>]
      details == tagged("component", Len(row.components))
                   \o (IF row.demographics = Null THEN <<>>
                       ELSE tagged("demographic_band", Len(row.demographics.shares)))
                   \o (IF row.revenue = Null THEN <<>>
                       ELSE tagged("revenue_stream", Len(row.revenue.streams)))
  IN  IF details = <<>> THEN <<<<"kpi", 1>>>> ELSE details

=============================================================================
