---------------------------- MODULE MeasureHistory ----------------------------
(***************************************************************************)
(* One Measure of the Active plan over the years: the effective-dated      *)
(* versions of its definition (kpi_measurement_configs), its full-plan     *)
(* Targets, and the results recorded for it, as                            *)
(* features/strategy/configuration-editing.ts, mutations.ts,               *)
(* value-entry.ts, features/catalog/server.ts and                          *)
(* features/installation/server.ts change them.                            *)
(*                                                                         *)
(* One action is one SQLite transaction. A definition's meaning stands for *)
(* its calculation fields (CONFIG_CALCULATION_SEMANTIC_FIELDS), a status   *)
(* for whether calculations and entry are open ("ready" is ready or        *)
(* active). Periods within a year, components, bands, annual and external  *)
(* Targets, labels and audit rows are left out. expected_revision is too:  *)
(* every action reads the rows it decides on in its own transaction.       *)
(***************************************************************************)
EXTENDS Naturals

CONSTANTS
    MaxYear,        \* bound: the years are 1..MaxYear
    Versions,       \* definitions that may come to exist
    Targets,        \* full-plan Targets that may come to exist
    Meanings,       \* ways to calculate the Measure
    Distributions,  \* the meanings that are distributions
    TargetValues,   \* values a Target may be given
    Readable,       \* <<value, meaning>>: the meaning can read the value
    LegacyYears,    \* years with values from before definitions existed
    MinYears        \* bound: no plan is shorter than this

ASSUME HistoryAssumption ==
    /\ MaxYear \in Nat \ {0} /\ MinYears \in Nat \ {0}
    /\ "none" \notin TargetValues
    /\ LegacyYears \subseteq 1..MaxYear
    /\ Meanings # {}

VARIABLES
    plan,           \* the Active plan's range of years
    lineage,        \* are the Measure and its Priority not archived?
    config,         \* kpi_measurement_configs
    target,         \* kpi_targets
    results         \* observations, component entries and distributions

vars == <<plan, lineage, config, target, results>>

-----------------------------------------------------------------------------
Years == 1..MaxYear
Open  == MaxYear + 1            \* effective_to_year IS NULL
Ends  == Years \cup {Open}

Statuses == {"draft", "ready"}

\* While archived a row keeps the status its archive event recorded.
Configs ==
    [state : {"absent", "live", "archived"}, from : Years, to : Ends,
     meaning : Meanings, status : Statuses]
TargetRows ==
    [state : {"absent", "live", "archived"}, year : Years,
     value : TargetValues \cup {"none"}]

Covers(row, y) == row.from <= y /\ y <= row.to
InPlan(y) == plan.start <= y /\ y <= plan.end

\* ensureNoConfigurationOverlap: archived versions keep their years.
FreeYears(v, from, to) ==
    \A w \in Versions \ {v} :
       config[w].state # "absent" => to < config[w].from \/ config[w].to < from

\* ensureConfigurationHistoryFits: no result is orphaned, and a wider range
\* adopts no legacy value.
HistoryFits(v, from, to) ==
    /\ \A r \in results :
          r.version = v => from <= r.year /\ r.year <= to
    /\ \A y \in LegacyYears : Covers(config[v], y) <=> (from <= y /\ y <= to)

\* configurationHasHistoricalValuesInRange.
\* Mutated form: values from before definitions existed do not count.
HasHistory_NoLegacy(v, from, to) == \E r \in results : r.version = v
HasHistory(v, from, to) ==
    \/ \E r \in results : r.version = v
    \/ \E y \in LegacyYears : from <= y /\ y <= to

-----------------------------------------------------------------------------
(***************************************************************************)
(* Full-plan Targets. In every year the nearest future Target counts, else *)
(* the latest past one.                                                    *)
(***************************************************************************)

LiveTargets(T) == {t \in Targets : T[t].state = "live"}

\* selectedFullPlanTarget: is t the one of year y?
Selects(T, t, y) ==
    /\ t \in LiveTargets(T)
    /\ \A u \in LiveTargets(T) :
          IF T[t].year >= y
          THEN T[u].year >= y => T[t].year <= T[u].year
          ELSE T[u].year <= T[t].year

Fits(value, meaning) == value = "none" \/ <<value, meaning>> \in Readable

\* The versions of C effective in year y; there is at most one.
Effective(C, y) == {v \in Versions : C[v].state = "live" /\ Covers(C[v], y)}

\* A Target with a value is read by one meaning in all its years.
ReadAs(C, T, t) ==
    {C[v].meaning : v \in UNION {Effective(C, y) :
        y \in {y \in plan.start..plan.end : Selects(T, t, y)}}}
OneMeaning(C, T) ==
    \A t \in LiveTargets(T) : T[t].value # "none" =>
       \A m, n \in ReadAs(C, T, t) : m = n

\* assertFullPlanTargetConfigurationIntegrity.
Integrity(C, T) ==
    /\ \A t \in LiveTargets(T), y \in plan.start..plan.end : Selects(T, t, y) =>
          /\ Effective(C, y) = {} => T[t].value = "none"
          /\ \A v \in Effective(C, y) : Fits(T[t].value, C[v].meaning)
    /\ OneMeaning(C, T)

\* configurationHasDefinedTarget.
HasDefinedTarget(from, to) ==
    \E t \in Targets, y \in Years :
       /\ InPlan(y) /\ from <= y /\ y <= to
       /\ Selects(target, t, y) /\ target[t].value # "none"

-----------------------------------------------------------------------------
(***************************************************************************)
(* Definitions.                                                            *)
(***************************************************************************)

Definition(from, to, meaning, status) ==
    [state |-> "live", from |-> from, to |-> to, meaning |-> meaning,
     status |-> status]

\* createMeasurementConfiguration. Nothing keeps its years inside the plan.
CreateVersion(v, from, to, meaning, status) ==
    /\ config[v].state = "absent"
    /\ lineage
    /\ from <= to
    /\ FreeYears(v, from, to)
    /\ config' = [config EXCEPT ![v] = Definition(from, to, meaning, status)]
    /\ Integrity(config', target)
    /\ UNCHANGED <<plan, lineage, target, results>>

\* A successor starts within its predecessor's years or right after them.
Follows(p, from) == config[p].from < from /\ from <= config[p].to + 1

\* The one end it may have: its predecessor's, or the plan's.
SuccessorEnd(p, from) ==
    IF config[p].to # Open /\ from <= config[p].to THEN config[p].to ELSE plan.end

\* assertSuccessorConfigurationCompatibility: it stays in the plan and reads
\* the Targets of its years.
SuccessorCompatible(from, to, meaning) ==
    /\ InPlan(from) /\ to <= plan.end
    /\ \A t \in Targets, y \in from..to :
          Selects(target, t, y) => Fits(target[t].value, meaning)

\* createSuccessorMeasurementConfiguration: v takes over from p.
CreateSuccessor(p, v, from, meaning, status) ==
    LET to == SuccessorEnd(p, from) IN
    /\ config[p].state = "live" /\ config[v].state = "absent"
    /\ lineage
    /\ Follows(p, from)
    /\ from <= to
    /\ SuccessorCompatible(from, to, meaning)
    /\ HistoryFits(p, config[p].from, from - 1)
    /\ FreeYears(p, from, to)
    /\ config' = [config EXCEPT
                    ![p].to = from - 1,
                    ![v] = Definition(from, to, meaning, status)]
    /\ Integrity(config', target)
    /\ UNCHANGED <<plan, lineage, target, results>>

\* A change that would give recorded values another meaning, or none.
\* Mutated form: going back to a draft is not such a change.
Reinterprets_MeaningOnly(v, meaning, status) == meaning # config[v].meaning
Reinterprets(v, meaning, status) ==
    \/ meaning # config[v].meaning
    \/ config[v].status = "ready" /\ status # "ready"

\* updateMeasurementConfiguration.
UpdateVersion(v, from, to, meaning, status) ==
    /\ config[v].state = "live"
    /\ lineage
    /\ from <= to
    /\ Reinterprets(v, meaning, status) => ~HasHistory(v, from, to)
    /\ meaning # config[v].meaning =>
          ~HasDefinedTarget(IF from < config[v].from THEN from ELSE config[v].from,
                            IF to > config[v].to THEN to ELSE config[v].to)
    /\ FreeYears(v, from, to)
    /\ HistoryFits(v, from, to)
    /\ config' = [config EXCEPT ![v] = Definition(from, to, meaning, status)]
    /\ Integrity(config', target)
    /\ UNCHANGED <<plan, lineage, target, results>>

\* archiveMeasurementConfig, restoreMeasurementConfig.
ArchiveVersion(v) ==
    /\ config[v].state = "live"
    /\ lineage
    /\ config' = [config EXCEPT ![v].state = "archived"]
    /\ Integrity(config', target)
    /\ UNCHANGED <<plan, lineage, target, results>>

RestoreVersion(v) ==
    /\ config[v].state = "archived"
    /\ lineage
    /\ FreeYears(v, config[v].from, config[v].to)
    /\ config' = [config EXCEPT ![v].state = "live"]
    /\ Integrity(config', target)
    /\ UNCHANGED <<plan, lineage, target, results>>

-----------------------------------------------------------------------------
(***************************************************************************)
(* Targets.                                                                *)
(***************************************************************************)

\* targetSubject and validateTargetMeasurement, for a Target of an InPlan year:
\* the latest version of the year is live and can read the value.
Acceptable(year, value) ==
    /\ lineage
    /\ \E v \in Effective(config, year) : Fits(value, config[v].meaning)

\* ensureNoTargetConflict: archived Targets keep their year.
FreeTargetYear(t, year) ==
    \A u \in Targets \ {t} : target[u].state # "absent" => target[u].year # year

SaveTarget(t, year, value) ==
    /\ InPlan(year)
    /\ Acceptable(year, value)
    /\ FreeTargetYear(t, year)
    /\ target' = [target EXCEPT
                    ![t] = [state |-> "live", year |-> year, value |-> value]]
    /\ Integrity(config, target')
    /\ UNCHANGED <<plan, lineage, config, results>>

CreateTarget(t, year, value) ==
    target[t].state = "absent" /\ SaveTarget(t, year, value)
UpdateTarget(t, year, value) ==
    target[t].state = "live" /\ SaveTarget(t, year, value)

\* Mutated form: what the remaining Targets then stand for is not looked at.
ArchiveTarget_Unchecked(t) ==
    /\ target[t].state = "live"
    /\ lineage
    /\ target' = [target EXCEPT ![t].state = "archived"]
    /\ UNCHANGED <<plan, lineage, config, results>>
ArchiveTarget(t) ==
    /\ target[t].state = "live"
    /\ lineage
    /\ target' = [target EXCEPT ![t].state = "archived"]
    /\ Integrity(config, target')
    /\ UNCHANGED <<plan, lineage, config, results>>

RestoreTarget(t) ==
    /\ target[t].state = "archived"
    /\ \E year \in Years :
          /\ year = IF target[t].year < plan.start THEN plan.start
                    ELSE IF target[t].year > plan.end THEN plan.end
                    ELSE target[t].year
          /\ Acceptable(year, target[t].value)
    /\ target' = [target EXCEPT ![t].state = "live"]
    /\ Integrity(config, target')
    /\ UNCHANGED <<plan, lineage, config, results>>

-----------------------------------------------------------------------------
(***************************************************************************)
(* Results.                                                                *)
(***************************************************************************)

\* What an entry for year y under version v replaces: a distribution is found
\* by its year alone and moved to v, anything else by version and year.
Replaced(v, y) ==
    {r \in results :
        /\ r.year = y
        /\ \/ r.version = v
           \/ config[v].meaning \in Distributions /\ r.meaning \in Distributions}

\* upsertStrategyObservation, upsertStrategyComponentEntry,
\* upsertStrategyDistribution. The meaning kept with a result is a ghost: the
\* one its input was validated against.
EnterResult(y, v) ==
    /\ InPlan(y)
    /\ v \in Effective(config, y)
    /\ lineage
    /\ config[v].status = "ready"
    /\ results' = (results \ Replaced(v, y)) \cup
                  {[version |-> v, year |-> y, meaning |-> config[v].meaning]}
    /\ UNCHANGED <<plan, lineage, config, target>>

\* deleteStrategyObservation and its kin: under an archived version too.
DeleteResult(r) ==
    /\ lineage
    /\ results' = results \ {r}
    /\ UNCHANGED <<plan, lineage, config, target>>

-----------------------------------------------------------------------------
(***************************************************************************)
(* The plan and the catalog.                                               *)
(***************************************************************************)

\* assertPlanRangeCanChange.
\* Mutated form: results are not looked at.
RangeAllowed_AnyResults(start, end) ==
    /\ \A v \in Versions : config[v].state = "live" =>
          config[v].from >= start /\ (config[v].to = Open \/ config[v].to <= end)
    /\ \A t \in LiveTargets(target) : start <= target[t].year /\ target[t].year <= end
RangeAllowed(start, end) ==
    /\ \A v \in Versions : config[v].state = "live" =>
          config[v].from >= start /\ (config[v].to = Open \/ config[v].to <= end)
    /\ \A r \in results : start <= r.year /\ r.year <= end
    /\ \A t \in LiveTargets(target) : start <= target[t].year /\ target[t].year <= end

\* updateActiveInstallation: Goals and memberships follow the new range
\* (extendPlanBoundaryCoverage), definitions and Targets do not.
ChangePlanRange(start, end) ==
    /\ start + MinYears <= end + 1
    /\ [start |-> start, end |-> end] # plan
    /\ RangeAllowed(start, end)
    /\ plan' = [start |-> start, end |-> end]
    /\ UNCHANGED <<lineage, config, target, results>>

\* archiveKPI, archiveCategory and their restores: nothing below is touched.
ArchiveOrRestoreMeasure ==
    /\ lineage' = ~lineage
    /\ UNCHANGED <<plan, config, target, results>>

-----------------------------------------------------------------------------
NoConfig == [state |-> "absent", from |-> 1, to |-> 1,
             meaning |-> CHOOSE m \in Meanings : TRUE, status |-> "draft"]
NoTarget == [state |-> "absent", year |-> 1, value |-> "none"]

Init ==
    /\ plan \in [start : Years, end : Years]
    /\ plan.start + MinYears <= plan.end + 1
    /\ lineage = TRUE
    /\ config = [v \in Versions |-> NoConfig]
    /\ target = [t \in Targets |-> NoTarget]
    /\ results = {}

Define ==
    \E v \in Versions, from \in Years, m \in Meanings, s \in Statuses :
       \/ \E p \in Versions : CreateSuccessor(p, v, from, m, s)
       \/ \E to \in Ends :
             CreateVersion(v, from, to, m, s) \/ UpdateVersion(v, from, to, m, s)

Aim ==
    \E t \in Targets :
       \/ \E y \in Years, value \in TargetValues \cup {"none"} :
             CreateTarget(t, y, value) \/ UpdateTarget(t, y, value)
       \/ ArchiveTarget(t)
       \/ RestoreTarget(t)

Next ==
    \/ Define
    \/ \E v \in Versions : ArchiveVersion(v) \/ RestoreVersion(v)
    \/ Aim
    \/ \E y \in Years, v \in Versions : EnterResult(y, v)
    \/ \E r \in results : DeleteResult(r)
    \/ \E start, end \in Years : ChangePlanRange(start, end)
    \/ ArchiveOrRestoreMeasure

Spec == Init /\ [][Next]_vars

-----------------------------------------------------------------------------
(***************************************************************************)
(* Properties.                                                             *)
(***************************************************************************)

\* The type invariant.
TypeOK ==
    /\ plan \in [start : Years, end : Years]
    /\ lineage \in BOOLEAN
    /\ config \in [Versions -> Configs]
    /\ target \in [Targets -> TargetRows]
    /\ results \subseteq [version : Versions, year : Years, meaning : Meanings]

\* Every recorded result lies in the plan and in the years of the version it
\* was recorded under, and no other version claims its year: whatever is
\* split, moved, archived or restored, a reader finds it under one definition.
ResultsUnderOneVersion ==
    \A r \in results :
       /\ InPlan(r.year)
       /\ config[r.version].state # "absent"
       /\ Covers(config[r.version], r.year)
       /\ \A w \in Versions \ {r.version} :
             config[w].state # "absent" => ~Covers(config[w], r.year)

\* A recorded result is calculated as it was when it was entered: its version
\* still has that meaning and has not been set back to a draft
\* (docs/adr/0021, "effective-dated contracts").
ResultsKeepMeaning ==
    \A r \in results :
       /\ config[r.version].meaning = r.meaning
       /\ config[r.version].status = "ready"

\* Values from before definitions existed, once a version interprets their
\* year, are interpreted by that version, and never differently, for ever.
LegacyReadOnce ==
    [][ \A y \in LegacyYears, v \in Versions :
          (config[v].state # "absent" /\ Covers(config[v], y)) =>
             /\ Covers(config'[v], y)
             /\ config'[v].meaning = config[v].meaning
             /\ \A w \in Versions \ {v} :
                   config'[w].state # "absent" => ~Covers(config'[w], y) ]_vars

\* While the plan's range stays, no edit of a definition or a Target, and no
\* archive or restore of either, makes a Target with a value mean two things.
TargetsKeepMeaning ==
    [][ (plan' = plan /\ OneMeaning(config, target)) =>
           OneMeaning(config', target') ]_vars
=============================================================================
