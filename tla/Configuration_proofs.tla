------------------------- MODULE Configuration_proofs -------------------------
(***************************************************************************)
(* What TLAPS proves of the configuration of the plan: of MeasureHistory,  *)
(* for any years, versions, Targets and meanings, and of BoardEditor, for  *)
(* any Priorities, Measures, pages and bounds.                             *)
(***************************************************************************)
EXTENDS MeasureHistory, BoardEditor, TLAPS

(***************************************************************************)
(* One Measure over the years.                                             *)
(***************************************************************************)

\* Any two versions, archived or not, share no year.
Disjoint ==
    \A v, w \in Versions :
       v # w /\ config[v].state # "absent" /\ config[w].state # "absent" =>
          config[v].to < config[w].from \/ config[w].to < config[v].from

\* A result lies inside its version and the plan.
Inside(r) ==
    /\ InPlan(r.year)
    /\ config[r.version].state # "absent"
    /\ Covers(config[r.version], r.year)

AllInside == \A r \in results : Inside(r)

\* The inductive invariant.
IInv == TypeOK /\ Disjoint /\ AllInside /\ ResultsKeepMeaning

\* The years are numbers, and no end of a version is too.
LEMMA YearFacts ==
    /\ Years \subseteq Nat /\ Ends \subseteq Nat
    /\ Years \subseteq Ends
  BY HistoryAssumption DEF Years, Ends, Open

\* A definition built from typed parts is a typed row.
LEMMA DefinitionType ==
  ASSUME NEW from \in Years, NEW to \in Ends, NEW m \in Meanings, NEW s \in Statuses
  PROVE  Definition(from, to, m, s) \in Configs
  BY DEF Definition, Configs

-----------------------------------------------------------------------------
LEMMA InitInv == Init => IInv
<1> SUFFICES ASSUME Init PROVE IInv
  OBVIOUS
<1>1. (CHOOSE m \in Meanings : TRUE) \in Meanings
  BY HistoryAssumption
<1>2. 1 \in Years /\ 1 \in Ends
  BY HistoryAssumption DEF Years, Ends
<1>3. NoConfig \in Configs
  BY <1>1, <1>2 DEF NoConfig, Configs, Statuses
<1>4. NoTarget \in TargetRows
  BY <1>2 DEF NoTarget, TargetRows
<1>6. TypeOK
  BY <1>3, <1>4 DEF Init, TypeOK
<1>7. Disjoint
  BY DEF Init, Disjoint, NoConfig
<1>8. AllInside /\ ResultsKeepMeaning
  BY DEF Init, AllInside, ResultsKeepMeaning
<1> QED
  BY <1>6, <1>7, <1>8 DEF IInv

\* A version's row is written, its years are free, and the results kept under
\* it fit: create and update.
LEMMA WriteVersion ==
  ASSUME IInv,
         NEW v \in Versions, NEW from \in Years, NEW to \in Ends,
         NEW m \in Meanings, NEW s \in Statuses,
         FreeYears(v, from, to),
         config' = [config EXCEPT ![v] = Definition(from, to, m, s)],
         \A r \in results : r.version = v =>
            from <= r.year /\ r.year <= to /\ m = config[v].meaning /\ s = "ready",
         UNCHANGED <<plan, lineage, target, results>>
  PROVE  IInv'
<1> DEFINE row == Definition(from, to, m, s)
<1>1. row \in Configs /\ row.state = "live" /\ row.from = from /\ row.to = to
      /\ row.meaning = m /\ row.status = s
  BY DefinitionType DEF Definition
<1> HIDE DEF row
<1>2. /\ config'[v] = row
      /\ \A w \in Versions \ {v} : config'[w] = config[w]
  BY DEF IInv, TypeOK, row
<1>3. config' \in [Versions -> Configs]
  BY <1>1 DEF IInv, TypeOK, row
<1>4. TypeOK'
  BY <1>3 DEF IInv, TypeOK
<1>5. Disjoint'
  BY <1>1, <1>2 DEF IInv, Disjoint, FreeYears
<1>6. ASSUME NEW r \in results PROVE Inside(r)' /\ config'[r.version].meaning = r.meaning
                                      /\ config'[r.version].status = "ready"
  <2>1. r.version \in Versions
    BY DEF IInv, TypeOK
  <2>2. CASE r.version = v
    BY <1>1, <1>2, <2>2 DEF IInv, AllInside, Inside, InPlan, Covers, ResultsKeepMeaning
  <2>3. CASE r.version # v
    BY <1>2, <2>1, <2>3 DEF IInv, AllInside, Inside, InPlan, Covers, ResultsKeepMeaning
  <2> QED
    BY <2>2, <2>3
<1>7. AllInside' /\ ResultsKeepMeaning'
  BY <1>6 DEF AllInside, ResultsKeepMeaning
<1> QED
  BY <1>4, <1>5, <1>7 DEF IInv

LEMMA CreateVersionInv ==
  ASSUME IInv, NEW v \in Versions, NEW from \in Years, NEW to \in Ends,
         NEW m \in Meanings, NEW s \in Statuses, CreateVersion(v, from, to, m, s)
  PROVE  IInv'
<1>1. \A r \in results : r.version # v
  BY DEF IInv, AllInside, Inside, CreateVersion
<1> QED
  BY <1>1, WriteVersion DEF CreateVersion

LEMMA UpdateVersionInv ==
  ASSUME IInv, NEW v \in Versions, NEW from \in Years, NEW to \in Ends,
         NEW m \in Meanings, NEW s \in Statuses, UpdateVersion(v, from, to, m, s)
  PROVE  IInv'
<1>1. ASSUME NEW r \in results, r.version = v
      PROVE  /\ from <= r.year /\ r.year <= to
             /\ m = config[v].meaning /\ s = "ready"
  <2>1. from <= r.year /\ r.year <= to
    BY <1>1 DEF UpdateVersion, HistoryFits
  <2>2. ~Reinterprets(v, m, s)
    BY <1>1 DEF UpdateVersion, HasHistory
  <2>3. config[v].status = "ready"
    BY <1>1 DEF IInv, ResultsKeepMeaning
  <2> QED
    BY <2>1, <2>2, <2>3 DEF Reinterprets
<1>2. /\ FreeYears(v, from, to)
      /\ config' = [config EXCEPT ![v] = Definition(from, to, m, s)]
      /\ UNCHANGED <<plan, lineage, target, results>>
  BY DEF UpdateVersion
<1>3. \A r \in results : r.version = v =>
         from <= r.year /\ r.year <= to /\ m = config[v].meaning /\ s = "ready"
  BY <1>1
<1> QED
  BY <1>2, <1>3, WriteVersion, ZenonT(60)

\* A successor takes the years its predecessor gives up; no result is in them.
LEMMA CreateSuccessorInv ==
  ASSUME IInv, NEW p \in Versions, NEW v \in Versions,
         NEW from \in Years, NEW m \in Meanings, NEW s \in Statuses,
         CreateSuccessor(p, v, from, m, s)
  PROVE  IInv'
<1> DEFINE to == SuccessorEnd(p, from)
<1>0. to \in Ends
  BY DEF IInv, TypeOK, Configs, SuccessorEnd, Ends
<1> HIDE DEF to
<1> DEFINE row == Definition(from, to, m, s)
<1> DEFINE shorter == [config[p] EXCEPT !.to = from - 1]
<1>1. /\ config[p].state = "live" /\ config[v].state = "absent"
      /\ config[p].from < from /\ from <= config[p].to + 1
      /\ HistoryFits(p, config[p].from, from - 1)
      /\ FreeYears(p, from, to)
      /\ config' = [config EXCEPT ![p].to = from - 1, ![v] = row]
      /\ UNCHANGED <<plan, lineage, target, results>>
  BY DEF CreateSuccessor, Follows, to
<1>2. p # v
  BY <1>1
<1>3. row \in Configs /\ row.state = "live" /\ row.from = from /\ row.to = to
  BY <1>0, DefinitionType DEF Definition
<1>4. config[p] \in Configs /\ config[v] \in Configs
  BY DEF IInv, TypeOK
<1>5. from - 1 \in Ends
  <2>1. from \in 1..MaxYear /\ config[p].from \in 1..MaxYear
    BY <1>4 DEF Configs, Years
  <2> QED
    BY <1>1, <2>1, HistoryAssumption DEF Ends, Years
<1>6. /\ shorter \in Configs /\ shorter.state = "live"
      /\ shorter.from = config[p].from /\ shorter.to = from - 1
      /\ shorter.meaning = config[p].meaning /\ shorter.status = config[p].status
  BY <1>1, <1>4, <1>5 DEF Configs
<1> HIDE DEF row, shorter
<1>7. /\ config'[p] = shorter /\ config'[v] = row
      /\ \A w \in Versions \ {p, v} : config'[w] = config[w]
  BY <1>1, <1>2 DEF IInv, TypeOK, shorter
<1>8. config' \in [Versions -> Configs]
  <2>1. config' = [w \in Versions |->
                    IF w = v THEN row ELSE IF w = p THEN shorter ELSE config[w]]
    BY <1>1, <1>2 DEF IInv, TypeOK, shorter
  <2> QED
    BY <2>1, <1>3, <1>6 DEF IInv, TypeOK
<1>9. TypeOK'
  BY <1>1, <1>8 DEF IInv, TypeOK
<1>10. Disjoint'
  <2>1. \A w \in Versions : config[w].from \in Nat /\ config[w].to \in Nat
    BY YearFacts DEF IInv, TypeOK, Configs
  <2>2. from \in Nat /\ to \in Nat
    BY <1>0, YearFacts
  <2>3. \A w \in Versions \ {p, v} : config[w].state # "absent" =>
           /\ to < config[w].from \/ config[w].to < from
           /\ config[p].to < config[w].from \/ config[w].to < config[p].from
    BY <1>1 DEF IInv, Disjoint, FreeYears
  <2>4. \A w \in Versions \ {p, v} : config[w].state # "absent" =>
           \/ shorter.to < config[w].from \/ config[w].to < shorter.from
    BY <1>1, <1>6, <2>1, <2>2, <2>3
  <2>5. shorter.to < row.from
    BY <1>3, <1>6, <2>2
  <2>6. ASSUME NEW u \in Versions, NEW w \in Versions, u # w,
               config'[u].state # "absent", config'[w].state # "absent"
        PROVE  config'[u].to < config'[w].from \/ config'[w].to < config'[u].from
    <3>1. CASE u \notin {p, v} /\ w \notin {p, v}
      BY <1>7, <2>6, <3>1 DEF IInv, Disjoint
    <3>2. CASE u \in {p, v} /\ w \in {p, v}
      BY <1>7, <2>5, <2>6, <3>2
    <3>3. CASE u \in {p, v} /\ w \notin {p, v}
      BY <1>3, <1>7, <2>3, <2>4, <2>6, <3>3
    <3>4. CASE u \notin {p, v} /\ w \in {p, v}
      BY <1>3, <1>7, <2>3, <2>4, <2>6, <3>4
    <3> QED
      BY <3>1, <3>2, <3>3, <3>4
  <2> QED
    BY <2>6 DEF Disjoint
<1>11. ASSUME NEW r \in results PROVE Inside(r)' /\ config'[r.version].meaning = r.meaning
                                       /\ config'[r.version].status = "ready"
  <2>1. r.version \in Versions /\ r.version # v
    BY <1>1 DEF IInv, TypeOK, AllInside, Inside
  <2>2. InPlan(r.year)'
    BY <1>1 DEF IInv, AllInside, Inside, InPlan
  <2>3. CASE r.version = p
    BY <1>1, <1>6, <1>7, <2>2, <2>3
       DEF IInv, AllInside, Inside, Covers, ResultsKeepMeaning, HistoryFits
  <2>4. CASE r.version # p
    BY <1>7, <2>1, <2>2, <2>4 DEF IInv, AllInside, Inside, Covers, ResultsKeepMeaning
  <2> QED
    BY <2>3, <2>4
<1>12. AllInside' /\ ResultsKeepMeaning'
  BY <1>1, <1>11 DEF AllInside, ResultsKeepMeaning
<1> QED
  BY <1>9, <1>10, <1>12 DEF IInv

\* Archiving keeps a version's years, restoring asks for them again.
LEMMA ArchiveRestoreInv ==
  ASSUME IInv, NEW v \in Versions, ArchiveVersion(v) \/ RestoreVersion(v)
  PROVE  IInv'
<1> PICK st \in {"live", "archived"} :
      /\ config[v].state # "absent"
      /\ config' = [config EXCEPT ![v].state = st]
      /\ UNCHANGED <<plan, lineage, target, results>>
  BY DEF ArchiveVersion, RestoreVersion
<1> DEFINE row == [config[v] EXCEPT !.state = st]
<1>1. config[v] \in Configs
  BY DEF IInv, TypeOK
<1>2. /\ row \in Configs /\ row.state # "absent"
      /\ row.from = config[v].from /\ row.to = config[v].to
      /\ row.meaning = config[v].meaning /\ row.status = config[v].status
  BY <1>1 DEF Configs
<1> HIDE DEF row
<1>3. config'[v] = row /\ \A w \in Versions \ {v} : config'[w] = config[w]
  BY DEF IInv, TypeOK, row
<1>4. config' \in [Versions -> Configs]
  BY <1>2 DEF IInv, TypeOK, row
<1>5. TypeOK'
  BY <1>4 DEF IInv, TypeOK
<1>6. \A w \in Versions :
         /\ config'[w].state # "absent" <=> config[w].state # "absent"
         /\ config'[w].from = config[w].from /\ config'[w].to = config[w].to
         /\ config'[w].meaning = config[w].meaning
         /\ config'[w].status = config[w].status
  BY <1>2, <1>3
<1>7. Disjoint'
  BY <1>6 DEF IInv, Disjoint
<1>8. AllInside' /\ ResultsKeepMeaning'
  BY <1>6 DEF IInv, TypeOK, AllInside, Inside, InPlan, Covers, ResultsKeepMeaning
<1> QED
  BY <1>5, <1>7, <1>8 DEF IInv

\* A Target's row is written, or only its state.
LEMMA TargetInv ==
  ASSUME IInv, NEW t \in Targets,
         \/ \E y \in Years, value \in TargetValues \cup {"none"} :
               CreateTarget(t, y, value) \/ UpdateTarget(t, y, value)
         \/ ArchiveTarget(t)
         \/ RestoreTarget(t)
  PROVE  IInv'
<1>1. UNCHANGED <<plan, lineage, config, results>>
  BY DEF CreateTarget, UpdateTarget, SaveTarget, ArchiveTarget, RestoreTarget
<1>2. target[t] \in TargetRows
  BY DEF IInv, TypeOK
<1>3. target' \in [Targets -> TargetRows]
  <2>1. ASSUME NEW y \in Years, NEW value \in TargetValues \cup {"none"},
               CreateTarget(t, y, value) \/ UpdateTarget(t, y, value)
        PROVE  target' \in [Targets -> TargetRows]
    <3>1. [state |-> "live", year |-> y, value |-> value] \in TargetRows
      BY DEF TargetRows
    <3> QED
      BY <2>1, <3>1 DEF IInv, TypeOK, CreateTarget, UpdateTarget, SaveTarget
  <2>2. \A st \in {"live", "archived"} : [target[t] EXCEPT !.state = st] \in TargetRows
    BY <1>2 DEF TargetRows
  <2>3. CASE ArchiveTarget(t)
    BY <2>2, <2>3 DEF IInv, TypeOK, ArchiveTarget
  <2>4. CASE RestoreTarget(t)
    BY <2>2, <2>4 DEF IInv, TypeOK, RestoreTarget
  <2> QED
    BY <2>1, <2>3, <2>4
<1> QED
  BY <1>1, <1>3 DEF IInv, TypeOK, Disjoint, AllInside, Inside, InPlan, Covers,
                    ResultsKeepMeaning

\* An entry is kept under the version its year has.
LEMMA EnterResultInv ==
  ASSUME IInv, NEW y \in Years, NEW v \in Versions, EnterResult(y, v)
  PROVE  IInv'
<1> DEFINE entry == [version |-> v, year |-> y, meaning |-> config[v].meaning]
<1>1. config[v] \in Configs
  BY DEF IInv, TypeOK
<1>2. /\ entry \in [version : Versions, year : Years, meaning : Meanings]
      /\ entry.version = v /\ entry.year = y /\ entry.meaning = config[v].meaning
  BY <1>1 DEF Configs
<1> HIDE DEF entry
<1>3. results' \subseteq results \cup {entry}
  BY DEF EnterResult, entry
<1>4. UNCHANGED <<plan, lineage, config, target>>
  BY DEF EnterResult
<1>5. /\ InPlan(y) /\ config[v].state = "live" /\ Covers(config[v], y)
      /\ config[v].status = "ready"
  BY DEF EnterResult, Effective
<1>6. TypeOK'
  BY <1>2, <1>3, <1>4 DEF IInv, TypeOK
<1>7. Disjoint'
  BY <1>4 DEF IInv, Disjoint
<1>8. AllInside' /\ ResultsKeepMeaning'
  BY <1>2, <1>3, <1>4, <1>5
     DEF IInv, AllInside, Inside, InPlan, Covers, ResultsKeepMeaning
<1> QED
  BY <1>6, <1>7, <1>8 DEF IInv

\* Steps that leave the definitions alone and add no result.
LEMMA OtherInv ==
  ASSUME IInv,
         \/ \E r \in results : DeleteResult(r)
         \/ \E start, end \in Years : ChangePlanRange(start, end)
         \/ ArchiveOrRestoreMeasure
         \/ UNCHANGED vars
  PROVE  IInv'
<1>1. UNCHANGED <<config, target>> /\ results' \subseteq results
  BY DEF DeleteResult, ChangePlanRange, ArchiveOrRestoreMeasure, vars
<1>2. plan' \in [start : Years, end : Years] /\ lineage' \in BOOLEAN
  <2>1. CASE \E start, end \in Years : ChangePlanRange(start, end)
    BY <2>1 DEF IInv, TypeOK, ChangePlanRange
  <2>2. CASE ArchiveOrRestoreMeasure
    BY <2>2 DEF IInv, TypeOK, ArchiveOrRestoreMeasure
  <2>3. CASE UNCHANGED <<plan, lineage>>
    BY <2>3 DEF IInv, TypeOK
  <2> QED
    BY <2>1, <2>2, <2>3 DEF DeleteResult, vars
<1>3. \A r \in results : InPlan(r.year)'
  <2>1. CASE \E start, end \in Years : ChangePlanRange(start, end)
    BY <2>1 DEF ChangePlanRange, RangeAllowed, InPlan
  <2>2. CASE UNCHANGED plan
    BY <2>2 DEF IInv, AllInside, Inside, InPlan
  <2> QED
    BY <2>1, <2>2 DEF DeleteResult, ArchiveOrRestoreMeasure, vars
<1>4. TypeOK' /\ Disjoint'
  BY <1>1, <1>2 DEF IInv, TypeOK, Disjoint
<1>5. AllInside' /\ ResultsKeepMeaning'
  BY <1>1, <1>3 DEF IInv, AllInside, Inside, Covers, ResultsKeepMeaning
<1> QED
  BY <1>4, <1>5 DEF IInv

LEMMA NextInv == IInv /\ [Next]_vars => IInv'
<1> SUFFICES ASSUME IInv, [Next]_vars PROVE IInv'
  OBVIOUS
<1>1. CASE Define
  <2>1. PICK v \in Versions, from \in Years, m \in Meanings, s \in Statuses :
           \/ \E p \in Versions : CreateSuccessor(p, v, from, m, s)
           \/ \E to \in Ends : \/ CreateVersion(v, from, to, m, s)
                             \/ UpdateVersion(v, from, to, m, s)
    BY <1>1 DEF Define
  <2>2. CASE \E to \in Ends : CreateVersion(v, from, to, m, s)
    BY <2>2, CreateVersionInv
  <2>3. CASE \E p \in Versions : CreateSuccessor(p, v, from, m, s)
    BY <2>3, CreateSuccessorInv
  <2>4. CASE \E to \in Ends : UpdateVersion(v, from, to, m, s)
    BY <2>4, UpdateVersionInv
  <2> QED
    BY <2>1, <2>2, <2>3, <2>4
<1>2. CASE \E v \in Versions : ArchiveVersion(v) \/ RestoreVersion(v)
  BY <1>2, ArchiveRestoreInv
<1>3. CASE Aim
  BY <1>3, TargetInv DEF Aim
<1>4. CASE \E y \in Years, v \in Versions : EnterResult(y, v)
  BY <1>4, EnterResultInv
<1>5. CASE \/ \E r \in results : DeleteResult(r)
           \/ \E start, end \in Years : ChangePlanRange(start, end)
           \/ ArchiveOrRestoreMeasure
           \/ UNCHANGED vars
  BY <1>5, OtherInv
<1> QED
  BY <1>1, <1>2, <1>3, <1>4, <1>5 DEF Next

THEOREM Invariant == Spec => []IInv
  BY InitInv, NextInv, PTL DEF Spec

-----------------------------------------------------------------------------
\* Plan, definitions, Targets and results always hold values of their types:
\* in particular, splitting a version leaves its predecessor a year.
THEOREM TypeCorrect == Spec => []TypeOK
<1>1. IInv => TypeOK
  BY DEF IInv
<1> QED
  BY <1>1, Invariant, PTL

\* Every result stays in the plan, in the years of its own version, and in
\* those of no other (ensureConfigurationHistoryFits,
\* ensureNoConfigurationOverlap, assertPlanRangeCanChange).
THEOREM ResultsStayUnderOneVersion == Spec => []ResultsUnderOneVersion
<1>1. IInv => ResultsUnderOneVersion
  <2> SUFFICES ASSUME IInv, NEW r \in results
               PROVE  /\ Inside(r)
                      /\ \A w \in Versions \ {r.version} :
                            config[w].state # "absent" => ~Covers(config[w], r.year)
    BY DEF ResultsUnderOneVersion, Inside
  <2>1. Inside(r)
    BY DEF IInv, AllInside
  <2>2. r.version \in Versions /\ r.year \in Nat
    BY YearFacts DEF IInv, TypeOK
  <2>3. \A w \in Versions : config[w].from \in Nat /\ config[w].to \in Nat
    BY YearFacts DEF IInv, TypeOK, Configs
  <2> QED
    BY <2>1, <2>2, <2>3 DEF IInv, Disjoint, Inside, Covers
<1> QED
  BY <1>1, Invariant, PTL

\* No edit reinterprets a recorded result: the guard of
\* updateMeasurementConfiguration is enough, whatever successors, restores
\* and moved distributions come between.
THEOREM ResultsAreNeverReinterpreted == Spec => []ResultsKeepMeaning
<1>1. IInv => ResultsKeepMeaning
  BY DEF IInv
<1> QED
  BY <1>1, Invariant, PTL

-----------------------------------------------------------------------------
\* What one step does to the version v that reads the legacy year y.
ReadAsBefore(y, v) ==
    /\ Covers(config'[v], y)
    /\ config'[v].meaning = config[v].meaning
    /\ \A w \in Versions \ {v} : config'[w].state # "absent" => ~Covers(config'[w], y)

\* A version that is written over free years takes no year of another one.
LEMMA FreeYearsApart ==
  ASSUME IInv, NEW v \in Versions, NEW w \in Versions \ {v}, NEW y \in Years,
         NEW from \in Years, NEW to \in Ends, FreeYears(w, from, to),
         config[v].state # "absent", Covers(config[v], y)
  PROVE  ~(from <= y /\ y <= to)
<1>1. config[v].from \in Nat /\ config[v].to \in Nat
  BY YearFacts DEF IInv, TypeOK, Configs
<1>2. to < config[v].from \/ config[v].to < from
  BY DEF FreeYears
<1>3. y \in Nat /\ from \in Nat /\ to \in Nat
  BY YearFacts
<1>4. config[v].from <= y /\ y <= config[v].to
  BY DEF Covers
<1> QED
  BY <1>1, <1>2, <1>3, <1>4

\* Two versions never read the same year.
LEMMA OneReader ==
  ASSUME IInv, NEW v \in Versions, NEW w \in Versions \ {v}, NEW y \in Years,
         config[v].state # "absent", Covers(config[v], y),
         config[w].state # "absent"
  PROVE  ~Covers(config[w], y)
<1>1. /\ config[v].from \in Nat /\ config[v].to \in Nat
      /\ config[w].from \in Nat /\ config[w].to \in Nat
  BY YearFacts DEF IInv, TypeOK, Configs
<1>2. config[v].to < config[w].from \/ config[w].to < config[v].from
  BY DEF IInv, Disjoint
<1> QED
  BY <1>1, <1>2, YearFacts DEF Covers

LEMMA LegacyStep ==
  ASSUME IInv, [Next]_vars, NEW y \in LegacyYears, NEW v \in Versions,
         config[v].state # "absent", Covers(config[v], y)
  PROVE  ReadAsBefore(y, v)
<1>1. y \in Years
  BY HistoryAssumption DEF Years
<1>2. \A w \in Versions \ {v} : config[w].state # "absent" => ~Covers(config[w], y)
  BY <1>1, OneReader
<1>3. ASSUME NEW u \in Versions, NEW from \in Years, NEW to \in Ends,
             NEW m \in Meanings, NEW s \in Statuses, CreateVersion(u, from, to, m, s)
      PROVE  ReadAsBefore(y, v)
  <2>1. /\ u # v /\ FreeYears(u, from, to)
        /\ config' = [config EXCEPT ![u] = Definition(from, to, m, s)]
    BY <1>3 DEF CreateVersion
  <2>2. ~(from <= y /\ y <= to)
    BY <1>1, <2>1, FreeYearsApart
  <2>3. /\ config'[u].from = from /\ config'[u].to = to
        /\ \A w \in Versions \ {u} : config'[w] = config[w]
    BY <2>1 DEF IInv, TypeOK, Definition
  <2> QED
    BY <1>2, <2>1, <2>2, <2>3 DEF ReadAsBefore, Covers
<1>4. ASSUME NEW p \in Versions, NEW u \in Versions, NEW from \in Years,
             NEW m \in Meanings, NEW s \in Statuses, CreateSuccessor(p, u, from, m, s)
      PROVE  ReadAsBefore(y, v)
  <2> DEFINE to == SuccessorEnd(p, from)
  <2>0. to \in Ends
    BY DEF IInv, TypeOK, Configs, SuccessorEnd, Ends
  <2> HIDE DEF to
  <2>1. /\ u # v /\ u # p
        /\ HistoryFits(p, config[p].from, from - 1) /\ FreeYears(p, from, to)
        /\ config[p].state # "absent"
        /\ config' = [config EXCEPT ![p].to = from - 1,
                                    ![u] = Definition(from, to, m, s)]
    BY <1>4 DEF CreateSuccessor, to
  <2>2. config[p] \in Configs
    BY DEF IInv, TypeOK
  <2>3. /\ config'[u].from = from /\ config'[u].to = to
        /\ config'[p].from = config[p].from /\ config'[p].to = from - 1
        /\ config'[p].meaning = config[p].meaning
        /\ \A w \in Versions \ {u, p} : config'[w] = config[w]
    BY <2>1, <2>2 DEF IInv, TypeOK, Definition, Configs
  <2>4. Covers(config[p], y) <=> Covers(config'[p], y)
    BY <2>1, <2>3 DEF HistoryFits, Covers
  <2>5. ~(from <= y /\ y <= to)
    <3>1. CASE v = p
      <4>1. y \in Nat /\ from \in Nat
        BY <1>1, YearFacts
      <4>2. y <= from - 1
        BY <2>3, <2>4, <3>1 DEF Covers
      <4> QED
        BY <4>1, <4>2
    <3>2. CASE v # p
      BY <1>1, <2>0, <2>1, <3>2, FreeYearsApart
    <3> QED
      BY <3>1, <3>2
  <2>6. ~Covers(config'[u], y)
    BY <2>3, <2>5 DEF Covers
  <2>7. CASE v = p
    BY <1>2, <2>1, <2>3, <2>4, <2>6, <2>7 DEF ReadAsBefore
  <2>8. CASE v # p
    BY <1>2, <2>1, <2>3, <2>4, <2>6, <2>8 DEF ReadAsBefore
  <2> QED
    BY <2>7, <2>8
<1>5. ASSUME NEW u \in Versions, NEW from \in Years, NEW to \in Ends,
             NEW m \in Meanings, NEW s \in Statuses, UpdateVersion(u, from, to, m, s)
      PROVE  ReadAsBefore(y, v)
  <2>1. /\ FreeYears(u, from, to) /\ HistoryFits(u, from, to)
        /\ Reinterprets(u, m, s) => ~HasHistory(u, from, to)
        /\ config' = [config EXCEPT ![u] = Definition(from, to, m, s)]
    BY <1>5 DEF UpdateVersion
  <2>2. /\ config'[u].from = from /\ config'[u].to = to /\ config'[u].meaning = m
        /\ \A w \in Versions \ {u} : config'[w] = config[w]
    BY <2>1 DEF IInv, TypeOK, Definition
  <2>3. CASE v = u
    <3>1. from <= y /\ y <= to
      BY <2>1, <2>3 DEF HistoryFits
    <3>2. m = config[v].meaning
      BY <2>1, <2>3, <3>1 DEF HasHistory, Reinterprets
    <3> QED
      BY <1>2, <2>2, <2>3, <3>1, <3>2 DEF ReadAsBefore, Covers
  <2>4. CASE v # u
    <3>1. ~(from <= y /\ y <= to)
      BY <1>1, <2>1, <2>4, FreeYearsApart
    <3> QED
      BY <1>2, <2>2, <2>4, <3>1 DEF ReadAsBefore, Covers
  <2> QED
    BY <2>3, <2>4
<1>6. CASE Define
  <2>1. PICK u \in Versions, from \in Years, m \in Meanings, s \in Statuses :
           \/ \E p \in Versions : CreateSuccessor(p, u, from, m, s)
           \/ \E to \in Ends : \/ CreateVersion(u, from, to, m, s)
                             \/ UpdateVersion(u, from, to, m, s)
    BY <1>6 DEF Define
  <2> QED
    BY <2>1, <1>3, <1>4, <1>5
<1>7. CASE \E u \in Versions : ArchiveVersion(u) \/ RestoreVersion(u)
  <2>1. PICK u \in Versions, st \in {"live", "archived"} :
          config[u].state # "absent" /\ config' = [config EXCEPT ![u].state = st]
    BY <1>7 DEF ArchiveVersion, RestoreVersion
  <2>2. \A w \in Versions : config[w] \in Configs
    BY DEF IInv, TypeOK
  <2>3. \A w \in Versions :
           /\ config'[w].state # "absent" => config[w].state # "absent"
           /\ config'[w].from = config[w].from /\ config'[w].to = config[w].to
           /\ config'[w].meaning = config[w].meaning
    BY <2>1, <2>2 DEF IInv, TypeOK, Configs
  <2> QED
    BY <1>2, <2>3 DEF ReadAsBefore, Covers
<1>8. CASE UNCHANGED config
  BY <1>2, <1>8 DEF ReadAsBefore
<1>9. \/ Define
      \/ \E u \in Versions : ArchiveVersion(u) \/ RestoreVersion(u)
      \/ UNCHANGED config
  BY DEF Next, vars, Aim, CreateTarget, UpdateTarget, SaveTarget, ArchiveTarget,
         RestoreTarget, EnterResult, DeleteResult, ChangePlanRange, ArchiveOrRestoreMeasure
<1> QED
  BY <1>6, <1>7, <1>8, <1>9

\* Once a version interprets the values from before definitions existed, no
\* edit, split, archive or restore gives them another meaning or another
\* reader (legacy_range_adoption_conflict, historical_semantics_conflict).
THEOREM LegacyIsReadOnce == Spec => LegacyReadOnce
<1>1. IInv /\ [Next]_vars =>
        [ \A y \in LegacyYears, v \in Versions :
            (config[v].state # "absent" /\ Covers(config[v], y)) =>
               /\ Covers(config'[v], y)
               /\ config'[v].meaning = config[v].meaning
               /\ \A w \in Versions \ {v} :
                     config'[w].state # "absent" => ~Covers(config'[w], y) ]_vars
  BY LegacyStep DEF ReadAsBefore
<1> QED
  BY <1>1, Invariant, PTL DEF Spec, LegacyReadOnce

\* No edit of definitions or Targets makes a Target mean two things: every
\* one of them ends with assertFullPlanTargetConfigurationIntegrity.
THEOREM TargetsKeepTheirMeaning == Spec => TargetsKeepMeaning
<1>1. ASSUME Next, plan' = plan, OneMeaning(config, target)
      PROVE  OneMeaning(config', target')
  <2>1. CASE Define
    BY <1>1, <2>1 DEF Define, CreateVersion, CreateSuccessor, UpdateVersion, Integrity
  <2>2. CASE \E u \in Versions : ArchiveVersion(u) \/ RestoreVersion(u)
    BY <1>1, <2>2 DEF ArchiveVersion, RestoreVersion, Integrity
  <2>3. CASE Aim
    BY <1>1, <2>3 DEF Aim, CreateTarget, UpdateTarget, SaveTarget, ArchiveTarget,
                      RestoreTarget, Integrity
  <2>4. CASE UNCHANGED <<config, target>>
    BY <1>1, <2>4
  <2> QED
    BY <1>1, <2>1, <2>2, <2>3, <2>4
       DEF Next, EnterResult, DeleteResult, ChangePlanRange, ArchiveOrRestoreMeasure
<1>2. [Next]_vars =>
        [ (plan' = plan /\ OneMeaning(config, target)) => OneMeaning(config', target') ]_vars
  BY <1>1
<1> QED
  BY <1>2, PTL DEF Spec, TargetsKeepMeaning

-----------------------------------------------------------------------------
(***************************************************************************)
(* What the Board sees and what the catalog keeps.                         *)
(*                                                                         *)
(* The hierarchy of Measures stays a forest by itself.  The Board's scope  *)
(* needs the catalog: what it shows is what was saved (Kept) because       *)
(* nothing it links can be moved or deleted; and no approval is            *)
(* overwritten because a page that is stale names a revision that is past, *)
(* or a plan that is closed (Pages).                                       *)
(***************************************************************************)

(* The stored scope of each plan is the content last accepted for it, and   *)
(* what it links is where it was.                                           *)
Kept ==
  \A n \in {1, 2} :
    /\ saved[n] = Stored(n)
    /\ \A p \in LiveRows(board[n].rows) :
         /\ p \in DOMAIN priority /\ PlanOf[p] = n
         /\ \A k \in board[n].rows[p].links : k \in DOMAIN kpi /\ kpi[k].priority = p

(* A stale page of the Active plan is of an earlier revision.               *)
Pages ==
  \A a \in Admins : page[a] # NoPage =>
    /\ page[a].plan <= activePlan
    /\ page[a].plan = activePlan =>
         /\ page[a].revision <= board[activePlan].revision
         /\ page[a].stale => page[a].revision < board[activePlan].revision

BoardInv ==
  BoardTypeOK /\ HierarchyIsForest /\ Kept /\ Pages /\ NoApprovalOverwritten

-----------------------------------------------------------------------------
(* The hierarchy.                                                           *)

(* Below is the smallest closed set.                                        *)
LEMMA BelowLeast ==
  ASSUME NEW rows, NEW K, NEW S \in SUBSET Kpis, K \subseteq S, Closed(rows, S)
  PROVE  Below(rows, K) \subseteq S
BY DEF Below

LEMMA BelowClosed ==
  ASSUME NEW rows, DOMAIN rows \subseteq Kpis, NEW K \in SUBSET Kpis
  PROVE  /\ K \subseteq Below(rows, K)
         /\ Below(rows, K) \subseteq Kpis
         /\ Closed(rows, Below(rows, K))
BY DEF Below, Closed

LEMMA BelowStored ==
  ASSUME NEW rows, DOMAIN rows \subseteq Kpis, NEW K \in SUBSET DOMAIN rows
  PROVE  Below(rows, K) \subseteq DOMAIN rows
<1>1. Closed(rows, DOMAIN rows)
  BY DEF Closed
<1> QED
  BY <1>1, BelowLeast

(* A closed set that holds the children of k and not k itself.              *)
LEMMA ForestWitness ==
  ASSUME NEW rows, DOMAIN rows \subseteq Kpis, NEW x \in Kpis,
         NEW S \in SUBSET Kpis, Closed(rows, S), x \notin S,
         \A c \in DOMAIN rows : rows[c].parent = x => c \in S
  PROVE  x \notin Below(rows, {c \in DOMAIN rows : rows[c].parent = x})
<1>1. {c \in DOMAIN rows : rows[c].parent = x} \subseteq S
  OBVIOUS
<1> QED
  BY <1>1, BelowLeast

(* Fewer Measures, each where it was, are a forest again.                   *)
LEMMA ForestOfFewer ==
  ASSUME NEW rows, NEW fewer, DOMAIN rows \subseteq Kpis,
         DOMAIN fewer \subseteq DOMAIN rows, Forest(rows),
         \A k \in DOMAIN fewer : fewer[k].parent = rows[k].parent
  PROVE  Forest(fewer)
<1> SUFFICES ASSUME NEW x \in DOMAIN fewer
             PROVE  x \notin Below(fewer, {c \in DOMAIN fewer : fewer[c].parent = x})
  BY DEF Forest
<1> DEFINE S == Below(rows, {c \in DOMAIN rows : rows[c].parent = x})
<1>1. {c \in DOMAIN rows : rows[c].parent = x} \in SUBSET Kpis
  OBVIOUS
<1>2. S \in SUBSET Kpis /\ Closed(rows, S) /\ x \notin S
      /\ {c \in DOMAIN rows : rows[c].parent = x} \subseteq S
  BY <1>1, BelowClosed DEF Forest
<1>3. Closed(fewer, S)
  BY <1>2 DEF Closed
<1>4. \A c \in DOMAIN fewer : fewer[c].parent = x => c \in S
  BY <1>2
<1> QED
  <2> HIDE DEF S
  <2> QED
    BY <1>2, <1>3, <1>4, ForestWitness

(* A Measure of its own, below none.                                        *)
LEMMA ForestWithNew ==
  ASSUME NEW rows, NEW more, NEW k \in Kpis, DOMAIN rows \subseteq Kpis, Forest(rows),
         DOMAIN more = DOMAIN rows \cup {k}, more[k].parent = NoKpi, NoKpi \notin Kpis,
         \A x \in DOMAIN rows : x # k => more[x].parent = rows[x].parent
  PROVE  Forest(more)
<1> SUFFICES ASSUME NEW x \in DOMAIN more
             PROVE  x \notin Below(more, {c \in DOMAIN more : more[c].parent = x})
  BY DEF Forest
<1>1. CASE x = k
  <2> DEFINE S == Kpis \ {k}
  <2>1. S \in SUBSET Kpis /\ x \notin S /\ DOMAIN more \subseteq Kpis
    BY <1>1
  <2>2. Closed(more, S)
    BY DEF Closed
  <2>3. \A c \in DOMAIN more : more[c].parent = x => c \in S
    BY <1>1
  <2> HIDE DEF S
  <2> QED
    BY <2>1, <2>2, <2>3, <1>1, ForestWitness
<1>2. CASE x # k
  <2> DEFINE S == Below(rows, {c \in DOMAIN rows : rows[c].parent = x})
  <2>1. {c \in DOMAIN rows : rows[c].parent = x} \in SUBSET Kpis /\ x \in DOMAIN rows
    BY <1>2
  <2>2. S \in SUBSET Kpis /\ Closed(rows, S) /\ x \notin S
        /\ {c \in DOMAIN rows : rows[c].parent = x} \subseteq S
    BY <2>1, BelowClosed DEF Forest
  <2>3. Closed(more, S)
    BY <2>2 DEF Closed
  <2>4. \A c \in DOMAIN more : more[c].parent = x => c \in S
    BY <2>2
  <2>5. DOMAIN more \subseteq Kpis
    OBVIOUS
  <2> HIDE DEF S
  <2> QED
    BY <2>1, <2>2, <2>3, <2>4, <2>5, ForestWitness
<1> QED
  BY <1>1, <1>2

(* A Measure hung below one that does not hang below it.                    *)
LEMMA ForestAfterMove ==
  ASSUME NEW rows, NEW moved, NEW k \in DOMAIN rows, NEW parent,
         DOMAIN rows \subseteq Kpis, Forest(rows), DOMAIN moved = DOMAIN rows,
         moved[k].parent = parent, parent \notin Below(rows, {k}),
         \A x \in DOMAIN rows : x # k => moved[x].parent = rows[x].parent
  PROVE  Forest(moved)
<1> SUFFICES ASSUME NEW x \in DOMAIN moved
             PROVE  x \notin Below(moved, {c \in DOMAIN moved : moved[c].parent = x})
  BY DEF Forest
<1> DEFINE Under == Below(rows, {c \in DOMAIN rows : rows[c].parent = x})
           UnderK == Below(rows, {k})
<1>1. {c \in DOMAIN rows : rows[c].parent = x} \in SUBSET Kpis /\ {k} \in SUBSET Kpis
      /\ x \in DOMAIN rows /\ x \in Kpis
  OBVIOUS
<1>2. Under \in SUBSET Kpis /\ Closed(rows, Under) /\ x \notin Under
      /\ {c \in DOMAIN rows : rows[c].parent = x} \subseteq Under
  BY <1>1, BelowClosed DEF Forest
<1>3. UnderK \in SUBSET Kpis /\ Closed(rows, UnderK) /\ k \in UnderK
  BY <1>1, BelowClosed
<1>4. CASE x \in UnderK
  <2>1. {c \in DOMAIN rows : rows[c].parent = x} \subseteq UnderK
    BY <1>3, <1>4 DEF Closed
  <2>2. Under \subseteq UnderK
    <3> HIDE DEF UnderK
    <3> QED
      BY <2>1, <1>3, BelowLeast
  <2>3. Closed(moved, Under)
    BY <1>2, <2>2 DEF Closed
  <2>4. \A c \in DOMAIN moved : moved[c].parent = x => c \in Under
    BY <1>2, <1>4
  <2> HIDE DEF Under, UnderK
  <2> QED
    BY <1>1, <1>2, <2>3, <2>4, ForestWitness
<1>5. CASE x \notin UnderK
  <2> DEFINE S == Under \cup UnderK
  <2>1. S \in SUBSET Kpis /\ x \notin S
    BY <1>2, <1>3, <1>5
  <2>2. Closed(moved, S)
    BY <1>2, <1>3 DEF Closed
  <2>3. \A c \in DOMAIN moved : moved[c].parent = x => c \in S
    BY <1>2, <1>3
  <2> HIDE DEF S
  <2> QED
    BY <1>1, <2>1, <2>2, <2>3, ForestWitness
<1> QED
  BY <1>4, <1>5

-----------------------------------------------------------------------------
(* The catalog under the Board's scope.                                     *)

CatalogTyped ==
  /\ DOMAIN priority \subseteq Priorities /\ priority \in [DOMAIN priority -> PriorityRow]
  /\ DOMAIN kpi \subseteq Kpis /\ kpi \in [DOMAIN kpi -> KpiRow]

(* What Board reporting links is neither deleted nor moved.                 *)
LeavesBoardAlone ==
  /\ \A n \in {1, 2} : \A p \in DOMAIN board[n].rows : p \in DOMAIN priority => p \in DOMAIN priority'
  /\ \A k \in BoardLinked : k \in DOMAIN kpi => k \in DOMAIN kpi' /\ kpi'[k].priority = kpi[k].priority

LEMMA CreateStrategicMeasureKeeps ==
  ASSUME CatalogTyped, Forest(kpi), NEW k \in Kpis, NEW p \in DOMAIN priority,
         CreateStrategicMeasure(k, p)
  PROVE  CatalogTyped' /\ Forest(kpi') /\ LeavesBoardAlone /\ DeletionSpares
<1> USE CatalogAssumption
<1> DEFINE row == [priority |-> p, parent |-> NoKpi, active |-> TRUE, archived |-> FALSE,
                   was |-> TRUE, strategic |-> TRUE, entries |-> FALSE]
<1>1. k \notin DOMAIN kpi /\ priority' = priority
      /\ kpi' = [x \in DOMAIN kpi \cup {k} |-> IF x # k THEN kpi[x] ELSE row]
  BY DEF CreateStrategicMeasure
<1>2. row \in KpiRow /\ row.parent = NoKpi
  BY DEF KpiRow, CatalogTyped
<1> HIDE DEF row
<1>3. DOMAIN kpi' = DOMAIN kpi \cup {k} /\ kpi'[k] = row
      /\ \A x \in DOMAIN kpi : kpi'[x] = kpi[x]
  BY <1>1
<1>4. CatalogTyped'
  BY <1>1, <1>2, <1>3 DEF CatalogTyped
<1>5. Forest(kpi')
  BY <1>2, <1>3, ForestWithNew DEF CatalogTyped
<1>6. LeavesBoardAlone /\ DeletionSpares
  BY <1>1, <1>3 DEF LeavesBoardAlone, DeletionSpares
<1> QED
  BY <1>4, <1>5, <1>6

LEMMA UpdateKPIKeeps ==
  ASSUME CatalogTyped, Forest(kpi), NEW k \in DOMAIN kpi, NEW p \in DOMAIN priority,
         NEW parent \in DOMAIN kpi \cup {NoKpi}, NEW active \in BOOLEAN,
         UpdateKPI(k, p, parent, active)
  PROVE  CatalogTyped' /\ Forest(kpi') /\ LeavesBoardAlone /\ DeletionSpares
<1> USE CatalogAssumption
<1> DEFINE row == [kpi[k] EXCEPT !.priority = p, !.parent = parent, !.active = active]
<1>0. kpi \in [DOMAIN kpi -> KpiRow] /\ kpi[k] \in KpiRow
  BY DEF CatalogTyped
<1>1. row \in KpiRow /\ row.parent = parent /\ row.priority = p
  BY <1>0 DEF KpiRow, CatalogTyped
<1>2. kpi' = [kpi EXCEPT ![k] = row]
  BY <1>0 DEF UpdateKPI
<1>3. MayMove(k, p) /\ (parent # kpi[k].parent => MayHang(k, parent)) /\ priority' = priority
  BY DEF UpdateKPI
<1> HIDE DEF row
<1>4. DOMAIN kpi' = DOMAIN kpi /\ kpi'[k] = row
      /\ \A x \in DOMAIN kpi : x # k => kpi'[x] = kpi[x]
  BY <1>0, <1>2
<1>5. CatalogTyped'
  BY <1>1, <1>3, <1>4, <1>0, <1>2 DEF CatalogTyped
<1>6. Forest(kpi')
  <2>1. CASE parent = kpi[k].parent
    BY <2>1, <1>1, <1>4, ForestOfFewer DEF CatalogTyped
  <2>2. CASE parent # kpi[k].parent
    <3>1. parent \notin Below(kpi, {k})
      <4>1. {k} \in SUBSET DOMAIN kpi
        OBVIOUS
      <4>2. Below(kpi, {k}) \subseteq DOMAIN kpi
        BY <4>1, BelowStored DEF CatalogTyped
      <4> QED
        BY <4>2, <2>2, <1>3 DEF MayHang, Descendants, CatalogTyped
    <3> QED
      BY <3>1, <1>1, <1>4, ForestAfterMove DEF CatalogTyped
  <2> QED
    BY <2>1, <2>2
<1>7. p # kpi[k].priority => k \notin BoardLinked
  <2>1. {k} \subseteq Below(kpi, {k})
    BY BelowClosed DEF CatalogTyped
  <2> QED
    BY <2>1, <1>3 DEF MayMove, IsStrategicKPI, Descendants
<1>8. LeavesBoardAlone /\ DeletionSpares
  BY <1>1, <1>3, <1>4, <1>7 DEF LeavesBoardAlone, DeletionSpares
<1> QED
  BY <1>5, <1>6, <1>8

(* A switch of a Measure's state moves it nowhere.                          *)
LEMMA SwitchKeeps ==
  ASSUME CatalogTyped, Forest(kpi), NEW k \in DOMAIN kpi, NEW row \in KpiRow,
         row.parent = kpi[k].parent, row.priority = kpi[k].priority,
         kpi' = [kpi EXCEPT ![k] = row], priority' = priority
  PROVE  CatalogTyped' /\ Forest(kpi') /\ LeavesBoardAlone /\ DeletionSpares
<1>1. DOMAIN kpi' = DOMAIN kpi /\ kpi' \in [DOMAIN kpi -> KpiRow]
      /\ \A x \in DOMAIN kpi : kpi'[x].parent = kpi[x].parent /\ kpi'[x].priority = kpi[x].priority
  BY DEF CatalogTyped
<1>2. Forest(kpi')
  BY <1>1, ForestOfFewer DEF CatalogTyped
<1>3. CatalogTyped' /\ LeavesBoardAlone /\ DeletionSpares
  BY <1>1 DEF CatalogTyped, LeavesBoardAlone, DeletionSpares
<1> QED
  BY <1>2, <1>3

LEMMA ArchiveKPIKeeps ==
  ASSUME CatalogTyped, Forest(kpi), NEW k \in DOMAIN kpi, ArchiveKPI(k)
  PROVE  CatalogTyped' /\ Forest(kpi') /\ LeavesBoardAlone /\ DeletionSpares
<1> DEFINE row == [kpi[k] EXCEPT !.archived = TRUE, !.was = kpi[k].active, !.active = FALSE]
<1>0. kpi \in [DOMAIN kpi -> KpiRow] /\ kpi[k] \in KpiRow
  BY DEF CatalogTyped
<1>1. row \in KpiRow /\ row.parent = kpi[k].parent /\ row.priority = kpi[k].priority
  BY <1>0 DEF KpiRow
<1>2. kpi' = [kpi EXCEPT ![k] = row] /\ priority' = priority
  BY <1>0 DEF ArchiveKPI, KpiRow
<1> HIDE DEF row
<1> QED
  BY <1>1, <1>2, SwitchKeeps

LEMMA RestoreKPIKeeps ==
  ASSUME CatalogTyped, Forest(kpi), NEW k \in DOMAIN kpi, RestoreKPI(k)
  PROVE  CatalogTyped' /\ Forest(kpi') /\ LeavesBoardAlone /\ DeletionSpares
<1> DEFINE row == [kpi[k] EXCEPT !.archived = FALSE, !.active = kpi[k].was, !.was = TRUE]
<1>0. kpi \in [DOMAIN kpi -> KpiRow] /\ kpi[k] \in KpiRow
  BY DEF CatalogTyped
<1>1. row \in KpiRow /\ row.parent = kpi[k].parent /\ row.priority = kpi[k].priority
  BY <1>0 DEF KpiRow
<1>2. kpi' = [kpi EXCEPT ![k] = row] /\ priority' = priority
  BY <1>0 DEF RestoreKPI, KpiRow
<1> HIDE DEF row
<1> QED
  BY <1>1, <1>2, SwitchKeeps

(* A cascade that nothing refers to.                                        *)
LEMMA CascadeKeeps ==
  ASSUME CatalogTyped, Forest(kpi), NEW K \in SUBSET DOMAIN kpi,
         Dependents(K) = {}, Cascades(K), kpi' = Without(kpi, Descendants(K))
  PROVE  /\ DOMAIN kpi' \subseteq Kpis /\ kpi' \in [DOMAIN kpi' -> KpiRow]
         /\ Forest(kpi')
         /\ \A k \in BoardLinked : k \in DOMAIN kpi => k \in DOMAIN kpi' /\ kpi'[k].priority = kpi[k].priority
         /\ DeletionSpares
<1>1. /\ DOMAIN kpi' = DOMAIN kpi \ Descendants(K)
      /\ \A k \in DOMAIN kpi' : kpi'[k] = kpi[k]
      /\ kpi' = [x \in DOMAIN kpi \ Descendants(K) |-> kpi[x]]
  BY DEF Without
<1>2. DOMAIN kpi' \subseteq Kpis /\ kpi' \in [DOMAIN kpi' -> KpiRow]
  <2>1. DOMAIN kpi' \subseteq DOMAIN kpi /\ \A x \in DOMAIN kpi : kpi[x] \in KpiRow
    BY <1>1 DEF CatalogTyped
  <2>2. DOMAIN kpi' \subseteq Kpis
    BY <2>1 DEF CatalogTyped
  <2> QED
    BY <2>1, <2>2, <1>1
<1>3. Forest(kpi')
  BY <1>1, ForestOfFewer DEF CatalogTyped
<1>4. \A k \in Descendants(K) : ~kpi[k].entries /\ ~kpi[k].strategic /\ k \notin BoardLinked
  BY DEF Dependents, Cascades
<1> QED
  BY <1>1, <1>2, <1>3, <1>4 DEF DeletionSpares

LEMMA RetireOrDeleteKPIKeeps ==
  ASSUME CatalogTyped, Forest(kpi), NEW k \in DOMAIN kpi, RetireOrDeleteKPI(k)
  PROVE  CatalogTyped' /\ Forest(kpi') /\ LeavesBoardAlone /\ DeletionSpares
<1>1. CASE ArchiveKPI(k)
  BY <1>1, ArchiveKPIKeeps
<1>2. CASE DeleteKPI(k)
  <2>1. priority' = priority /\ {k} \in SUBSET DOMAIN kpi /\ Dependents({k}) = {}
        /\ Cascades({k}) /\ kpi' = Without(kpi, Descendants({k}))
    BY <1>2 DEF DeleteKPI
  <2>2. /\ DOMAIN kpi' \subseteq Kpis /\ kpi' \in [DOMAIN kpi' -> KpiRow]
        /\ Forest(kpi')
        /\ \A x \in BoardLinked : x \in DOMAIN kpi => x \in DOMAIN kpi' /\ kpi'[x].priority = kpi[x].priority
        /\ DeletionSpares
    BY <2>1, CascadeKeeps
  <2>3. CatalogTyped' /\ LeavesBoardAlone
    BY <2>1, <2>2 DEF CatalogTyped, LeavesBoardAlone
  <2> QED
    BY <2>2, <2>3
<1> QED
  BY <1>1, <1>2 DEF RetireOrDeleteKPI

LEMMA CategoryChangesKeep ==
  ASSUME CatalogTyped, Forest(kpi), NEW p \in Priorities,
         \/ CreateCategory(p)
         \/ p \in DOMAIN priority /\ (ArchiveCategory(p) \/ RestoreCategory(p))
  PROVE  CatalogTyped' /\ Forest(kpi') /\ LeavesBoardAlone /\ DeletionSpares
<1>1. kpi' = kpi
  BY DEF CreateCategory, ArchiveCategory, RestoreCategory
<1>2. DOMAIN priority' \subseteq Priorities /\ priority' \in [DOMAIN priority' -> PriorityRow]
      /\ DOMAIN priority \subseteq DOMAIN priority'
  <2>1. CASE CreateCategory(p)
    <3> DEFINE row == [archived |-> FALSE, goals |-> FALSE]
    <3>1. priority' = [x \in DOMAIN priority \cup {p} |-> IF x = p THEN row ELSE priority[x]]
      BY <2>1 DEF CreateCategory
    <3>2. row \in PriorityRow
      BY DEF PriorityRow
    <3> HIDE DEF row
    <3> QED
      BY <3>1, <3>2 DEF CatalogTyped
  <2>2. CASE p \in DOMAIN priority /\ (ArchiveCategory(p) \/ RestoreCategory(p))
    <3>1. PICK archived \in BOOLEAN : priority' = [priority EXCEPT ![p].archived = archived]
      BY <2>2 DEF ArchiveCategory, RestoreCategory
    <3>2. [priority[p] EXCEPT !.archived = archived] \in PriorityRow
      BY <2>2 DEF CatalogTyped, PriorityRow
    <3> QED
      BY <3>1, <3>2, <2>2 DEF CatalogTyped
  <2> QED
    BY <2>1, <2>2
<1> QED
  BY <1>1, <1>2 DEF CatalogTyped, LeavesBoardAlone, DeletionSpares

LEMMA RetireOrDeleteCategoryKeeps ==
  ASSUME CatalogTyped, Forest(kpi), NEW p \in DOMAIN priority, RetireOrDeleteCategory(p)
  PROVE  CatalogTyped' /\ Forest(kpi') /\ LeavesBoardAlone /\ DeletionSpares
<1>1. CASE ArchiveCategory(p)
  BY <1>1, CategoryChangesKeep DEF CatalogTyped
<1>2. CASE ~IsStrategicCategory(p) /\ DeleteCategory(p)
  <2>1. priority' = Without(priority, {p}) /\ KpisOf(p) \in SUBSET DOMAIN kpi
        /\ Dependents(KpisOf(p)) = {} /\ Cascades(KpisOf(p))
        /\ kpi' = Without(kpi, Descendants(KpisOf(p)))
    BY <1>2 DEF DeleteCategory, KpisOf
  <2>2. /\ DOMAIN kpi' \subseteq Kpis /\ kpi' \in [DOMAIN kpi' -> KpiRow]
        /\ Forest(kpi')
        /\ \A x \in BoardLinked : x \in DOMAIN kpi => x \in DOMAIN kpi' /\ kpi'[x].priority = kpi[x].priority
        /\ DeletionSpares
    BY <2>1, CascadeKeeps
  <2>3. \A n \in {1, 2} : p \notin DOMAIN board[n].rows
    BY <1>2 DEF IsStrategicCategory
  <2>4. DOMAIN priority' = DOMAIN priority \ {p}
        /\ priority' = [x \in DOMAIN priority' |-> priority[x]]
    BY <2>1 DEF Without
  <2>5. CatalogTyped' /\ LeavesBoardAlone
    BY <2>2, <2>3, <2>4 DEF CatalogTyped, LeavesBoardAlone
  <2> QED
    BY <2>2, <2>5
<1> QED
  BY <1>1, <1>2 DEF RetireOrDeleteCategory

(* One change of the catalog.                                               *)
LEMMA CatalogChangeKeeps ==
  ASSUME CatalogTyped, Forest(kpi), CatalogChange
  PROVE  CatalogTyped' /\ Forest(kpi') /\ LeavesBoardAlone /\ DeletionSpares
<1>1. CASE \E k \in Kpis \ DOMAIN kpi, p \in DOMAIN priority : CreateStrategicMeasure(k, p)
  BY <1>1, CreateStrategicMeasureKeeps
<1>2. ASSUME NEW k \in DOMAIN kpi,
             \/ \E p \in DOMAIN priority, parent \in DOMAIN kpi \cup {NoKpi}, active \in BOOLEAN :
                  UpdateKPI(k, p, parent, active)
             \/ ArchiveKPI(k) \/ RestoreKPI(k) \/ RetireOrDeleteKPI(k)
      PROVE  CatalogTyped' /\ Forest(kpi') /\ LeavesBoardAlone /\ DeletionSpares
  BY <1>2, UpdateKPIKeeps, ArchiveKPIKeeps, RestoreKPIKeeps, RetireOrDeleteKPIKeeps
<1>3. CASE \E p \in Priorities : CreateCategory(p)
  BY <1>3, CategoryChangesKeep
<1>4. CASE \E p \in DOMAIN priority :
             ArchiveCategory(p) \/ RestoreCategory(p) \/ RetireOrDeleteCategory(p)
  BY <1>4, CategoryChangesKeep, RetireOrDeleteCategoryKeeps DEF CatalogTyped
<1> QED
  BY <1>1, <1>2, <1>3, <1>4 DEF CatalogChange

-----------------------------------------------------------------------------
(* The Board's scope.                                                       *)

(* What Kept and Pages need of the catalog.                                 *)
LEMMA KeptUnderCatalog ==
  ASSUME BoardTypeOK, Kept, LeavesBoardAlone, UNCHANGED <<board, saved>>
  PROVE  Kept'
<1> SUFFICES ASSUME NEW n \in {1, 2}
             PROVE  /\ (saved[n] = Stored(n))'
                    /\ (\A p \in LiveRows(board[n].rows) :
                          /\ p \in DOMAIN priority /\ PlanOf[p] = n
                          /\ \A k \in board[n].rows[p].links :
                               k \in DOMAIN kpi /\ kpi[k].priority = p)'
  BY DEF Kept
<1>1. saved'[n] = [p \in LiveRows(board'[n].rows) |-> board'[n].rows[p].links]
  BY DEF Kept, Stored, LiveRows
<1>2. ASSUME NEW p \in LiveRows(board[n].rows)
      PROVE  /\ p \in DOMAIN priority' /\ PlanOf[p] = n
             /\ \A k \in board[n].rows[p].links : k \in DOMAIN kpi' /\ kpi'[k].priority = p
  <2>1. p \in DOMAIN board[n].rows
    BY DEF LiveRows
  <2>2. \A k \in board[n].rows[p].links : k \in BoardLinked
    BY <2>1 DEF BoardLinked, LinksOf
  <2> QED
    BY <2>1, <2>2 DEF Kept, LeavesBoardAlone
<1> QED
  BY <1>1, <1>2 DEF Stored, LiveRows

(* Writing a content whose references are valid for the plan.               *)
LEMMA WrittenStands ==
  ASSUME NEW rows, NEW content,
         DOMAIN rows \subseteq Priorities, rows \in [DOMAIN rows -> BoardRow],
         DOMAIN content \subseteq Priorities, content \in [DOMAIN content -> SUBSET Kpis]
  PROVE  /\ DOMAIN Written(rows, content) \subseteq Priorities
         /\ Written(rows, content) \in [DOMAIN Written(rows, content) -> BoardRow]
         /\ LiveRows(Written(rows, content)) = DOMAIN content
         /\ [p \in LiveRows(Written(rows, content)) |-> Written(rows, content)[p].links] = content
<1> DEFINE W == Written(rows, content)
           dropped(p) == [rows[p] EXCEPT !.live = FALSE]
           put(p) == [live |-> TRUE, links |-> content[p],
                      past |-> IF p \in DOMAIN rows THEN LinksOf(rows[p]) ELSE {}]
<1>1. W = [p \in DOMAIN rows \cup DOMAIN content |->
             IF p \notin DOMAIN content THEN dropped(p) ELSE put(p)]
  BY DEF Written
<1>2. \A p \in DOMAIN rows : dropped(p) \in BoardRow /\ ~dropped(p).live
  BY DEF BoardRow
<1>3. \A p \in DOMAIN content :
        put(p) \in BoardRow /\ put(p).live /\ put(p).links = content[p]
  <2> SUFFICES ASSUME NEW p \in DOMAIN content
               PROVE  put(p) \in BoardRow /\ put(p).live /\ put(p).links = content[p]
    OBVIOUS
  <2>1. p \in DOMAIN rows => LinksOf(rows[p]) \in SUBSET Kpis
    BY DEF LinksOf, BoardRow
  <2> QED
    BY <2>1 DEF BoardRow
<1> HIDE DEF W, dropped, put
<1>4. /\ DOMAIN W = DOMAIN rows \cup DOMAIN content
      /\ \A p \in DOMAIN content : W[p] = put(p)
      /\ \A p \in DOMAIN rows : p \notin DOMAIN content => W[p] = dropped(p)
  BY <1>1
<1>5. LiveRows(W) = DOMAIN content
  <2>1. \A p \in DOMAIN content : W[p].live
    BY <1>3, <1>4
  <2>2. \A p \in DOMAIN rows : p \notin DOMAIN content => ~W[p].live
    BY <1>2, <1>4
  <2> QED
    BY <2>1, <2>2, <1>4 DEF LiveRows
<1>6. W \in [DOMAIN W -> BoardRow]
  BY <1>1, <1>2, <1>3, <1>4
<1>7. [p \in LiveRows(W) |-> W[p].links] = content
  BY <1>3, <1>4, <1>5
<1> QED
  BY <1>4, <1>5, <1>6, <1>7 DEF W

(* A scope replaced by a valid content, in the plan it is valid for.        *)
LEMMA KeptAfterWrite ==
  ASSUME BoardTypeOK, Kept, NEW content, NEW revision \in 0 .. MaxRevision,
         DOMAIN content \subseteq Priorities, content \in [DOMAIN content -> SUBSET Kpis],
         \A p \in DOMAIN content :
           Available(p) /\ \A k \in content[p] : k \in DOMAIN kpi /\ kpi[k].priority = p,
         board' = [board EXCEPT ![activePlan] =
           [revision |-> revision, rows |-> Written(board[activePlan].rows, content)]],
         saved' = [saved EXCEPT ![activePlan] = content],
         UNCHANGED <<activePlan, priority, kpi>>
  PROVE  /\ Kept'
         /\ DOMAIN board' = {1, 2} /\ DOMAIN saved' = {1, 2}
         /\ \A n \in {1, 2} :
              /\ board'[n] = [revision |-> board'[n].revision, rows |-> board'[n].rows]
              /\ board'[n].revision \in 0 .. MaxRevision
              /\ DOMAIN board'[n].rows \subseteq Priorities
              /\ board'[n].rows \in [DOMAIN board'[n].rows -> BoardRow]
<1>1. PICK rows : rows = board[activePlan].rows
  OBVIOUS
<1>2. activePlan \in {1, 2} /\ DOMAIN rows \subseteq Priorities /\ rows \in [DOMAIN rows -> BoardRow]
      /\ DOMAIN board = {1, 2} /\ DOMAIN saved = {1, 2}
  BY <1>1 DEF BoardTypeOK
<1>3. PICK W : W = Written(rows, content)
  OBVIOUS
<1>4. DOMAIN W \subseteq Priorities /\ W \in [DOMAIN W -> BoardRow]
      /\ LiveRows(W) = DOMAIN content /\ [p \in LiveRows(W) |-> W[p].links] = content
  BY <1>2, <1>3, WrittenStands
<1>5. board' = [board EXCEPT ![activePlan] = [revision |-> revision, rows |-> W]]
  BY <1>1, <1>3
<1>6. DOMAIN board' = {1, 2} /\ DOMAIN saved' = {1, 2}
      /\ board'[activePlan] = [revision |-> revision, rows |-> W]
      /\ saved'[activePlan] = content
      /\ \A n \in {1, 2} : n # activePlan => board'[n] = board[n] /\ saved'[n] = saved[n]
  BY <1>2, <1>5
<1>7. board'[activePlan].rows = W /\ board'[activePlan].revision = revision
  BY <1>6
<1>8. ASSUME NEW n \in {1, 2}
      PROVE  /\ board'[n] = [revision |-> board'[n].revision, rows |-> board'[n].rows]
             /\ board'[n].revision \in 0 .. MaxRevision
             /\ DOMAIN board'[n].rows \subseteq Priorities
             /\ board'[n].rows \in [DOMAIN board'[n].rows -> BoardRow]
  <2>1. CASE n = activePlan
    BY <2>1, <1>4, <1>6, <1>7
  <2>2. CASE n # activePlan
    BY <2>2, <1>6 DEF BoardTypeOK
  <2> QED
    BY <2>1, <2>2
<1>9. ASSUME NEW n \in {1, 2}
      PROVE  /\ saved'[n] = [p \in LiveRows(board'[n].rows) |-> board'[n].rows[p].links]
             /\ \A p \in LiveRows(board'[n].rows) :
                  /\ p \in DOMAIN priority' /\ PlanOf[p] = n
                  /\ \A k \in board'[n].rows[p].links : k \in DOMAIN kpi' /\ kpi'[k].priority = p
  <2>1. CASE n = activePlan
    <3>1. LiveRows(board'[n].rows) = DOMAIN content
          /\ saved'[n] = [p \in LiveRows(board'[n].rows) |-> board'[n].rows[p].links]
      BY <2>1, <1>4, <1>6, <1>7
    <3>2. \A p \in DOMAIN content : board'[n].rows[p].links = content[p]
      BY <2>1, <1>4, <1>7
    <3>3. \A p \in DOMAIN content : p \in DOMAIN priority /\ PlanOf[p] = n
      BY <2>1 DEF Available, InActivePlan
    <3> QED
      BY <3>1, <3>2, <3>3
  <2>2. CASE n # activePlan
    BY <2>2, <1>6 DEF Kept, Stored
  <2> QED
    BY <2>1, <2>2
<1>10. Kept'
  BY <1>9 DEF Kept, Stored
<1> QED
  BY <1>6, <1>8, <1>10

(* The default scope, if this is the first read.                            *)
LEMMA InitializeKeeps ==
  ASSUME BoardTypeOK, Kept, InitializeDefaultScope, UNCHANGED <<activePlan, priority, kpi>>
  PROVE  /\ Kept'
         /\ initialized' \in BOOLEAN
         /\ DOMAIN board' = {1, 2} /\ DOMAIN saved' = {1, 2}
         /\ \A n \in {1, 2} :
              /\ board'[n] = [revision |-> board[n].revision, rows |-> board'[n].rows]
              /\ board'[n].revision \in 0 .. MaxRevision
              /\ DOMAIN board'[n].rows \subseteq Priorities
              /\ board'[n].rows \in [DOMAIN board'[n].rows -> BoardRow]
<1>1. CASE initialized \/ DOMAIN board[activePlan].rows # {}
  <2>1. initialized' = TRUE /\ UNCHANGED <<board, saved>>
    BY <1>1 DEF InitializeDefaultScope
  <2> QED
    BY <2>1 DEF Kept, Stored, LiveRows, BoardTypeOK
<1>2. CASE ~(initialized \/ DOMAIN board[activePlan].rows # {})
  <2>1. PICK revision : revision = board[activePlan].revision
    OBVIOUS
  <2>2. activePlan \in {1, 2} /\ revision \in 0 .. MaxRevision
        /\ board[activePlan] = [revision |-> revision, rows |-> board[activePlan].rows]
        /\ DOMAIN board = {1, 2}
    BY <2>1 DEF BoardTypeOK
  <2>3. PICK content : content = DefaultContent
    OBVIOUS
  <2>4. /\ initialized' = TRUE
        /\ board' = [board EXCEPT ![activePlan] =
             [board[activePlan] EXCEPT !.rows = Written(board[activePlan].rows, content)]]
        /\ saved' = [saved EXCEPT ![activePlan] = content]
    BY <1>2, <2>3 DEF InitializeDefaultScope
  <2>5. [board[activePlan] EXCEPT !.rows = Written(board[activePlan].rows, content)]
          = [revision |-> revision, rows |-> Written(board[activePlan].rows, content)]
    <3>1. PICK W : W = Written(board[activePlan].rows, content)
      OBVIOUS
    <3>2. PICK old : old = board[activePlan].rows
      OBVIOUS
    <3> QED
      BY <3>1, <3>2, <2>2
  <2>6. DOMAIN content \subseteq Priorities
    BY <2>3 DEF DefaultContent, Available, BoardTypeOK
  <2>7. \A p \in DOMAIN content :
          /\ Available(p) /\ content[p] \in SUBSET Kpis
          /\ \A k \in content[p] : k \in DOMAIN kpi /\ kpi[k].priority = p
    BY <2>3 DEF DefaultContent, Linkable, BoardTypeOK
  <2>8. content \in [DOMAIN content -> SUBSET Kpis]
    <3>1. content = [p \in DOMAIN content |-> content[p]]
      BY <2>3 DEF DefaultContent
    <3> QED
      BY <3>1, <2>7
  <2>9. /\ Kept'
        /\ DOMAIN board' = {1, 2} /\ DOMAIN saved' = {1, 2}
        /\ \A n \in {1, 2} :
             /\ board'[n] = [revision |-> board'[n].revision, rows |-> board'[n].rows]
             /\ board'[n].revision \in 0 .. MaxRevision
             /\ DOMAIN board'[n].rows \subseteq Priorities
             /\ board'[n].rows \in [DOMAIN board'[n].rows -> BoardRow]
    BY <2>2, <2>4, <2>5, <2>6, <2>7, <2>8, KeptAfterWrite
  <2>10. \A n \in {1, 2} : board'[n].revision = board[n].revision
    <3>1. PICK W : W = Written(board[activePlan].rows, content)
      OBVIOUS
    <3> QED
      BY <3>1, <2>1, <2>2, <2>4, <2>5
  <2> QED
    BY <2>4, <2>9, <2>10
<1> QED
  BY <1>1, <1>2

-----------------------------------------------------------------------------
(* The inductive invariant.                                                 *)

LEMMA InitKeeps ==
  ASSUME BoardEditorInit
  PROVE  BoardInv
<1> USE CatalogAssumption, BoardAssumption
<1>1. PICK found \in CatalogsFound : priority = found.priority /\ kpi = found.kpi
  BY DEF BoardEditorInit
<1>2. CatalogTyped /\ Forest(kpi)
  BY <1>1 DEF CatalogTyped
<1>3. PICK once \in {Empty} \cup {[p \in {q} |-> KpisOf(q)] : q \in OfPlan(1) \cap DOMAIN priority},
           next \in {Empty} \cup {[p \in {q} |-> {}] : q \in OfPlan(2) \cap DOMAIN priority} :
        /\ board = <<[revision |-> 0, rows |-> Written(Written(Empty, once), Empty)],
                     [revision |-> 0, rows |-> Written(Empty, next)]>>
        /\ saved = <<Empty, next>>
        /\ initialized = (once # Empty)
  BY DEF BoardEditorInit
<1>4. DOMAIN Empty = {} /\ Empty \in [DOMAIN Empty -> BoardRow]
      /\ Empty \in [DOMAIN Empty -> SUBSET Kpis]
  BY DEF Empty
<1>5. DOMAIN once \subseteq Priorities /\ once \in [DOMAIN once -> SUBSET Kpis]
  <2>1. CASE once = Empty
    BY <2>1, <1>4
  <2>2. ASSUME NEW q \in OfPlan(1) \cap DOMAIN priority, once = [p \in {q} |-> KpisOf(q)]
        PROVE  DOMAIN once \subseteq Priorities /\ once \in [DOMAIN once -> SUBSET Kpis]
    <3>1. KpisOf(q) \in SUBSET Kpis /\ q \in Priorities
      BY <1>2 DEF KpisOf, CatalogTyped
    <3> QED
      BY <2>2, <3>1
  <2> QED
    BY <2>1, <2>2, <1>3
<1>6. DOMAIN next \subseteq Priorities /\ next \in [DOMAIN next -> SUBSET Kpis]
      /\ \A p \in DOMAIN next : p \in DOMAIN priority /\ PlanOf[p] = 2 /\ next[p] = {}
  <2>1. CASE next = Empty
    BY <2>1, <1>4
  <2>2. ASSUME NEW q \in OfPlan(2) \cap DOMAIN priority, next = [p \in {q} |-> {}]
        PROVE  DOMAIN next \subseteq Priorities /\ next \in [DOMAIN next -> SUBSET Kpis]
               /\ \A p \in DOMAIN next : p \in DOMAIN priority /\ PlanOf[p] = 2 /\ next[p] = {}
    BY <2>2 DEF OfPlan
  <2> QED
    BY <2>1, <2>2, <1>3
<1>7. PICK first : first = Written(Empty, once)
  OBVIOUS
<1>8. DOMAIN first \subseteq Priorities /\ first \in [DOMAIN first -> BoardRow]
  BY <1>4, <1>5, <1>7, WrittenStands
<1>9. PICK emptied : emptied = Written(first, Empty)
  OBVIOUS
<1>10. /\ DOMAIN emptied \subseteq Priorities /\ emptied \in [DOMAIN emptied -> BoardRow]
       /\ LiveRows(emptied) = DOMAIN Empty
       /\ [p \in LiveRows(emptied) |-> emptied[p].links] = Empty
  BY <1>4, <1>8, <1>9, WrittenStands
<1>11. PICK ahead : ahead = Written(Empty, next)
  OBVIOUS
<1>12. /\ DOMAIN ahead \subseteq Priorities /\ ahead \in [DOMAIN ahead -> BoardRow]
       /\ LiveRows(ahead) = DOMAIN next
       /\ [p \in LiveRows(ahead) |-> ahead[p].links] = next
  <2>1. DOMAIN Empty \subseteq Priorities /\ Empty \in [DOMAIN Empty -> BoardRow]
    BY <1>4
  <2>2. DOMAIN next \subseteq Priorities /\ next \in [DOMAIN next -> SUBSET Kpis]
    BY <1>6
  <2> QED
    BY <2>1, <2>2, <1>11, WrittenStands
<1>13. /\ board = <<[revision |-> 0, rows |-> emptied], [revision |-> 0, rows |-> ahead]>>
       /\ saved = <<Empty, next>>
  BY <1>3, <1>7, <1>9, <1>11
<1>14. /\ DOMAIN board = {1, 2} /\ DOMAIN saved = {1, 2}
       /\ board[1] = [revision |-> 0, rows |-> emptied] /\ saved[1] = Empty
       /\ board[2] = [revision |-> 0, rows |-> ahead] /\ saved[2] = next
  BY <1>13
<1>15. /\ board[1].rows = emptied /\ board[2].rows = ahead
       /\ board[1].revision = 0 /\ board[2].revision = 0
  BY <1>14
<1>16. page = [a \in Admins |-> NoPage] /\ overwritten = FALSE
       /\ activePlan = 1 /\ changes = 0
  BY DEF BoardEditorInit
<1>17. initialized \in BOOLEAN
  BY <1>3
<1>18. page \in [Admins -> Page \cup {NoPage}] /\ 0 \in 0 .. MaxRevision /\ 0 \in 0 .. MaxChanges
  BY <1>16
<1>19. BoardTypeOK
  <2>1. ASSUME NEW n \in {1, 2}
        PROVE  /\ board[n] = [revision |-> board[n].revision, rows |-> board[n].rows]
               /\ board[n].revision \in 0 .. MaxRevision
               /\ DOMAIN board[n].rows \subseteq Priorities
               /\ board[n].rows \in [DOMAIN board[n].rows -> BoardRow]
    BY <1>10, <1>12, <1>14, <1>15, <1>18
  <2> QED
    BY <2>1, <1>2, <1>14, <1>16, <1>17, <1>18 DEF BoardTypeOK, CatalogTyped
<1>20. Kept
  <2>1. ASSUME NEW n \in {1, 2}
        PROVE  /\ saved[n] = [p \in LiveRows(board[n].rows) |-> board[n].rows[p].links]
               /\ \A p \in LiveRows(board[n].rows) :
                    /\ p \in DOMAIN priority /\ PlanOf[p] = n
                    /\ \A k \in board[n].rows[p].links : k \in DOMAIN kpi /\ kpi[k].priority = p
    <3>1. CASE n = 1
      BY <3>1, <1>4, <1>10, <1>14, <1>15
    <3>2. CASE n = 2
      <4>1. \A p \in DOMAIN next : ahead[p].links = next[p]
        BY <1>12
      <4> QED
        BY <3>2, <4>1, <1>6, <1>12, <1>14, <1>15
    <3> QED
      BY <3>1, <3>2
  <2> QED
    BY <2>1 DEF Kept, Stored
<1>21. Pages
  BY <1>16 DEF Pages
<1> QED
  BY <1>2, <1>16, <1>19, <1>20, <1>21 DEF BoardInv, HierarchyIsForest, NoApprovalOverwritten

LEMMA CatalogStepKeeps ==
  ASSUME BoardInv, CatalogStep, UNCHANGED boardVars
  PROVE  BoardInv' /\ DeletionSpares
<1> USE BoardAssumption
<1>1. CatalogTyped /\ Forest(kpi) /\ changes \in 0 .. MaxChanges
  BY DEF BoardInv, BoardTypeOK, CatalogTyped, HierarchyIsForest
<1>2. changes < MaxChanges /\ changes' = changes + 1 /\ CatalogChange
  BY DEF CatalogStep
<1>3. CatalogTyped' /\ Forest(kpi') /\ LeavesBoardAlone /\ DeletionSpares
  BY <1>1, <1>2, CatalogChangeKeeps
<1>4. activePlan' = activePlan
  BY <1>2 DEF CatalogChange, CreateStrategicMeasure, UpdateKPI, ArchiveKPI, RestoreKPI,
       RetireOrDeleteKPI, DeleteKPI, CreateCategory, ArchiveCategory, RestoreCategory,
       RetireOrDeleteCategory, DeleteCategory
<1>5. UNCHANGED <<board, initialized, page, saved, overwritten>>
  BY DEF boardVars
<1>6. changes' \in 0 .. MaxChanges
  BY <1>1, <1>2
<1>7. BoardTypeOK'
  BY <1>3, <1>4, <1>5, <1>6 DEF BoardInv, BoardTypeOK, CatalogTyped
<1>8. Kept'
  BY <1>3, <1>5, KeptUnderCatalog DEF BoardInv
<1>9. Pages'
  BY <1>4, <1>5 DEF BoardInv, Pages
<1> QED
  BY <1>3, <1>5, <1>7, <1>8, <1>9 DEF BoardInv, HierarchyIsForest, NoApprovalOverwritten

(* What a read leaves of the types, whoever reads.                          *)
LEMMA ReadingKeeps ==
  ASSUME BoardInv, InitializeDefaultScope, UNCHANGED <<catalogVars, overwritten>>,
         page' \in [Admins -> Page \cup {NoPage}]
  PROVE  /\ BoardTypeOK' /\ HierarchyIsForest' /\ Kept' /\ NoApprovalOverwritten'
         /\ \A n \in {1, 2} : board'[n].revision = board[n].revision
<1>1. UNCHANGED <<activePlan, priority, kpi, changes, overwritten>>
  BY DEF catalogVars
<1>2. /\ Kept'
      /\ initialized' \in BOOLEAN
      /\ DOMAIN board' = {1, 2} /\ DOMAIN saved' = {1, 2}
      /\ \A n \in {1, 2} :
           /\ board'[n] = [revision |-> board[n].revision, rows |-> board'[n].rows]
           /\ board'[n].revision \in 0 .. MaxRevision
           /\ DOMAIN board'[n].rows \subseteq Priorities
           /\ board'[n].rows \in [DOMAIN board'[n].rows -> BoardRow]
  BY <1>1, InitializeKeeps DEF BoardInv
<1>3. \A n \in {1, 2} : board'[n].revision = board[n].revision
  BY <1>2
<1>4. BoardTypeOK'
  BY <1>1, <1>2, <1>3 DEF BoardInv, BoardTypeOK
<1> QED
  BY <1>1, <1>2, <1>3, <1>4 DEF BoardInv, HierarchyIsForest, NoApprovalOverwritten

LEMMA ReadBoardKeeps ==
  ASSUME BoardInv, ReadBoard
  PROVE  BoardInv'
<1>1. InitializeDefaultScope /\ UNCHANGED <<catalogVars, page, overwritten>>
  BY DEF ReadBoard
<1>2. page' \in [Admins -> Page \cup {NoPage}]
  BY <1>1 DEF BoardInv, BoardTypeOK
<1>3. /\ BoardTypeOK' /\ HierarchyIsForest' /\ Kept' /\ NoApprovalOverwritten'
      /\ \A n \in {1, 2} : board'[n].revision = board[n].revision
  BY <1>1, <1>2, ReadingKeeps
<1>4. Pages'
  BY <1>1, <1>3 DEF BoardInv, BoardTypeOK, Pages, catalogVars
<1> QED
  BY <1>3, <1>4 DEF BoardInv

LEMMA LoadPageKeeps ==
  ASSUME BoardInv, NEW a \in Admins, LoadPage(a)
  PROVE  BoardInv'
<1> DEFINE loaded == [plan |-> activePlan, revision |-> board[activePlan].revision, stale |-> FALSE]
<1>1. InitializeDefaultScope /\ UNCHANGED <<catalogVars, overwritten>>
      /\ page' = [page EXCEPT ![a] = loaded]
  BY DEF LoadPage
<1>2. activePlan \in {1, 2} /\ board[activePlan].revision \in 0 .. MaxRevision
      /\ page \in [Admins -> Page \cup {NoPage}]
  BY DEF BoardInv, BoardTypeOK
<1>3. loaded \in Page /\ loaded.plan = activePlan /\ ~loaded.stale
      /\ loaded.revision = board[activePlan].revision
  BY <1>2 DEF Page
<1> HIDE DEF loaded
<1>4. /\ page' \in [Admins -> Page \cup {NoPage}]
      /\ page'[a] = loaded
      /\ \A b \in Admins : b # a => page'[b] = page[b]
  BY <1>1, <1>2, <1>3
<1>5. /\ BoardTypeOK' /\ HierarchyIsForest' /\ Kept' /\ NoApprovalOverwritten'
      /\ \A n \in {1, 2} : board'[n].revision = board[n].revision
  BY <1>1, <1>4, ReadingKeeps
<1>6. Pages'
  <2>1. activePlan' = activePlan /\ board'[activePlan].revision = board[activePlan].revision
    BY <1>1, <1>2, <1>5 DEF catalogVars
  <2>2. ASSUME NEW b \in Admins, page'[b] # NoPage
        PROVE  /\ page'[b].plan <= activePlan
               /\ page'[b].plan = activePlan =>
                    /\ page'[b].revision <= board[activePlan].revision
                    /\ page'[b].stale => page'[b].revision < board[activePlan].revision
    <3>1. CASE b = a
      BY <3>1, <1>2, <1>3, <1>4
    <3>2. CASE b # a
      BY <3>2, <2>2, <1>4 DEF BoardInv, Pages
    <3> QED
      BY <3>1, <3>2
  <2> QED
    BY <2>1, <2>2 DEF Pages
<1> QED
  BY <1>5, <1>6 DEF BoardInv

LEMMA ActivateSuccessorKeeps ==
  ASSUME BoardInv, ActivateSuccessor
  PROVE  BoardInv'
<1> DEFINE outdated(b) == [page[b] EXCEPT !.stale = TRUE]
<1>1. /\ activePlan = 1 /\ activePlan' = 2
      /\ page' = [b \in Admins |-> IF page[b] = NoPage THEN NoPage ELSE outdated(b)]
      /\ UNCHANGED <<priority, kpi, changes, board, initialized, saved, overwritten>>
  BY DEF ActivateSuccessor
<1>2. \A b \in Admins : page[b] # NoPage =>
        page[b] \in Page /\ outdated(b) \in Page /\ outdated(b).plan = page[b].plan
  <2>1. \A b \in Admins : page[b] # NoPage => page[b] \in Page
    BY DEF BoardInv, BoardTypeOK
  <2>2. \A b \in Admins : page[b] \in Page =>
          outdated(b) \in Page /\ outdated(b).plan = page[b].plan
    BY DEF Page
  <2> QED
    BY <2>1, <2>2
<1>3. \A b \in Admins : page[b] # NoPage => page[b].plan = 1
  BY <1>1, <1>2 DEF BoardInv, Pages, Page
<1> HIDE DEF outdated
<1>4. page' \in [Admins -> Page \cup {NoPage}]
  BY <1>1, <1>2
<1>5. BoardTypeOK'
  BY <1>1, <1>4 DEF BoardInv, BoardTypeOK
<1>6. Kept'
  BY <1>1 DEF BoardInv, Kept, Stored, LiveRows
<1>7. Pages'
  BY <1>1, <1>2, <1>3 DEF Pages
<1> QED
  BY <1>1, <1>5, <1>6, <1>7 DEF BoardInv, HierarchyIsForest, NoApprovalOverwritten

LEMMA SaveBoardKeeps ==
  ASSUME BoardInv, NEW a \in Admins, page[a] # NoPage,
         NEW content \in ContentsOf(page[a].plan), SaveBoard(a, content)
  PROVE  BoardInv'
<1> USE BoardAssumption, CatalogAssumption
<1>1. PICK revision : revision = board[activePlan].revision
  OBVIOUS
<1>2. /\ revision < MaxRevision /\ page[a].revision = revision
      /\ ReferencesValid(content)
      /\ board' = [board EXCEPT ![activePlan] =
           [revision |-> NextRevision(board[activePlan].revision),
            rows |-> Written(board[activePlan].rows, content)]]
      /\ saved' = [saved EXCEPT ![activePlan] = content]
      /\ UNCHANGED <<catalogVars, initialized>>
  BY <1>1 DEF SaveBoard
<1>3. /\ activePlan \in {1, 2} /\ revision \in 0 .. MaxRevision
      /\ DOMAIN board = {1, 2}
      /\ \A b \in Admins : page[b] # NoPage => page[b] \in Page
  BY <1>1 DEF BoardInv, BoardTypeOK
<1>4. NextRevision(board[activePlan].revision) = revision + 1 /\ revision + 1 \in 0 .. MaxRevision
  BY <1>1, <1>2, <1>3 DEF NextRevision
<1>5. /\ DOMAIN content \subseteq OfPlan(page[a].plan) \cap DOMAIN priority
      /\ content \in [DOMAIN content -> SUBSET Kpis]
  <2>1. PICK P \in SUBSET (OfPlan(page[a].plan) \cap DOMAIN priority) :
          content \in [P -> SUBSET DOMAIN kpi]
    BY DEF ContentsOf
  <2> QED
    BY <2>1 DEF BoardInv, BoardTypeOK
<1>6. \A p \in DOMAIN content :
        Available(p) /\ \A k \in content[p] : k \in DOMAIN kpi /\ kpi[k].priority = p
  BY <1>2 DEF ReferencesValid, Linkable
<1>7. UNCHANGED <<activePlan, priority, kpi, changes, initialized>>
  BY <1>2 DEF catalogVars
<1>8. board' = [board EXCEPT ![activePlan] =
        [revision |-> revision + 1, rows |-> Written(board[activePlan].rows, content)]]
  BY <1>2, <1>4
<1>9. /\ Kept'
      /\ DOMAIN board' = {1, 2} /\ DOMAIN saved' = {1, 2}
      /\ \A n \in {1, 2} :
           /\ board'[n] = [revision |-> board'[n].revision, rows |-> board'[n].rows]
           /\ board'[n].revision \in 0 .. MaxRevision
           /\ DOMAIN board'[n].rows \subseteq Priorities
           /\ board'[n].rows \in [DOMAIN board'[n].rows -> BoardRow]
  <2>1. DOMAIN content \subseteq Priorities
    BY <1>5 DEF OfPlan
  <2> QED
    BY <2>1, <1>2, <1>4, <1>5, <1>6, <1>7, <1>8, KeptAfterWrite DEF BoardInv
<1>10. board'[activePlan].revision = revision + 1
  <2>1. PICK rows : rows = Written(board[activePlan].rows, content)
    OBVIOUS
  <2> QED
    BY <2>1, <1>3, <1>8
<1>11. PICK answered \in BOOLEAN :
         page' = [b \in Admins |->
           IF page[b] = NoPage THEN NoPage
           ELSE IF b = a /\ answered
           THEN [page[b] EXCEPT !.revision = board'[activePlan].revision,
                                !.stale = page[b].plan # activePlan]
           ELSE [page[b] EXCEPT !.stale = TRUE]]
  BY DEF SaveBoard
<1> DEFINE renewed(b) == [page[b] EXCEPT !.revision = revision + 1, !.stale = page[b].plan # activePlan]
           outdated(b) == [page[b] EXCEPT !.stale = TRUE]
<1>12. ASSUME NEW b \in Admins, page[b] # NoPage
       PROVE  /\ renewed(b) \in Page /\ renewed(b).plan = page[b].plan
              /\ renewed(b).revision = revision + 1
              /\ renewed(b).stale => page[b].plan # activePlan
              /\ outdated(b) \in Page /\ outdated(b).plan = page[b].plan
              /\ outdated(b).revision = page[b].revision
  <2>1. page[b] \in Page /\ revision + 1 \in 0 .. MaxRevision /\ (page[b].plan # activePlan) \in BOOLEAN
    BY <1>3, <1>4, <1>12
  <2> QED
    BY <2>1 DEF Page
<1>13. page' = [b \in Admins |->
         IF page[b] = NoPage THEN NoPage
         ELSE IF b = a /\ answered THEN renewed(b) ELSE outdated(b)]
  BY <1>10, <1>11
<1> HIDE DEF renewed, outdated
<1>14. page' \in [Admins -> Page \cup {NoPage}]
  BY <1>12, <1>13
<1>15. overwritten' \in BOOLEAN /\ ~overwritten'
  <2>1. overwritten' = (overwritten \/ (page[a].stale /\ ~(page[a].plan # activePlan /\ content = Empty)))
    BY DEF SaveBoard
  <2>2. ~overwritten
    BY DEF BoardInv, NoApprovalOverwritten
  <2>3. page[a] \in Page /\ page[a].plan <= activePlan
        /\ (page[a].plan = activePlan /\ page[a].stale => page[a].revision < revision)
    BY <1>1, <1>3 DEF BoardInv, Pages
  <2>4. CASE page[a].plan = activePlan
    <3>1. ~page[a].stale
      BY <2>3, <2>4, <1>2, <1>3
    <3> QED
      BY <2>1, <2>2, <3>1
  <2>5. CASE page[a].plan # activePlan
    <3>1. DOMAIN content = {}
      BY <2>5, <1>5, <1>6 DEF Available, InActivePlan, OfPlan
    <3>2. content = Empty
      BY <3>1, <1>5 DEF Empty
    <3> QED
      BY <2>1, <2>2, <2>5, <3>2
  <2> QED
    BY <2>4, <2>5
<1>16. BoardTypeOK'
  BY <1>7, <1>9, <1>14, <1>15 DEF BoardInv, BoardTypeOK
<1>17. Pages'
  <2>1. ASSUME NEW b \in Admins, page'[b] # NoPage
        PROVE  /\ page'[b].plan <= activePlan
               /\ page'[b].plan = activePlan =>
                    /\ page'[b].revision <= revision + 1
                    /\ page'[b].stale => page'[b].revision < revision + 1
    <3>1. page[b] # NoPage
      BY <2>1, <1>13
    <3>2. /\ page[b] \in Page /\ page[b].plan <= activePlan
          /\ page[b].plan = activePlan => page[b].revision <= revision
      BY <3>1, <1>1, <1>3 DEF BoardInv, Pages
    <3>3. CASE b = a /\ answered
      <4>1. page'[b] = renewed(b)
        BY <3>1, <3>3, <1>13
      <4> QED
        BY <4>1, <3>1, <3>2, <1>3, <1>12
    <3>4. CASE ~(b = a /\ answered)
      <4>1. page'[b] = outdated(b)
        BY <3>1, <3>4, <1>13
      <4>2. page'[b].plan = page[b].plan /\ page'[b].revision = page[b].revision
        BY <4>1, <3>1, <1>12
      <4>3. page[b].revision \in 0 .. MaxRevision /\ revision \in Nat
        BY <3>2, <1>3 DEF Page
      <4> QED
        BY <4>2, <4>3, <3>2
    <3> QED
      BY <3>3, <3>4
  <2> QED
    BY <2>1, <1>7, <1>10 DEF Pages
<1> QED
  BY <1>7, <1>9, <1>15, <1>16, <1>17 DEF BoardInv, HierarchyIsForest, NoApprovalOverwritten

(* Every step keeps the invariant, and deletes nothing it must spare.       *)
LEMMA NextKeeps ==
  ASSUME BoardInv, [BoardEditorNext]_boardEditorVars
  PROVE  BoardInv' /\ [DeletionSpares]_boardEditorVars
<1>1. CASE CatalogStep /\ UNCHANGED boardVars
  BY <1>1, CatalogStepKeeps
<1>2. CASE ReadBoard
  <2>1. kpi' = kpi
    BY <1>2 DEF ReadBoard, catalogVars
  <2> QED
    BY <1>2, <2>1, ReadBoardKeeps DEF DeletionSpares
<1>3. ASSUME NEW a \in Admins, LoadPage(a)
      PROVE  BoardInv' /\ [DeletionSpares]_boardEditorVars
  <2>1. kpi' = kpi
    BY <1>3 DEF LoadPage, catalogVars
  <2> QED
    BY <1>3, <2>1, LoadPageKeeps DEF DeletionSpares
<1>4. ASSUME NEW a \in Admins, page[a] # NoPage,
             NEW content \in ContentsOf(page[a].plan), SaveBoard(a, content)
      PROVE  BoardInv' /\ [DeletionSpares]_boardEditorVars
  <2>1. kpi' = kpi
    BY <1>4 DEF SaveBoard, catalogVars
  <2> QED
    BY <1>4, <2>1, SaveBoardKeeps DEF DeletionSpares
<1>5. CASE ActivateSuccessor
  <2>1. kpi' = kpi
    BY <1>5 DEF ActivateSuccessor
  <2> QED
    BY <1>5, <2>1, ActivateSuccessorKeeps DEF DeletionSpares
<1>6. CASE UNCHANGED boardEditorVars
  <2>1. UNCHANGED <<activePlan, priority, kpi, changes, board, initialized, page, saved, overwritten>>
    BY <1>6 DEF boardEditorVars, catalogVars, boardVars
  <2>2. BoardTypeOK' /\ Kept' /\ Pages'
    BY <2>1 DEF BoardInv, BoardTypeOK, Kept, Stored, LiveRows, Pages
  <2> QED
    BY <1>6, <2>1, <2>2 DEF BoardInv, HierarchyIsForest, NoApprovalOverwritten
<1> QED
  BY <1>1, <1>2, <1>3, <1>4, <1>5, <1>6 DEF BoardEditorNext

(* The scope of each plan is what was last accepted for it, and every page  *)
(* that could replace it knows whether it still is (updateBoardReporting-   *)
(* Scope, getBoardReportingAdminModel).                                     *)
THEOREM BoardInvariance == BoardEditorSpec => []BoardInv
<1>1. BoardEditorInit => BoardInv
  BY InitKeeps
<1>2. BoardInv /\ [BoardEditorNext]_boardEditorVars => BoardInv'
  BY NextKeeps
<1> QED
  BY <1>1, <1>2, PTL DEF BoardEditorSpec

(* What is kept is what is shown.                                           *)
LEMMA KeptIsShown ==
  ASSUME Kept
  PROVE  BoardShowsWhatWasSaved
<1> DEFINE off == {k \in DOMAIN kpi : ~kpi[k].active /\ ~kpi[k].archived}
           away == {k \in DOMAIN kpi : ~kpi[k].active \/ kpi[k].archived}
           put == {p \in DOMAIN priority : priority[p].archived}
<1>1. ASSUME NEW n \in {1, 2}
      PROVE  /\ ReadScope(n, TRUE) = [p \in DOMAIN saved[n] \ {} |-> saved[n][p] \ off]
             /\ ReadScope(n, FALSE) = [p \in DOMAIN saved[n] \ put |-> saved[n][p] \ away]
  <2>1. PICK S : S = saved[n]
    OBVIOUS
  <2>2. /\ Stored(n) = S /\ DOMAIN S = LiveRows(board[n].rows)
        /\ \A p \in DOMAIN S : S[p] = board[n].rows[p].links
    BY <2>1 DEF Kept, Stored
  <2>3. \A p \in DOMAIN S :
          /\ p \in DOMAIN priority /\ PlanOf[p] = n
          /\ \A k \in S[p] : k \in DOMAIN kpi /\ kpi[k].priority = p
    BY <2>2 DEF Kept
  <2>4. \A p \in DOMAIN S : {k \in S[p] : LinkShown(k, p, TRUE)} = S[p] \ off
    BY <2>3 DEF LinkShown
  <2>5. \A p \in DOMAIN S : {k \in S[p] : LinkShown(k, p, FALSE)} = S[p] \ away
    BY <2>3 DEF LinkShown
  <2> HIDE DEF off, away
  <2>6. ReadScope(n, TRUE) = [p \in DOMAIN S |-> {k \in S[p] : LinkShown(k, p, TRUE)}]
    BY <2>2, <2>3 DEF ReadScope
  <2>7. ReadScope(n, FALSE) = [p \in DOMAIN S \ put |-> {k \in S[p] : LinkShown(k, p, FALSE)}]
    <3>1. {q \in DOMAIN S : q \in DOMAIN priority /\ PlanOf[q] = n /\ (FALSE \/ ~priority[q].archived)}
            = DOMAIN S \ put
      BY <2>3
    <3> QED
      BY <2>2, <3>1 DEF ReadScope
  <2> QED
    BY <2>1, <2>4, <2>5, <2>6, <2>7
<1> QED
  BY <1>1 DEF BoardShowsWhatWasSaved

(* What is disclosed to the Board is what an Admin approved, and no         *)
(* approval is replaced by a page that does not show it (readScope,         *)
(* updateBoardReportingScope).                                              *)
THEOREM BoardAlwaysStands == BoardEditorSpec => []BoardStands
<1>1. BoardInv => BoardStands
  BY KeptIsShown DEF BoardInv, BoardStands
<1> QED
  BY <1>1, BoardInvariance, PTL

(* No Measure comes to hang below itself, and a deletion takes nothing that *)
(* has values, a definition or a place in a Board statement                 *)
(* (assertKpiUpdateIntegrity, retireOrDeleteKPI, retireOrDeleteCategory).   *)
THEOREM CatalogAlwaysStands == BoardEditorSpec => CatalogStands
<1>1. BoardInv => HierarchyIsForest
  BY DEF BoardInv
<1>2. BoardInv /\ [BoardEditorNext]_boardEditorVars => [DeletionSpares]_boardEditorVars
  BY NextKeeps
<1> QED
  BY <1>1, <1>2, BoardInvariance, PTL DEF BoardEditorSpec, CatalogStands
=============================================================================
