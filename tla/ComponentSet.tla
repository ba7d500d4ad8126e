------------------------------ MODULE ComponentSet ------------------------------
(***************************************************************************)
(* The components of one multi-component measurement configuration         *)
(* (kpi_components), the Targets of the Measure and of its components      *)
(* (kpi_targets), and the results recorded for one Reporting Period        *)
(* (kpi_component_entries), as Admins edit the one and enter the other     *)
(* (configuration-editing.ts, mutations.ts, value-entry.ts).               *)
(*                                                                         *)
(* The configuration is ready, covers the whole plan and stays so, and its *)
(* Measure is not archived: MeasureHistory is about what happens otherwise.*)
(* What a component means for calculations is its name (the label, and     *)
(* whether its status is a defined one) and its rule (the other semantic   *)
(* fields, its measurement type excepted, which stays).  Each subject has  *)
(* at most one Target, full-plan or annual alike; every value fits it.     *)
(***************************************************************************)
EXTENDS Naturals, FiniteSets

CONSTANTS
  MaxComponents,  \* bound: components that may come to exist
  MaxEntries,     \* bound: results that may come to be inserted
  Meanings,       \* what a name, or a rule, may say
  Values          \* what a result may be

ASSUME ComponentAssumption ==
  /\ MaxComponents \in Nat \ {0} /\ MaxEntries \in Nat
  /\ Meanings # {}

VARIABLES
  components,     \* kpi_components, by id
  targets,        \* kpi_targets, by subject
  entries,        \* kpi_component_entries of the period
  nextEntry       \* the next id SQLite hands out (AUTOINCREMENT: never again)

componentVars == <<components, targets, entries, nextEntry>>

ComponentIds == 1 .. MaxComponents
Measure == 0                          \* the subject of a parent Target
Subjects == {Measure} \cup ComponentIds
Orders == 0 .. MaxComponents

Created == DOMAIN components
Live == {c \in Created : components[c].live}

Component == [live : BOOLEAN, order : Orders, name : Meanings, rule : Meanings]

(* open: a row without a value; defined: targetCarriesDefinedSemantics.     *)
Target == [state : {"none", "open", "defined"}, live : BOOLEAN]
NoTarget == [state |-> "none", live |-> TRUE]

Defined(s) == targets[s].live /\ targets[s].state = "defined"
ParentTargetDefined == Defined(Measure)
ComponentTargetDefined == \E c \in Created : Defined(c)

EntriesOf(c) == {e \in entries : e.component = c}

HasValues_Never(c) == FALSE

(* componentHasHistoricalValues.                                            *)
HasValues(c) == EntriesOf(c) # {}

OrderFree(order, but) == \A c \in Live \ but : components[c].order # order

TargetsLeaveSetMutable_ParentOnly == ~ParentTargetDefined

(* assertComponentTargetSemanticsMutable.                                   *)
TargetsLeaveSetMutable == ~ParentTargetDefined /\ ~ComponentTargetDefined

(* A set as the editors may have left it before the first result: some of   *)
(* its components archived, at most one Target, put away with its subject.  *)
ComponentInit ==
  /\ \E n \in ComponentIds, meaning \in Meanings : \E archived \in SUBSET (1 .. n - 1) :
       components = [c \in 1 .. n |-> [live |-> c \notin archived, order |-> c - 1,
                                       name |-> meaning, rule |-> meaning]]
  /\ \E subject \in {Measure} \cup Created, state \in {"none", "defined"} :
       targets = [s \in Subjects |->
         IF s = subject /\ state = "defined"
           THEN [state |-> state, live |-> s = Measure \/ s \in Live] ELSE NoTarget]
  /\ entries = {} /\ nextEntry = 1

(* createStrategyComponent: never beside results or defined Targets.        *)
CreateComponent(order, name, rule) ==
  /\ Cardinality(Created) < MaxComponents
  /\ entries = {}
  /\ TargetsLeaveSetMutable
  /\ OrderFree(order, {})
  /\ components' = [c \in Created \cup {Cardinality(Created) + 1} |->
       IF c \in Created THEN components[c]
       ELSE [live |-> TRUE, order |-> order, name |-> name, rule |-> rule]]
  /\ UNCHANGED <<targets, entries, nextEntry>>

(* updateStrategyComponent: a parent Target fixes names and rules, a        *)
(* component Target every rule of the set, a result its own component.      *)
UpdateComponent(c, order, name, rule) ==
  LET ruled   == rule # components[c].rule
      changed == ruled \/ name # components[c].name
  IN
  /\ components[c].live
  /\ changed => ~ParentTargetDefined /\ ~HasValues(c)
  /\ ruled => ~ComponentTargetDefined
  /\ OrderFree(order, {c})
  /\ components' = [components EXCEPT ![c] =
       [live |-> TRUE, order |-> order, name |-> name, rule |-> rule]]
  /\ UNCHANGED <<targets, entries, nextEntry>>

(* reorderStrategyComponents: all the live ones, renumbered from 0.         *)
Reorder(position) ==
  /\ components' = [c \in Created |->
       IF c \in Live THEN [components[c] EXCEPT !.order = position[c]] ELSE components[c]]
  /\ UNCHANGED <<targets, entries, nextEntry>>

Positions ==
  {p \in [Live -> 0 .. Cardinality(Live) - 1] : \A c, d \in Live : p[c] = p[d] => c = d}

(* setArchived of a component: its results do not matter, the Targets do.   *)
ArchiveComponent(c) ==
  /\ components[c].live
  /\ TargetsLeaveSetMutable
  /\ components' = [components EXCEPT ![c].live = FALSE]
  /\ UNCHANGED <<targets, entries, nextEntry>>

RestoreComponent(c) ==
  /\ ~components[c].live
  /\ TargetsLeaveSetMutable
  /\ OrderFree(components[c].order, {c})
  /\ components' = [components EXCEPT ![c].live = TRUE]
  /\ UNCHANGED <<targets, entries, nextEntry>>

(* targetSubject: a Target of an archived component cannot be edited.       *)
SubjectLive(s) == s = Measure \/ s \in Live

(* createStrategicTarget, updateStrategicTarget.                            *)
SetTarget(s, state) ==
  /\ SubjectLive(s) /\ targets[s].live
  /\ targets' = [targets EXCEPT ![s].state = state]
  /\ UNCHANGED <<components, entries, nextEntry>>

(* Archiving asks nothing of the subject; restoring takes it up again.      *)
ArchiveTarget(s) ==
  /\ targets[s].live /\ targets[s].state # "none"
  /\ targets' = [targets EXCEPT ![s].live = FALSE]
  /\ UNCHANGED <<components, entries, nextEntry>>

RestoreTarget(s) ==
  /\ ~targets[s].live
  /\ SubjectLive(s)
  /\ targets' = [targets EXCEPT ![s].live = TRUE]
  /\ UNCHANGED <<components, entries, nextEntry>>

ConfigurationStep ==
  \/ \E o \in Orders, n, r \in Meanings : CreateComponent(o, n, r)
  \/ \E c \in Created, o \in Orders, n, r \in Meanings : UpdateComponent(c, o, n, r)
  \/ \E p \in Positions : Reorder(p)
  \/ \E c \in Created : ArchiveComponent(c) \/ RestoreComponent(c)
  \/ \E s \in Subjects, state \in {"open", "defined"} : SetTarget(s, state)
  \/ \E s \in Subjects : ArchiveTarget(s) \/ RestoreTarget(s)

(* The meaning under which a value is recorded is kept as history: the row  *)
(* itself names the component only.                                         *)
Meaning(c) == <<components[c].name, components[c].rule>>

Row(c, id, value) == [id |-> id, component |-> c, value |-> value, under |-> Meaning(c)]

(* The components a batch records for the first time.                       *)
New(values) == {c \in DOMAIN values : EntriesOf(c) = {}}

(* upsertStrategyComponentEntryInput: one row per component and period,     *)
(* updated in place, inserted under the next id otherwise.                  *)
Upserted(c, values) ==
  IF c \notin New(values)
    THEN {Row(c, e.id, values[c]) : e \in EntriesOf(c)}
    ELSE {Row(c, nextEntry + Cardinality({d \in New(values) : d < c}), values[c])}

(* upsertStrategyMultiComponentBatch: one transaction for all the values,   *)
(* refused as a whole when loadComponent refuses one of the components.     *)
Accepted(values) == DOMAIN values \subseteq Live

SaveEntries(values) ==
  /\ Accepted(values)
  /\ entries' = {e \in entries : e.component \notin DOMAIN values}
                  \cup UNION {Upserted(c, values) : c \in DOMAIN values}
  /\ nextEntry' = nextEntry + Cardinality(New(values))
  /\ UNCHANGED <<components, targets>>

(* deleteStrategyComponentEntry: by the id of the row, live or not.         *)
DeleteEntry(e) ==
  /\ entries' = entries \ {e}
  /\ UNCHANGED <<components, targets, nextEntry>>

EntryStep ==
  \/ \E S \in SUBSET Live : \E values \in [S -> Values] :
       /\ nextEntry + Cardinality(New(values)) <= MaxEntries + 1
       /\ SaveEntries(values)
  \/ \E e \in entries : DeleteEntry(e)

ComponentNext == ConfigurationStep \/ EntryStep

ComponentSpec == ComponentInit /\ [][ComponentNext]_componentVars

-----------------------------------------------------------------------------

EntryRows == [id : Nat, component : Created, value : Values, under : Meanings \X Meanings]

ComponentTypeOK ==
  /\ \E n \in ComponentIds : components \in [1 .. n -> Component]
  /\ targets \in [Subjects -> Target]
  /\ entries \subseteq EntryRows
  /\ nextEntry \in Nat

(* A recorded value is read, as long as it exists, under the definition of  *)
(* its component it was recorded under, whatever was edited, archived and   *)
(* restored since (rejectHistoricalSemanticEdit,                            *)
(* configuration-editing.ts:3831).                                          *)
EntryReadAsRecorded == \A e \in entries : e.under = Meaning(e.component)

(* The component set stays readable: a Target with a value always belongs   *)
(* to the Measure or to a component that is not archived, and no two such   *)
(* components claim one place (targetSubject, assertStrategyEntityRestore-  *)
(* Integrity, ensureComponentOrderAvailable).                               *)
SetCoherent ==
  /\ \A c \in ComponentIds : Defined(c) => c \in Live
  /\ \A c, d \in Live : components[c].order = components[d].order => c = d

(* No sequence of edits, splits, archives and restores breaks either: what  *)
(* is recorded and what is aimed at stays readable, and typed.              *)
ComponentsStand == ComponentTypeOK /\ EntryReadAsRecorded /\ SetCoherent

(* A Target that keeps its value keeps the set it was agreed for: no        *)
(* component joins or leaves, and no rule changes; under a Target of the    *)
(* whole Measure no name does either (assertComponentTargetSemanticsMutable,*)
(* configuration-editing.ts:3647).                                          *)
TargetReadsOneSet ==
  [][ \A s \in Subjects : Defined(s) /\ Defined(s)' =>
        /\ Live' = Live
        /\ \A c \in Live : components'[c].rule = components[c].rule
        /\ s = Measure => \A c \in Live : components'[c].name = components[c].name
    ]_componentVars
=============================================================================
