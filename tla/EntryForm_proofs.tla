--------------------------- MODULE EntryForm_proofs ---------------------------
(***************************************************************************)
(* For any number of components, results, requests, jobs of the router and *)
(* steps of other Admins.                                                  *)
(*                                                                         *)
(* First what holds of every component set (ComponentSpec).  Its three     *)
(* invariants are inductive together with the type invariant; the action   *)
(* property needs only that the component a Target names exists.           *)
(* Finiteness of the set of components is what makes ids and orders        *)
(* numbers.                                                                *)
(*                                                                         *)
(* Then what an entry form shows and what it takes for saved, and that the *)
(* form and the other Admins together do nothing to a component set that   *)
(* ComponentSet does not allow.                                            *)
(***************************************************************************)
EXTENDS EntryForm, FiniteSetTheorems, SequenceTheorems, TLAPS

USE ComponentAssumption

-----------------------------------------------------------------------------
(* Sets of components are finite, and the next component is a new one.      *)

LEMMA CreatedIsInterval ==
  ASSUME ComponentTypeOK
  PROVE  /\ Created \subseteq ComponentIds /\ Created \subseteq Nat
         /\ IsFiniteSet(Created) /\ Cardinality(Created) \in Nat
         /\ Created = 1 .. Cardinality(Created)
<1>1. PICK n \in ComponentIds : components \in [1 .. n -> Component]
  BY DEF ComponentTypeOK
<1>2. n \in Nat /\ 1 \in Int /\ Created = 1 .. n
  BY <1>1 DEF Created, ComponentIds
<1>3. IsFiniteSet(1 .. n) /\ Cardinality(1 .. n) = n
  BY <1>2, FS_Interval
<1> QED
  BY <1>2, <1>3 DEF ComponentIds

LEMMA LiveIsFinite ==
  ASSUME ComponentTypeOK
  PROVE  /\ Live \subseteq Created /\ IsFiniteSet(Live)
         /\ Cardinality(Live) \in Nat /\ Cardinality(Live) <= MaxComponents
<1>1. Live \subseteq Created
  BY DEF Live
<1>2. IsFiniteSet(Live) /\ Cardinality(Live) <= Cardinality(Created)
  BY <1>1, CreatedIsInterval, FS_Subset
<1>3. Cardinality(Live) \in Nat
  BY <1>2, FS_CardinalityType
<1>4. IsFiniteSet(1 .. MaxComponents) /\ Cardinality(1 .. MaxComponents) = MaxComponents
  BY FS_Interval
<1>5. Cardinality(Created) <= MaxComponents
  BY <1>4, CreatedIsInterval, FS_Subset DEF ComponentIds
<1> QED
  BY <1>1, <1>2, <1>3, <1>5, CreatedIsInterval

LEMMA ComponentsTyped ==
  ASSUME ComponentTypeOK, NEW c \in Created
  PROVE  components[c] \in Component
BY DEF ComponentTypeOK, Created

LEMMA NewIsFinite ==
  ASSUME ComponentTypeOK, NEW values, DOMAIN values \subseteq Live, NEW c
  PROVE  /\ Cardinality(New(values)) \in Nat
         /\ Cardinality({d \in New(values) : d < c}) \in Nat
<1>1. New(values) \subseteq Live /\ {d \in New(values) : d < c} \subseteq Live
  BY DEF New
<1>2. IsFiniteSet(New(values)) /\ IsFiniteSet({d \in New(values) : d < c})
  BY <1>1, LiveIsFinite, FS_Subset
<1> QED
  BY <1>2, FS_CardinalityType

-----------------------------------------------------------------------------
(* Type correctness.                                                        *)

LEMMA TypeInit == ComponentInit => ComponentTypeOK
<1> SUFFICES ASSUME ComponentInit PROVE ComponentTypeOK
  OBVIOUS
<1>1. PICK n \in ComponentIds, meaning \in Meanings : \E archived \in SUBSET (1 .. n - 1) :
        components = [c \in 1 .. n |-> [live |-> c \notin archived, order |-> c - 1,
                                        name |-> meaning, rule |-> meaning]]
  BY DEF ComponentInit
<1>2. PICK archived \in SUBSET (1 .. n - 1) :
        components = [c \in 1 .. n |-> [live |-> c \notin archived, order |-> c - 1,
                                        name |-> meaning, rule |-> meaning]]
  BY <1>1
<1>3. \A c \in 1 .. n : c - 1 \in Orders /\ (c \notin archived) \in BOOLEAN
  BY DEF ComponentIds, Orders
<1>4. components \in [1 .. n -> Component]
  BY <1>2, <1>3 DEF Component
<1>5. targets \in [Subjects -> Target]
  BY DEF ComponentInit, Target, NoTarget
<1>6. entries = {} /\ nextEntry \in Nat
  BY DEF ComponentInit
<1> QED
  BY <1>4, <1>5, <1>6 DEF ComponentTypeOK

(* What an edit of the set leaves: the old components, and perhaps one more.*)
LEMMA CreateTyped ==
  ASSUME ComponentTypeOK, NEW o \in Orders, NEW n \in Meanings, NEW r \in Meanings,
         CreateComponent(o, n, r)
  PROVE  /\ \E k \in ComponentIds : components' \in [1 .. k -> Component]
         /\ Created \subseteq Created'
         /\ \A c \in Created : components'[c] = components[c]
         /\ \A c \in Created' : c \notin Created =>
              components'[c] = [live |-> TRUE, order |-> o, name |-> n, rule |-> r]
<1> DEFINE k == Cardinality(Created) + 1
           new == [live |-> TRUE, order |-> o, name |-> n, rule |-> r]
<1>1. /\ Cardinality(Created) \in Nat /\ Created = 1 .. Cardinality(Created)
      /\ Cardinality(Created) < MaxComponents
  BY CreatedIsInterval DEF CreateComponent
<1>2. k \in ComponentIds /\ Created \cup {k} = 1 .. k
  BY <1>1 DEF ComponentIds
<1>3. components' = [c \in Created \cup {k} |-> IF c \in Created THEN components[c] ELSE new]
  BY DEF CreateComponent
<1>4. new \in Component
  BY DEF Component
<1>5. \A c \in Created : components[c] \in Component
  BY ComponentsTyped
<1>6. components' \in [1 .. k -> Component]
  BY <1>2, <1>3, <1>4, <1>5
<1>7. Created' = Created \cup {k}
  BY <1>3 DEF Created
<1> QED
  BY <1>2, <1>3, <1>6, <1>7

LEMMA EditTyped ==
  ASSUME ComponentTypeOK, NEW c \in Created, NEW new \in Component,
         components' = [components EXCEPT ![c] = new]
  PROVE  /\ \E k \in ComponentIds : components' \in [1 .. k -> Component]
         /\ Created' = Created
BY DEF ComponentTypeOK, Created

LEMMA ReorderTyped ==
  ASSUME ComponentTypeOK, NEW position \in Positions, Reorder(position)
  PROVE  /\ \E k \in ComponentIds : components' \in [1 .. k -> Component]
         /\ Created' = Created
<1>1. PICK k \in ComponentIds : components \in [1 .. k -> Component]
  BY DEF ComponentTypeOK
<1>2. Created = 1 .. k
  BY <1>1 DEF Created
<1>3. \A c \in Live : position[c] \in Orders
  BY LiveIsFinite DEF Positions, Orders
<1>4. \A c \in Live : components[c] \in Component
  BY ComponentsTyped DEF Live
<1>5. \A c \in Live : [components[c] EXCEPT !.order = position[c]] \in Component
  BY <1>3, <1>4 DEF Component
<1>6. components' = [c \in Created |-> IF c \in Live
        THEN [components[c] EXCEPT !.order = position[c]] ELSE components[c]]
  BY DEF Reorder
<1>7. components' \in [1 .. k -> Component]
  BY <1>1, <1>2, <1>5, <1>6
<1> QED
  BY <1>6, <1>7 DEF Created

LEMMA SetTargetTyped ==
  ASSUME ComponentTypeOK, NEW s \in Subjects, NEW t \in Target,
         targets' = [targets EXCEPT ![s] = t]
  PROVE  targets' \in [Subjects -> Target]
BY DEF ComponentTypeOK

(* The rows a batch inserts or updates.                                     *)
LEMMA UpsertedTyped ==
  ASSUME ComponentTypeOK, NEW S \in SUBSET Live, NEW values \in [S -> Values], NEW c \in S,
         NEW e \in Upserted(c, values)
  PROVE  e \in EntryRows /\ e.component = c /\ e.under = Meaning(c)
<1>1. c \in Created /\ values[c] \in Values /\ DOMAIN values \subseteq Live
  BY DEF Live
<1>2. Meaning(c) \in Meanings \X Meanings
  BY <1>1, ComponentsTyped DEF Meaning, Component
<1>3. \A d \in EntriesOf(c) : d.id \in Nat
  BY DEF EntriesOf, ComponentTypeOK, EntryRows
<1>4. nextEntry + Cardinality({d \in New(values) : d < c}) \in Nat
  <2>1. Cardinality({d \in New(values) : d < c}) \in Nat
    BY <1>1, NewIsFinite
  <2>2. nextEntry \in Nat
    BY DEF ComponentTypeOK
  <2> QED
    BY <2>1, <2>2
<1>5. \E id \in Nat : e = Row(c, id, values[c])
  BY <1>3, <1>4 DEF Upserted
<1> QED
  BY <1>1, <1>2, <1>5 DEF Row, EntryRows

LEMMA ConfigurationStepTyped == ComponentTypeOK /\ ConfigurationStep => ComponentTypeOK'
<1> SUFFICES ASSUME ComponentTypeOK, ConfigurationStep PROVE ComponentTypeOK'
  OBVIOUS
<1>1. entries' = entries /\ nextEntry' = nextEntry
  BY DEF ConfigurationStep, CreateComponent, UpdateComponent, Reorder, ArchiveComponent,
         RestoreComponent, SetTarget, ArchiveTarget, RestoreTarget
<1>2. SUFFICES /\ \E k \in ComponentIds : components' \in [1 .. k -> Component]
               /\ Created \subseteq Created'
               /\ targets' \in [Subjects -> Target]
  BY <1>1 DEF ComponentTypeOK, EntryRows
<1>3. ASSUME NEW o \in Orders, NEW n \in Meanings, NEW r \in Meanings, CreateComponent(o, n, r)
      PROVE  /\ \E k \in ComponentIds : components' \in [1 .. k -> Component]
             /\ Created \subseteq Created'
             /\ targets' \in [Subjects -> Target]
  BY <1>3, CreateTyped DEF CreateComponent, ComponentTypeOK
<1>4. ASSUME NEW c \in Created, NEW o \in Orders, NEW n \in Meanings, NEW r \in Meanings,
             UpdateComponent(c, o, n, r)
      PROVE  /\ \E k \in ComponentIds : components' \in [1 .. k -> Component]
             /\ Created \subseteq Created'
             /\ targets' \in [Subjects -> Target]
  <2>1. [live |-> TRUE, order |-> o, name |-> n, rule |-> r] \in Component
    BY DEF Component
  <2> QED
    BY <1>4, <2>1, EditTyped DEF UpdateComponent, ComponentTypeOK
<1>5. ASSUME NEW p \in Positions, Reorder(p)
      PROVE  /\ \E k \in ComponentIds : components' \in [1 .. k -> Component]
             /\ Created \subseteq Created'
             /\ targets' \in [Subjects -> Target]
  BY <1>5, ReorderTyped DEF Reorder, ComponentTypeOK
<1>6. ASSUME NEW c \in Created, ArchiveComponent(c) \/ RestoreComponent(c)
      PROVE  /\ \E k \in ComponentIds : components' \in [1 .. k -> Component]
             /\ Created \subseteq Created'
             /\ targets' \in [Subjects -> Target]
  <2>1. components[c] \in Component
    BY ComponentsTyped
  <2>2. \A b \in BOOLEAN : [components[c] EXCEPT !.live = b] \in Component
    BY <2>1 DEF Component
  <2>3. \E b \in BOOLEAN : components' = [components EXCEPT ![c] = [components[c] EXCEPT !.live = b]]
    BY <1>6 DEF ArchiveComponent, RestoreComponent
  <2> QED
    BY <1>6, <2>2, <2>3, EditTyped DEF ArchiveComponent, RestoreComponent, ComponentTypeOK
<1>7. ASSUME NEW s \in Subjects, NEW state \in {"open", "defined"},
             SetTarget(s, state) \/ ArchiveTarget(s) \/ RestoreTarget(s)
      PROVE  /\ \E k \in ComponentIds : components' \in [1 .. k -> Component]
             /\ Created \subseteq Created'
             /\ targets' \in [Subjects -> Target]
  <2>1. targets[s] \in Target
    BY DEF ComponentTypeOK
  <2>2. \E t \in Target : targets' = [targets EXCEPT ![s] = t]
    <3>1. CASE SetTarget(s, state)
      <4>1. [targets[s] EXCEPT !.state = state] \in Target
        BY <2>1 DEF Target
      <4> QED
        BY <3>1, <4>1 DEF SetTarget
    <3>2. CASE ArchiveTarget(s) \/ RestoreTarget(s)
      <4>1. \A b \in BOOLEAN : [targets[s] EXCEPT !.live = b] \in Target
        BY <2>1 DEF Target
      <4> QED
        BY <3>2, <4>1 DEF ArchiveTarget, RestoreTarget
    <3> QED
      BY <1>7, <3>1, <3>2
  <2>3. targets' \in [Subjects -> Target]
    BY <2>2, SetTargetTyped
  <2>4. components' = components
    BY <1>7 DEF SetTarget, ArchiveTarget, RestoreTarget
  <2> QED
    BY <2>3, <2>4 DEF ComponentTypeOK, Created
<1> QED
  BY <1>3, <1>4, <1>5, <1>6, <1>7 DEF ConfigurationStep

(* The rows after a step of those who enter results: old ones, or rows that *)
(* name what their component means now.                                     *)
LEMMA EntryStepRows ==
  ASSUME ComponentTypeOK, EntryStep
  PROVE  /\ components' = components /\ targets' = targets /\ nextEntry' \in Nat
         /\ \A e \in entries' : e \in entries \/ (e \in EntryRows /\ e.under = Meaning(e.component))
<1>1. ASSUME NEW S \in SUBSET Live, NEW values \in [S -> Values], SaveEntries(values)
      PROVE  /\ components' = components /\ targets' = targets /\ nextEntry' \in Nat
             /\ \A e \in entries' :
                  e \in entries \/ (e \in EntryRows /\ e.under = Meaning(e.component))
  <2>1. Cardinality(New(values)) \in Nat
    BY NewIsFinite
  <2>2. nextEntry \in Nat
    BY DEF ComponentTypeOK, EntryRows
  <2>3. ASSUME NEW e \in entries', e \notin entries
        PROVE  e \in EntryRows /\ e.under = Meaning(e.component)
    <3>1. PICK c \in S : e \in Upserted(c, values)
      BY <1>1, <2>3 DEF SaveEntries
    <3> QED
      BY <3>1, UpsertedTyped
  <2> QED
    BY <1>1, <2>1, <2>2, <2>3 DEF SaveEntries
<1>2. ASSUME NEW e \in entries, DeleteEntry(e)
      PROVE  /\ components' = components /\ targets' = targets /\ nextEntry' \in Nat
             /\ \A d \in entries' : d \in entries
  BY <1>2 DEF DeleteEntry, ComponentTypeOK
<1> QED
  BY <1>1, <1>2 DEF EntryStep

LEMMA EntryStepTyped == ComponentTypeOK /\ EntryStep => ComponentTypeOK'
<1> SUFFICES ASSUME ComponentTypeOK, EntryStep PROVE ComponentTypeOK'
  OBVIOUS
<1>1. /\ components' = components /\ targets' = targets /\ nextEntry' \in Nat
      /\ \A e \in entries' : e \in entries \/ e \in EntryRows
  BY EntryStepRows
<1>2. entries \subseteq EntryRows
  BY DEF ComponentTypeOK
<1>3. entries' \subseteq EntryRows
  BY <1>1, <1>2
<1>4. EntryRows' = EntryRows
  BY <1>1 DEF EntryRows, Created
<1> QED
  BY <1>1, <1>3, <1>4 DEF ComponentTypeOK

LEMMA StepTyped == ComponentTypeOK /\ [ComponentNext]_componentVars => ComponentTypeOK'
<1>1. ComponentTypeOK /\ UNCHANGED componentVars => ComponentTypeOK'
  BY DEF componentVars, ComponentTypeOK, EntryRows, Created
<1> QED
  BY <1>1, ConfigurationStepTyped, EntryStepTyped DEF ComponentNext

(* Every reachable state of a component set is well typed: no operation     *)
(* leaves a row that names a component or a meaning there is none of.       *)
THEOREM ComponentsTypeCorrect == ComponentSpec => []ComponentTypeOK
BY TypeInit, StepTyped, PTL DEF ComponentSpec

-----------------------------------------------------------------------------
(* Results keep the meaning they were recorded under.                       *)

(* What an edit may do to a component that has results.                     *)
LEMMA MeaningsHold ==
  ASSUME ComponentTypeOK, ConfigurationStep, NEW e \in entries
  PROVE  Meaning(e.component)' = Meaning(e.component)
<1> DEFINE d == e.component
<1>0. d \in Created /\ e \in EntriesOf(d) /\ HasValues(d)
  BY DEF ComponentTypeOK, EntryRows, EntriesOf, HasValues
<1>1. SUFFICES components'[d].name = components[d].name /\ components'[d].rule = components[d].rule
  BY DEF Meaning
<1>2. ASSUME NEW o \in Orders, NEW n \in Meanings, NEW r \in Meanings, CreateComponent(o, n, r)
      PROVE  FALSE
  BY <1>2 DEF CreateComponent
<1>3. ASSUME NEW c \in Created, NEW o \in Orders, NEW n \in Meanings, NEW r \in Meanings,
             UpdateComponent(c, o, n, r)
      PROVE  components'[d].name = components[d].name /\ components'[d].rule = components[d].rule
  <2>1. components \in [Created -> Component]
    BY DEF ComponentTypeOK, Created
  <2>2. CASE c = d
    BY <1>0, <1>3, <2>1, <2>2 DEF UpdateComponent
  <2>3. CASE c # d
    BY <1>0, <1>3, <2>1, <2>3 DEF UpdateComponent
  <2> QED
    BY <2>2, <2>3
<1>4. ASSUME NEW p \in Positions, Reorder(p)
      PROVE  components'[d].name = components[d].name /\ components'[d].rule = components[d].rule
  <2>1. components[d] \in Component
    BY <1>0, ComponentsTyped
  <2>2. components'[d] = IF d \in Live THEN [components[d] EXCEPT !.order = p[d]] ELSE components[d]
    BY <1>0, <1>4 DEF Reorder
  <2> QED
    BY <2>1, <2>2 DEF Component
<1>5. ASSUME NEW c \in Created, ArchiveComponent(c) \/ RestoreComponent(c)
      PROVE  components'[d].name = components[d].name /\ components'[d].rule = components[d].rule
  <2>1. components \in [Created -> Component]
    BY DEF ComponentTypeOK, EntryRows, Created
  <2>2. \E b \in BOOLEAN : components' = [components EXCEPT ![c] = [components[c] EXCEPT !.live = b]]
    BY <1>5 DEF ArchiveComponent, RestoreComponent
  <2> QED
    BY <1>0, <2>1, <2>2 DEF Component
<1>6. ASSUME NEW s \in Subjects, NEW state \in {"open", "defined"},
             SetTarget(s, state) \/ ArchiveTarget(s) \/ RestoreTarget(s)
      PROVE  components' = components
  BY <1>6 DEF SetTarget, ArchiveTarget, RestoreTarget
<1> QED
  BY <1>2, <1>3, <1>4, <1>5, <1>6 DEF ConfigurationStep

LEMMA EntriesKept == ConfigurationStep => entries' = entries
BY DEF ConfigurationStep, CreateComponent, UpdateComponent, Reorder, ArchiveComponent,
       RestoreComponent, SetTarget, ArchiveTarget, RestoreTarget

LEMMA ReadAsRecordedStep ==
  ComponentTypeOK /\ EntryReadAsRecorded /\ [ComponentNext]_componentVars => EntryReadAsRecorded'
<1> SUFFICES ASSUME ComponentTypeOK, EntryReadAsRecorded, [ComponentNext]_componentVars
             PROVE  EntryReadAsRecorded'
  OBVIOUS
<1>1. CASE ConfigurationStep
  BY <1>1, MeaningsHold, EntriesKept DEF EntryReadAsRecorded
<1>2. CASE EntryStep
  <2>1. /\ components' = components
        /\ \A e \in entries' : e \in entries \/ e.under = Meaning(e.component)
    BY <1>2, EntryStepRows
  <2>2. \A e \in entries' : Meaning(e.component)' = Meaning(e.component)
    BY <2>1 DEF Meaning
  <2> QED
    BY <2>1, <2>2 DEF EntryReadAsRecorded
<1>3. CASE UNCHANGED componentVars
  BY <1>3 DEF componentVars, EntryReadAsRecorded, Meaning
<1> QED
  BY <1>1, <1>2, <1>3 DEF ComponentNext

(* A recorded value is always read under the definition its component had   *)
(* when it was recorded, for any number of components and edits.            *)
THEOREM EntriesAreReadAsRecorded == ComponentSpec => []EntryReadAsRecorded
<1>1. ComponentInit => EntryReadAsRecorded
  BY DEF ComponentInit, EntryReadAsRecorded
<1> QED
  BY <1>1, TypeInit, StepTyped, ReadAsRecordedStep, PTL DEF ComponentSpec

-----------------------------------------------------------------------------
(* The set stays coherent.                                                  *)

TargetsOfLive == \A c \in ComponentIds : Defined(c) => c \in Live
OrdersDistinct == \A c, d \in Live : components[c].order = components[d].order => c = d

LEMMA CoherentIsBoth == SetCoherent <=> TargetsOfLive /\ OrdersDistinct
BY DEF SetCoherent, TargetsOfLive, OrdersDistinct

LEMMA CoherentInit == ComponentInit => SetCoherent
<1> SUFFICES ASSUME ComponentInit PROVE TargetsOfLive /\ OrdersDistinct
  BY CoherentIsBoth
<1>1. PICK n \in ComponentIds, meaning \in Meanings : \E archived \in SUBSET (1 .. n - 1) :
        components = [c \in 1 .. n |-> [live |-> c \notin archived, order |-> c - 1,
                                        name |-> meaning, rule |-> meaning]]
  BY DEF ComponentInit
<1>2. \A c \in Created : c \in Nat /\ components[c].order = c - 1
  BY <1>1 DEF Created, ComponentIds
<1>3. OrdersDistinct
  BY <1>2 DEF OrdersDistinct, Live
<1>4. PICK subject \in {Measure} \cup Created, state \in {"none", "defined"} :
        targets = [s \in Subjects |->
          IF s = subject /\ state = "defined"
            THEN [state |-> state, live |-> s = Measure \/ s \in Live] ELSE NoTarget]
  BY DEF ComponentInit
<1>5. ASSUME NEW c \in ComponentIds, Defined(c)
      PROVE  c \in Live
  <2>1. c \in Subjects /\ c # Measure
    BY DEF Subjects, Measure, ComponentIds
  <2>2. targets[c].state = "defined" /\ targets[c].live
    BY <1>5 DEF Defined
  <2>3. CASE c = subject /\ state = "defined"
    BY <1>4, <2>1, <2>2, <2>3
  <2>4. CASE ~(c = subject /\ state = "defined")
    BY <1>4, <2>1, <2>2, <2>4 DEF NoTarget
  <2> QED
    BY <2>3, <2>4
<1> QED
  BY <1>3, <1>5 DEF TargetsOfLive

LEMMA CreateCoherent ==
  ASSUME ComponentTypeOK, SetCoherent,
         NEW o \in Orders, NEW n \in Meanings, NEW r \in Meanings, CreateComponent(o, n, r)
  PROVE  SetCoherent'
<1> DEFINE k == Cardinality(Created) + 1
           new == [live |-> TRUE, order |-> o, name |-> n, rule |-> r]
<1>1. k \notin Created
  BY CreatedIsInterval
<1>2. components' = [c \in Created \cup {k} |-> IF c \in Created THEN components[c] ELSE new]
  BY DEF CreateComponent
<1>3. /\ \A c \in Created : components'[c] = components[c]
      /\ components'[k] = new /\ Created' = Created \cup {k}
  BY <1>1, <1>2 DEF Created
<1>4. Live' = Live \cup {k}
  BY <1>1, <1>3 DEF Live
<1>5. TargetsOfLive'
  BY <1>4, CoherentIsBoth DEF TargetsOfLive, Defined, CreateComponent
<1>6. \A c \in Live : components[c].order # o
  BY DEF CreateComponent, OrderFree
<1>7. OrdersDistinct'
  BY <1>3, <1>4, <1>6, CoherentIsBoth DEF OrdersDistinct, Live
<1> QED
  BY <1>5, <1>7 DEF SetCoherent, TargetsOfLive, OrdersDistinct

LEMMA UpdateCoherent ==
  ASSUME ComponentTypeOK, SetCoherent, NEW c \in Created,
         NEW o \in Orders, NEW n \in Meanings, NEW r \in Meanings, UpdateComponent(c, o, n, r)
  PROVE  SetCoherent' /\ Live' = Live
<1>1. components \in [Created -> Component]
  BY DEF ComponentTypeOK, Created
<1>2. /\ Created' = Created /\ components'[c].live /\ components'[c].order = o
      /\ \A d \in Created \ {c} : components'[d] = components[d]
  BY <1>1 DEF UpdateComponent, Created
<1>3. Live' = Live
  BY <1>2 DEF Live, UpdateComponent
<1>4. TargetsOfLive'
  BY <1>3, CoherentIsBoth DEF TargetsOfLive, Defined, UpdateComponent
<1>5. \A d \in Live \ {c} : components[d].order # o
  BY DEF UpdateComponent, OrderFree
<1>6. OrdersDistinct'
  BY <1>2, <1>3, <1>5, CoherentIsBoth DEF OrdersDistinct, Live
<1> QED
  BY <1>3, <1>4, <1>6 DEF SetCoherent, TargetsOfLive, OrdersDistinct

LEMMA ReorderCoherent ==
  ASSUME ComponentTypeOK, SetCoherent, NEW p \in Positions, Reorder(p)
  PROVE  SetCoherent' /\ Live' = Live
<1>1. \A d \in Created : components'[d] =
        IF d \in Live THEN [components[d] EXCEPT !.order = p[d]] ELSE components[d]
  BY DEF Reorder
<1>2. Created' = Created
  BY DEF Reorder, Created
<1>3. \A d \in Created : components[d] \in Component
  BY ComponentsTyped
<1>4. \A d \in Created : components'[d].live = components[d].live
  BY <1>1, <1>3 DEF Component
<1>5. \A d \in Live : components'[d].order = p[d]
  BY <1>1, <1>3 DEF Component, Live
<1>6. Live' = Live
  BY <1>2, <1>4 DEF Live
<1>7. TargetsOfLive'
  BY <1>6, CoherentIsBoth DEF TargetsOfLive, Defined, Reorder
<1>8. OrdersDistinct'
  BY <1>5, <1>6 DEF OrdersDistinct, Positions
<1> QED
  BY <1>6, <1>7, <1>8 DEF SetCoherent, TargetsOfLive, OrdersDistinct

LEMMA LifecycleCoherent ==
  ASSUME ComponentTypeOK, SetCoherent, NEW c \in Created, ArchiveComponent(c) \/ RestoreComponent(c)
  PROVE  SetCoherent'
<1>1. components \in [Created -> Component]
  BY DEF ComponentTypeOK, Created
<1>2. /\ Created' = Created /\ \A d \in Created : components'[d].order = components[d].order
      /\ \A d \in Created \ {c} : components'[d] = components[d]
  BY <1>1 DEF ArchiveComponent, RestoreComponent, Created, Component
<1>3. TargetsOfLive'
  <2>1. ~ComponentTargetDefined /\ targets' = targets
    BY DEF ArchiveComponent, RestoreComponent, TargetsLeaveSetMutable
  <2>2. \A d \in ComponentIds : ~Defined(d)
    BY <2>1, CoherentIsBoth DEF TargetsOfLive, ComponentTargetDefined, Live
  <2> QED
    BY <2>1, <2>2 DEF TargetsOfLive, Defined
<1>4. CASE ArchiveComponent(c)
  <2>1. ~components'[c].live
    BY <1>1, <1>4 DEF ArchiveComponent, Component
  <2>2. Live' \subseteq Live
    BY <1>2, <2>1 DEF Live
  <2>3. OrdersDistinct'
    BY <1>2, <2>2, CoherentIsBoth DEF OrdersDistinct, Live
  <2> QED
    BY <1>3, <2>3 DEF SetCoherent, TargetsOfLive, OrdersDistinct
<1>5. CASE RestoreComponent(c)
  <2>1. \A d \in Live \ {c} : components[d].order # components[c].order
    BY <1>5 DEF RestoreComponent, OrderFree
  <2>2. Live' \subseteq Live \cup {c}
    BY <1>2 DEF Live
  <2>3. OrdersDistinct'
    BY <1>2, <2>1, <2>2, CoherentIsBoth DEF OrdersDistinct, Live
  <2> QED
    BY <1>3, <2>3 DEF SetCoherent, TargetsOfLive, OrdersDistinct
<1> QED
  BY <1>4, <1>5

LEMMA TargetCoherent ==
  ASSUME ComponentTypeOK, SetCoherent, NEW s \in Subjects, NEW state \in {"open", "defined"},
         SetTarget(s, state) \/ ArchiveTarget(s) \/ RestoreTarget(s)
  PROVE  SetCoherent'
<1>1. components' = components
  BY DEF SetTarget, ArchiveTarget, RestoreTarget
<1>2. Live' = Live /\ OrdersDistinct'
  BY <1>1, CoherentIsBoth DEF Live, Created, OrdersDistinct
<1>3. targets \in [Subjects -> Target]
  BY DEF ComponentTypeOK
<1>4. \A d \in Subjects \ {s} : targets'[d] = targets[d]
  BY <1>3 DEF SetTarget, ArchiveTarget, RestoreTarget
<1>5. ArchiveTarget(s) => ~targets'[s].live
  BY <1>3 DEF ArchiveTarget, Target
<1>6. ~ArchiveTarget(s) => s = Measure \/ s \in Live
  BY DEF SetTarget, RestoreTarget, SubjectLive
<1>7. ASSUME NEW d \in ComponentIds, Defined(d)'
      PROVE  d \in Live
  <2>1. d \in Subjects /\ d # Measure
    BY DEF Subjects, Measure, ComponentIds
  <2>2. CASE d = s
    BY <1>5, <1>6, <1>7, <2>1, <2>2 DEF Defined
  <2>3. CASE d # s
    BY <1>4, <1>7, <2>1, <2>3, CoherentIsBoth DEF Defined, TargetsOfLive
  <2> QED
    BY <2>2, <2>3
<1> QED
  BY <1>2, <1>7 DEF SetCoherent, OrdersDistinct

LEMMA CoherentStep == ComponentTypeOK /\ SetCoherent /\ [ComponentNext]_componentVars => SetCoherent'
<1> SUFFICES ASSUME ComponentTypeOK, SetCoherent, [ComponentNext]_componentVars
             PROVE  SetCoherent'
  OBVIOUS
<1>1. CASE ConfigurationStep
  BY <1>1, CreateCoherent, UpdateCoherent, ReorderCoherent, LifecycleCoherent, TargetCoherent
  DEF ConfigurationStep
<1>2. CASE EntryStep \/ UNCHANGED componentVars
  <2>1. components' = components /\ targets' = targets
    BY <1>2, EntryStepRows DEF componentVars
  <2> QED
    BY <2>1 DEF SetCoherent, Live, Created, Defined
<1> QED
  BY <1>1, <1>2 DEF ComponentNext

(* A Target with a value always has a live subject, and the live components *)
(* never share a place.                                                     *)
THEOREM SetStaysCoherent == ComponentSpec => []SetCoherent
BY TypeInit, StepTyped, CoherentInit, CoherentStep, PTL DEF ComponentSpec

(* All three at once, as the run checks them.                               *)
THEOREM ComponentsAlwaysStand == ComponentSpec => []ComponentsStand
BY ComponentsTypeCorrect, EntriesAreReadAsRecorded, SetStaysCoherent, PTL DEF ComponentsStand

-----------------------------------------------------------------------------
(* A Target with a value keeps its set.                                     *)

LEMMA SetKept ==
  ASSUME ComponentTypeOK, SetCoherent, ConfigurationStep,
         NEW s \in Subjects, Defined(s), Defined(s)'
  PROVE  /\ Live' = Live
         /\ \A c \in Live : components'[c].rule = components[c].rule
         /\ s = Measure => \A c \in Live : components'[c].name = components[c].name
<1>1. ~TargetsLeaveSetMutable
  <2>1. CASE s = Measure
    BY <2>1 DEF TargetsLeaveSetMutable, ParentTargetDefined
  <2>2. CASE s # Measure
    <3>1. s \in Created
      BY <2>2 DEF SetCoherent, Subjects, Live
    <3> QED
      BY <3>1 DEF TargetsLeaveSetMutable, ComponentTargetDefined
  <2> QED
    BY <2>1, <2>2
<1>2. /\ \A o \in Orders, n, r \in Meanings : ~CreateComponent(o, n, r)
      /\ \A c \in Created : ~ArchiveComponent(c) /\ ~RestoreComponent(c)
  BY <1>1 DEF CreateComponent, ArchiveComponent, RestoreComponent
<1>3. ASSUME NEW c \in Created, NEW o \in Orders, NEW n \in Meanings, NEW r \in Meanings,
             UpdateComponent(c, o, n, r)
      PROVE  /\ Live' = Live
             /\ \A d \in Live : components'[d].rule = components[d].rule
             /\ s = Measure => \A d \in Live : components'[d].name = components[d].name
  <2>1. Live' = Live
    BY <1>3, UpdateCoherent
  <2>2. components \in [Created -> Component]
    BY DEF ComponentTypeOK, Created
  <2>3. /\ components'[c].rule = r /\ components'[c].name = n
        /\ \A d \in Created \ {c} : components'[d] = components[d]
    BY <1>3, <2>2 DEF UpdateComponent
  <2>4. r = components[c].rule
    BY <1>1, <1>3 DEF UpdateComponent, TargetsLeaveSetMutable
  <2>5. s = Measure => n = components[c].name
    BY <1>3 DEF UpdateComponent, ParentTargetDefined
  <2> QED
    BY <2>1, <2>3, <2>4, <2>5 DEF Live
<1>4. ASSUME NEW p \in Positions, Reorder(p)
      PROVE  /\ Live' = Live
             /\ \A d \in Live : components'[d].rule = components[d].rule
             /\ s = Measure => \A d \in Live : components'[d].name = components[d].name
  <2>1. Live' = Live
    BY <1>4, ReorderCoherent
  <2>2. \A d \in Live : components[d] \in Component
    BY ComponentsTyped DEF Live
  <2>3. \A d \in Live : components'[d] = [components[d] EXCEPT !.order = p[d]]
    BY <1>4 DEF Reorder, Live
  <2> QED
    BY <2>1, <2>2, <2>3 DEF Component
<1>5. ASSUME NEW t \in Subjects, NEW state \in {"open", "defined"},
             SetTarget(t, state) \/ ArchiveTarget(t) \/ RestoreTarget(t)
      PROVE  components' = components
  BY <1>5 DEF SetTarget, ArchiveTarget, RestoreTarget
<1>6. components' = components => Live' = Live
  BY DEF Live, Created
<1> QED
  BY <1>2, <1>3, <1>4, <1>5, <1>6 DEF ConfigurationStep

(* While a Target keeps its value no component joins or leaves the set it   *)
(* was agreed for, and none is counted by another rule.                     *)
THEOREM TargetsReadOneSet == ComponentSpec => TargetReadsOneSet
<1> DEFINE Kept == \A s \in Subjects : Defined(s) /\ Defined(s)' =>
             /\ Live' = Live
             /\ \A c \in Live : components'[c].rule = components[c].rule
             /\ s = Measure => \A c \in Live : components'[c].name = components[c].name
<1>1. ComponentTypeOK /\ SetCoherent /\ [ComponentNext]_componentVars => [Kept]_componentVars
  <2> SUFFICES ASSUME ComponentTypeOK, SetCoherent, ComponentNext PROVE Kept
    OBVIOUS
  <2>1. CASE ConfigurationStep
    BY <2>1, SetKept
  <2>2. CASE EntryStep
    <3>1. components' = components
      BY <2>2, EntryStepRows
    <3> QED
      BY <3>1 DEF Live, Created
  <2> QED
    BY <2>1, <2>2 DEF ComponentNext
<1>2. ComponentSpec => []ComponentTypeOK
  BY ComponentsTypeCorrect
<1>3. ComponentSpec => []SetCoherent
  BY SetStaysCoherent
<1>4. ComponentSpec => [][Kept]_componentVars
  BY <1>1, <1>2, <1>3, PTL DEF ComponentSpec
<1> QED
  BY <1>4 DEF TargetReadsOneSet

-----------------------------------------------------------------------------
(* The inductive invariant.                                                 *)

Inputs == Values \cup {Blank}
Jobs == {"refresh", "measure", "other"}
Answers == {"none", "ok", "refused"}

RecordRows ==
  [id : Nat, component : ComponentIds, value : Values, under : Meanings \X Meanings]
Pages ==
  [kind : {"measure", "other"}, components : SUBSET ComponentIds,
   records : SUBSET RecordRows, fresh : BOOLEAN]
Saves ==
  [kind : {"save"}, values : UNION {[S -> Values] : S \in SUBSET ComponentIds},
   answer : Answers]
Removals == [kind : {"remove"}, id : Nat, answer : Answers]

FormTyped ==
  /\ page \in Pages /\ rendered \in Pages \cup {Nothing}
  /\ drafts \in [page.components -> Inputs]
  /\ \E S \in SUBSET ComponentIds : baseline \in [S -> Inputs]
  /\ request \in Saves \cup Removals \cup {Nothing}
  /\ queue \in Seq(Jobs)
  /\ removed \subseteq Nat /\ gone \subseteq Nat /\ uncovered \subseteq Nat

(* The server has acted, and the form does not know it yet.                 *)
Settled == request = Nothing \/ request.answer # "ok"

(* Ids are never handed out again: what is gone stays gone.                 *)
PageIds(p) == \A e \in p.records : e.id < nextEntry
Ids ==
  /\ \A e \in entries : e.id < nextEntry
  /\ \A d, e \in entries : d.id = e.id => d = e
  /\ PageIds(page) /\ (rendered # Nothing => PageIds(rendered))
  /\ \A i \in gone : i < nextEntry /\ \A e \in entries : e.id # i
  /\ request.kind = "remove" =>
       /\ request.id < nextEntry
       /\ request.answer = "ok" => \A e \in entries : e.id # request.id

(* Everything a page shows, and everything the form takes for saved, has    *)
(* been held by the server.                                                 *)
PageHeld(p) == \A e \in p.records : <<e.component, e.value>> \in held
HeldBy(values) == \A c \in DOMAIN values : values[c] = Blank \/ <<c, values[c]>> \in held
Held ==
  /\ \A e \in entries : <<e.component, e.value>> \in held
  /\ PageHeld(page) /\ (rendered # Nothing => PageHeld(rendered))
  /\ HeldBy(baseline)
  /\ request.kind = "save" /\ request.answer = "ok" => HeldBy(request.values)

(* A page on its way shows nothing gone but what was removed behind it; the *)
(* page of the form hides the rest.                                         *)
Covered ==
  /\ rendered # Nothing => queue # <<>>
  /\ \A e \in page.records : e.id \in gone => e.id \in removed \/ e.id \in uncovered
  /\ rendered # Nothing => \A e \in rendered.records : e.id \in gone => e.id \in uncovered

(* The last page on its way, and the page of a form at rest, are what the   *)
(* server would render now, unless somebody else has changed it.            *)
Current(p) ==
  p.kind = "measure" /\ p.fresh => p.components = Live /\ p.records = Records
Quiet ==
  /\ rendered # Nothing /\ Tail(queue) = <<>> /\ Settled => Current(rendered)
  /\ queue = <<>> /\ Settled /\ page.kind = "measure" /\ page.fresh =>
       /\ page.components = Live /\ Visible(page, removed) = Records
       /\ baseline = InitialDrafts(MeasurePage, {})

FormInv == FormTyped /\ Ids /\ Held /\ Covered /\ Quiet
IInv == ComponentTypeOK /\ FormInv

-----------------------------------------------------------------------------
(* The ids of results.                                                      *)

EntryIds ==
  /\ \A e \in entries : e.id < nextEntry
  /\ \A d, e \in entries : d.id = e.id => d = e

NewBefore(c, values) == Cardinality({d \in New(values) : d < c})

(* The rows of a batch: the old id of a result that is there, a new one,    *)
(* counted up from the next, for one that is not.                           *)
LEMMA UpsertedIds ==
  ASSUME ComponentTypeOK, NEW S \in SUBSET Live, NEW values \in [S -> Values],
         NEW c \in S, NEW e \in Upserted(c, values)
  PROVE  /\ e.id \in Nat /\ e.component = c /\ e.value = values[c]
         /\ \/ c \notin New(values) /\ \E f \in entries : f.component = c /\ f.id = e.id
            \/ /\ c \in New(values)
               /\ e.id = nextEntry + NewBefore(c, values)
<1>1. nextEntry \in Nat /\ NewBefore(c, values) \in Nat
  <2>1. DOMAIN values \subseteq Live
    OBVIOUS
  <2> QED
    BY <2>1, NewIsFinite DEF ComponentTypeOK, NewBefore
<1>2. \A f \in EntriesOf(c) : f \in entries /\ f.component = c /\ f.id \in Nat
  BY DEF EntriesOf, ComponentTypeOK, EntryRows
<1> QED
  BY <1>1, <1>2 DEF Upserted, Row, NewBefore

(* New ids are apart: each counts the new components before its own.        *)
LEMMA NewIdsApart ==
  ASSUME ComponentTypeOK, NEW S \in SUBSET Live, NEW values \in [S -> Values],
         NEW c \in New(values)
  PROVE  /\ NewBefore(c, values) \in Nat
         /\ NewBefore(c, values) < Cardinality(New(values))
         /\ \A d \in New(values) : NewBefore(c, values) = NewBefore(d, values) => c = d
<1> DEFINE N == New(values)
           B(d) == {x \in N : x < d}
<1>1. IsFiniteSet(N) /\ N \subseteq Nat /\ Cardinality(N) \in Nat
  <2>1. N \subseteq Live
    BY DEF New
  <2> QED
    BY <2>1, LiveIsFinite, CreatedIsInterval, FS_Subset, FS_CardinalityType
<1> HIDE DEF N
<1>2. \A d \in N : IsFiniteSet(B(d)) /\ Cardinality(B(d)) \in Nat
  <2> SUFFICES ASSUME NEW d \in N PROVE IsFiniteSet(B(d)) /\ Cardinality(B(d)) \in Nat
    OBVIOUS
  <2>1. B(d) \in SUBSET N
    OBVIOUS
  <2> HIDE DEF B
  <2> QED
    BY <1>1, <2>1, FS_Subset, FS_CardinalityType
<1>3. ASSUME NEW T, IsFiniteSet(T), Cardinality(T) \in Nat, NEW U \in SUBSET T,
             NEW x \in T, x \notin U
      PROVE  Cardinality(U) # Cardinality(T) /\ Cardinality(U) <= Cardinality(T)
  BY <1>3, FS_Subset
<1>4. Cardinality(B(c)) < Cardinality(N)
  <2>1. B(c) \in SUBSET N /\ c \in N /\ c \notin B(c)
    BY <1>1 DEF N
  <2>2. Cardinality(B(c)) \in Nat
    BY <1>2 DEF N
  <2> HIDE DEF B
  <2> QED
    BY <1>1, <1>3, <2>1, <2>2
<1>5. ASSUME NEW u \in N, NEW w \in N, u < w
      PROVE  Cardinality(B(u)) # Cardinality(B(w))
  <2>1. u \in Nat /\ w \in Nat /\ \A x \in N : x \in Nat
    BY <1>1
  <2>2. B(u) \in SUBSET B(w)
    <3>1. \A x \in B(u) : x \in N /\ x < w
      BY <1>5, <2>1
    <3> QED
      BY <3>1
  <2>3. u \in B(w) /\ u \notin B(u)
    BY <1>5, <2>1
  <2>4. IsFiniteSet(B(w)) /\ Cardinality(B(w)) \in Nat
    BY <1>2
  <2> HIDE DEF B
  <2> QED
    BY <1>3, <2>2, <2>3, <2>4
<1>6. \A d \in N : Cardinality(B(c)) = Cardinality(B(d)) => c = d
  <2> SUFFICES ASSUME NEW d \in N, Cardinality(B(c)) = Cardinality(B(d)) PROVE c = d
    OBVIOUS
  <2>1. c \in N /\ c \in Nat /\ d \in Nat
    BY <1>1 DEF N
  <2>2. ~(c < d) /\ ~(d < c)
    BY <1>5, <2>1
  <2> QED
    BY <2>1, <2>2
<1> QED
  BY <1>2, <1>4, <1>6 DEF N, NewBefore

LEMMA SaveIds ==
  ASSUME ComponentTypeOK, EntryIds, NEW S \in SUBSET Live, NEW values \in [S -> Values],
         SaveEntries(values)
  PROVE  /\ nextEntry' \in Nat /\ nextEntry <= nextEntry'
         /\ EntryIds'
         /\ \A e \in entries' : (\E f \in entries : f.id = e.id) \/ nextEntry <= e.id
         /\ \A c \in S : \E e \in entries' : e.component = c /\ e.value = values[c]
<1>1. nextEntry \in Nat /\ Cardinality(New(values)) \in Nat
      /\ nextEntry' = nextEntry + Cardinality(New(values))
  <2>1. DOMAIN values \subseteq Live
    OBVIOUS
  <2> QED
    BY <2>1, NewIsFinite DEF ComponentTypeOK, SaveEntries
<1>2. \A e \in entries : e.id \in Nat /\ e.id < nextEntry
  BY DEF ComponentTypeOK, EntryRows, EntryIds
<1>3. \A e \in entries' : \/ e \in entries /\ e.component \notin S
                          \/ \E c \in S : e \in Upserted(c, values)
  BY DEF SaveEntries
<1>4. \A c \in S : \A e \in Upserted(c, values) :
        /\ e.id \in Nat /\ e.component = c /\ e.value = values[c]
        /\ \/ c \notin New(values) /\ \E f \in entries : f.component = c /\ f.id = e.id
           \/ c \in New(values) /\ e.id = nextEntry + NewBefore(c, values)
  BY UpsertedIds
<1>6. \A c \in New(values) :
        /\ NewBefore(c, values) \in Nat /\ NewBefore(c, values) < Cardinality(New(values))
        /\ \A d \in New(values) : NewBefore(c, values) = NewBefore(d, values) => c = d
  BY NewIdsApart
<1>7. \A e \in entries' :
        \/ \E f \in entries : f.id = e.id /\ f.component = e.component
        \/ \E c \in New(values) : /\ e.id = nextEntry + NewBefore(c, values)
                                  /\ e.component = c
  BY <1>3, <1>4
<1>8. \A e \in entries' : e.id \in Nat /\ e.id < nextEntry'
  BY <1>1, <1>2, <1>6, <1>7
<1>9. ASSUME NEW d \in entries', NEW e \in entries', d.id = e.id
      PROVE  d = e
  <2>1. d.component = e.component
    <3>1. CASE \E f \in entries : f.id = d.id
      <4>1. PICK f \in entries : f.id = d.id /\ f.component = d.component
        BY <1>1, <1>2, <1>6, <1>7, <3>1
      <4>2. PICK g \in entries : g.id = e.id /\ g.component = e.component
        BY <1>1, <1>2, <1>6, <1>7, <1>9, <3>1
      <4> QED
        BY <1>9, <4>1, <4>2 DEF EntryIds
    <3>2. CASE ~ \E f \in entries : f.id = d.id
      <4>1. PICK c \in New(values) : d.id = nextEntry + NewBefore(c, values) /\ d.component = c
        BY <1>7, <3>2
      <4>2. PICK k \in New(values) : e.id = nextEntry + NewBefore(k, values) /\ e.component = k
        BY <1>7, <1>9, <3>2
      <4>3. NewBefore(c, values) \in Nat /\ NewBefore(k, values) \in Nat
        BY <1>6
      <4>4. NewBefore(c, values) = NewBefore(k, values)
        <5>1. nextEntry + NewBefore(c, values) = nextEntry + NewBefore(k, values)
          BY <1>9, <4>1, <4>2
        <5>2. \A i, j, n \in Nat : n + i = n + j => i = j
          OBVIOUS
        <5> QED
          BY <1>1, <4>3, <5>1, <5>2
      <4>5. c = k
        BY <4>4, NewIdsApart
      <4> QED
        BY <4>1, <4>2, <4>5
    <3> QED
      BY <3>1, <3>2
  <2>2. CASE d.component \in S
    <3> DEFINE c == d.component
    <3>1. d \in Upserted(c, values) /\ e \in Upserted(c, values)
      BY <1>3, <1>4, <2>1, <2>2
    <3> QED
      BY <1>9, <3>1 DEF Upserted, Row
  <2>3. CASE d.component \notin S
    BY <1>3, <1>4, <1>9, <2>1, <2>3 DEF EntryIds
  <2> QED
    BY <2>2, <2>3
<1>10. ASSUME NEW c \in S
       PROVE  \E e \in entries' : e.component = c /\ e.value = values[c]
  <2>1. PICK e : e \in Upserted(c, values)
    BY <1>10 DEF Upserted, New
  <2>2. e \in entries'
    BY <2>1 DEF SaveEntries
  <2> QED
    BY <1>4, <2>1, <2>2
<1>11. \A e \in entries' : (\E f \in entries : f.id = e.id) \/ nextEntry <= e.id
  BY <1>1, <1>6, <1>7
<1>12. EntryIds'
  BY <1>8, <1>9 DEF EntryIds
<1> QED
  BY <1>1, <1>10, <1>11, <1>12

(* What every step of an Admin does to the ids.                             *)
LEMMA ComponentIdsStep ==
  ASSUME ComponentTypeOK, EntryIds, [ComponentNext]_componentVars
  PROVE  /\ nextEntry' \in Nat /\ nextEntry <= nextEntry'
         /\ EntryIds'
         /\ \A e \in entries' : (\E f \in entries : f.id = e.id) \/ nextEntry <= e.id
<1>0. nextEntry \in Nat
  BY DEF ComponentTypeOK
<1>1. CASE ConfigurationStep \/ UNCHANGED componentVars
  <2>1. entries' = entries /\ nextEntry' = nextEntry
    BY <1>1 DEF componentVars, ConfigurationStep, CreateComponent, UpdateComponent, Reorder,
       ArchiveComponent, RestoreComponent, SetTarget, ArchiveTarget, RestoreTarget
  <2> QED
    BY <1>0, <2>1 DEF EntryIds
<1>2. ASSUME NEW S \in SUBSET Live, NEW values \in [S -> Values], SaveEntries(values)
      PROVE  /\ nextEntry' \in Nat /\ nextEntry <= nextEntry'
             /\ EntryIds'
             /\ \A e \in entries' : (\E f \in entries : f.id = e.id) \/ nextEntry <= e.id
  BY <1>2, SaveIds
<1>3. CASE \E e \in entries : DeleteEntry(e)
  <2>1. entries' \subseteq entries /\ nextEntry' = nextEntry
    BY <1>3 DEF DeleteEntry
  <2> QED
    BY <1>0, <2>1 DEF EntryIds
<1> QED
  BY <1>1, <1>2, <1>3 DEF ComponentNext, EntryStep

-----------------------------------------------------------------------------
(* The form does nothing to the components that ComponentSet does not.      *)

LEMMA NothingSaved ==
  ASSUME ComponentTypeOK, NEW values, SaveEntries(LeftBehind(values))
  PROVE  components' = components /\ targets' = targets /\ entries' = entries
         /\ nextEntry' = nextEntry
<1>1. DOMAIN LeftBehind(values) = {}
  BY DEF LeftBehind
<1>2. New(LeftBehind(values)) = {}
  BY <1>1 DEF New
<1>3. nextEntry + Cardinality({}) = nextEntry
  BY FS_EmptySet DEF ComponentTypeOK
<1> QED
  BY <1>1, <1>2, <1>3 DEF SaveEntries

(* What the server does with a save: all of it, or nothing.                 *)
LEMMA ServedSave ==
  ASSUME ComponentTypeOK, FormTyped, ServeSave
  PROVE  /\ request \in Saves /\ request.answer = "none"
         /\ \/ /\ EntryStep /\ request' = [request EXCEPT !.answer = "ok"]
               /\ \E S \in SUBSET Live : request.values \in [S -> Values]
               /\ SaveEntries(request.values)
            \/ /\ UNCHANGED componentVars
               /\ request' = [request EXCEPT !.answer = "refused"]
<1>1. request \in Saves /\ request.answer = "none"
  BY DEF ServeSave, FormTyped, Removals, Nothing
<1>2. PICK S \in SUBSET ComponentIds : request.values \in [S -> Values]
  BY <1>1 DEF Saves
<1>3. CASE Accepted(request.values)
  <2>1. S \subseteq Live
    BY <1>2, <1>3 DEF Accepted
  <2>2. /\ SaveEntries(request.values) /\ request' = [request EXCEPT !.answer = "ok"]
        /\ nextEntry + Cardinality(New(request.values)) <= MaxEntries + 1
    BY <1>3 DEF ServeSave
  <2>3. EntryStep
    BY <1>2, <2>1, <2>2 DEF EntryStep
  <2> QED
    BY <1>1, <1>2, <2>1, <2>2, <2>3
<1>4. CASE ~Accepted(request.values)
  <2>1. SaveEntries(LeftBehind(request.values))
        /\ request' = [request EXCEPT !.answer = "refused"]
    BY <1>4 DEF ServeSave
  <2>2. UNCHANGED componentVars
    BY <2>1, NothingSaved DEF componentVars
  <2> QED
    BY <1>1, <2>1, <2>2
<1> QED
  BY <1>3, <1>4

LEMMA FormIsComponentStep ==
  ASSUME ComponentTypeOK, FormTyped, [EntryFormNext]_vars
  PROVE  [ComponentNext]_componentVars
<1>1. CASE ServeSave
  BY <1>1, ServedSave DEF ComponentNext
<1>2. CASE ServeRemove
  BY <1>2 DEF ServeRemove, ComponentNext, EntryStep
<1>3. CASE Elsewhere
  BY <1>3 DEF Elsewhere
<1>4. CASE UNCHANGED vars
  BY <1>4 DEF vars
<1>5. ASSUME NEW c \in page.components, NEW v \in Values \cup {Blank}, Type(c, v)
      PROVE  UNCHANGED componentVars
  BY <1>5 DEF Type
<1>6. CASE \/ Submit \/ SaveAnswered \/ (\E e \in Visible(page, removed) : Remove(e))
           \/ RemovalAnswered \/ RefusalAnswered \/ AnswerLost
           \/ (\E to \in {"measure", "other"} : Select(to))
           \/ Refuse \/ Render \/ Deliver
  BY <1>6 DEF Submit, SaveAnswered, Remove, RemovalAnswered, RefusalAnswered, AnswerLost,
              Select, Refuse, Render, Deliver
<1> QED
  BY <1>1, <1>2, <1>3, <1>4, <1>5, <1>6 DEF EntryFormNext

LEMMA QueueGrows ==
  ASSUME queue \in Seq(Jobs), NEW to \in {"measure", "other"}
  PROVE  /\ Queued \in Seq(Jobs) /\ Queued # <<>>
         /\ queue # <<>> => Tail(Queued) # <<>>
         /\ Navigated(to) \in Seq(Jobs) /\ Navigated(to) # <<>>
         /\ queue # <<>> => Head(queue) \in Jobs /\ Tail(queue) \in Seq(Jobs)
<1>1. Queued \in Seq(Jobs) /\ Len(Queued) = Len(queue) + 1
  BY DEF Queued, Jobs
<1>2. queue # <<>> => Len(queue) > 0 /\ Head(queue) \in Jobs /\ Tail(queue) \in Seq(Jobs)
  OBVIOUS
<1>3. queue # <<>> => Tail(Queued) # <<>>
  <2>1. Queued # <<>>
    BY <1>1
  <2>2. Len(Tail(Queued)) = Len(Queued) - 1
    BY <1>1, <2>1, HeadTailProperties
  <2>3. queue # <<>> => Len(Tail(Queued)) > 0
    BY <1>1, <1>2, <2>2
  <2>4. PICK t : t = Tail(Queued)
    OBVIOUS
  <2>5. Len(t) > 0 => t # <<>>
    <3>1. Len(<<>>) = 0
      OBVIOUS
    <3> QED
      BY <3>1
  <2> QED
    BY <2>3, <2>4, <2>5
<1>4. ASSUME NEW rest \in Seq(Jobs)
      PROVE  <<to>> \o rest \in Seq(Jobs) /\ <<to>> \o rest # <<>>
  <2>1. <<to>> \in Seq(Jobs) /\ Len(<<to>>) = 1
    BY DEF Jobs
  <2>2. <<to>> \o rest \in Seq(Jobs) /\ Len(<<to>> \o rest) = 1 + Len(rest)
    BY <2>1
  <2>3. Len(rest) \in Nat
    OBVIOUS
  <2> QED
    BY <2>2, <2>3
<1>5. (IF queue = <<>> THEN <<>> ELSE Tail(queue)) \in Seq(Jobs)
  BY <1>2
<1>6. Queued # <<>>
  BY <1>1
<1>7. Navigated(to) \in Seq(Jobs) /\ Navigated(to) # <<>>
  BY <1>4, <1>5 DEF Navigated
<1> QED
  BY <1>1, <1>2, <1>3, <1>6, <1>7

(* A page the server renders, and the inputs of a page.                     *)
LEMMA RenderedTyped ==
  ASSUME ComponentTypeOK, NEW job
  PROVE  PageFor(job) \in Pages /\ MeasurePage \in Pages
<1>1. Live \subseteq ComponentIds
  BY CreatedIsInterval, LiveIsFinite
<1>2. Records \subseteq RecordRows
  BY CreatedIsInterval DEF Records, ComponentTypeOK, EntryRows, RecordRows
<1> QED
  BY <1>1, <1>2 DEF PageFor, MeasurePage, OtherPage, Pages

LEMMA InitialDraftsTyped ==
  ASSUME NEW p \in Pages, NEW hidden
  PROVE  /\ InitialDrafts(p, hidden) \in [p.components -> Inputs]
         /\ \A c \in p.components :
              \/ InitialDrafts(p, hidden)[c] = Blank
              \/ \E e \in p.records :
                   e.component = c /\ e.value = InitialDrafts(p, hidden)[c]
<1>1. \A e \in Visible(p, hidden) : e \in p.records /\ e \in RecordRows
  BY DEF Visible, Pages
<1>2. ASSUME NEW c \in p.components
      PROVE  /\ InitialDrafts(p, hidden)[c] \in Inputs
             /\ \/ InitialDrafts(p, hidden)[c] = Blank
                \/ \E e \in p.records :
                     e.component = c /\ e.value = InitialDrafts(p, hidden)[c]
  <2>1. CASE \E e \in Visible(p, hidden) : e.component = c
    <3> DEFINE e == CHOOSE e \in Visible(p, hidden) : e.component = c
    <3>1. e \in Visible(p, hidden) /\ e.component = c
      BY <2>1
    <3>2. InitialDrafts(p, hidden)[c] = e.value
      BY <2>1 DEF InitialDrafts
    <3> HIDE DEF e
    <3> QED
      BY <1>1, <3>1, <3>2 DEF RecordRows, Inputs
  <2>2. CASE ~ \E e \in Visible(p, hidden) : e.component = c
    BY <2>2 DEF InitialDrafts, Inputs
  <2> QED
    BY <2>1, <2>2
<1>3. InitialDrafts(p, hidden) = [c \in p.components |-> InitialDrafts(p, hidden)[c]]
  BY DEF InitialDrafts
<1> QED
  BY <1>2, <1>3

-----------------------------------------------------------------------------
(* The steps that touch the inputs and the request only.                    *)

LEMMA SameServer ==
  ASSUME components' = components, entries' = entries
  PROVE  /\ Live' = Live /\ Records' = Records /\ MeasurePage' = MeasurePage
         /\ InitialDrafts(MeasurePage, {})' = InitialDrafts(MeasurePage, {})
<1>1. Live' = Live /\ Records' = Records
  BY DEF Live, Created, Records
<1>2. MeasurePage' = MeasurePage
  BY <1>1 DEF MeasurePage
<1> QED
  BY <1>1, <1>2 DEF InitialDrafts, Visible

LEMMA OnlyInputsAndRequest ==
  ASSUME IInv, UNCHANGED <<componentVars, page, baseline, removed, routerVars, historyVars>>,
         drafts' \in [page.components -> Inputs],
         request' \in Saves \cup Removals \cup {Nothing},
         Settled' => Settled,
         request'.kind = "save" /\ request'.answer = "ok" => HeldBy(request'.values),
         request'.kind = "remove" =>
           /\ request'.id < nextEntry
           /\ request'.answer = "ok" => \A e \in entries : e.id # request'.id
  PROVE  FormInv'
<1>1. /\ components' = components /\ entries' = entries /\ nextEntry' = nextEntry
      /\ page' = page /\ baseline' = baseline /\ removed' = removed
      /\ queue' = queue /\ rendered' = rendered
      /\ held' = held /\ gone' = gone /\ uncovered' = uncovered
  BY DEF componentVars, routerVars, historyVars
<1>2. FormTyped'
  BY <1>1 DEF IInv, FormInv, FormTyped
<1>3. Ids'
  BY <1>1 DEF IInv, FormInv, Ids, PageIds
<1>4. Held'
  BY <1>1 DEF IInv, FormInv, Held, PageHeld, HeldBy
<1>5. Covered'
  BY <1>1 DEF IInv, FormInv, Covered
<1>6. Quiet'
  BY <1>1, SameServer DEF IInv, FormInv, Quiet, Current, Visible
<1> QED
  BY <1>2, <1>3, <1>4, <1>5, <1>6 DEF FormInv

LEMMA RequestKinds ==
  ASSUME FormTyped
  PROVE  /\ request.kind = "save" <=> request \in Saves
         /\ request.kind = "remove" <=> request \in Removals
         /\ request = Nothing <=> request.kind = "none"
BY DEF FormTyped, Saves, Removals, Nothing

LEMMA TypeKeeps ==
  ASSUME IInv, NEW c \in page.components, NEW v \in Values \cup {Blank}, Type(c, v)
  PROVE  FormInv'
<1>1. drafts' \in [page.components -> Inputs]
  BY DEF Type, IInv, FormInv, FormTyped, Inputs
<1>2. request' = request
  BY DEF Type
<1> QED
  BY <1>1, <1>2, OnlyInputsAndRequest
     DEF Type, routerVars, IInv, FormInv, FormTyped, Ids, Held, Settled

LEMMA SubmitKeeps ==
  ASSUME IInv, Submit
  PROVE  FormInv'
<1>1. /\ drafts \in [page.components -> Inputs] /\ page.components \subseteq ComponentIds
      /\ \A c \in page.components : drafts[c] # Blank
  BY DEF Submit, IInv, FormInv, FormTyped, Pages
<1>2. drafts \in [page.components -> Values]
  BY <1>1 DEF Inputs
<1>3. request' \in Saves /\ request'.kind = "save" /\ request'.answer = "none"
  BY <1>1, <1>2 DEF Submit, Saves, Answers
<1>4. Settled
  BY DEF Submit, Sending, Idle, Settled
<1> QED
  BY <1>1, <1>3, <1>4, OnlyInputsAndRequest DEF Submit, BaselineSent

LEMMA RemoveKeeps ==
  ASSUME IInv, NEW e \in Visible(page, removed), Remove(e)
  PROVE  FormInv'
<1>1. e \in page.records /\ e.id \in Nat /\ e.id < nextEntry
  BY DEF Visible, IInv, FormInv, FormTyped, Ids, PageIds, Pages, RecordRows
<1>2. /\ request' \in Removals /\ request'.kind = "remove" /\ request'.answer = "none"
      /\ request'.id = e.id
  BY <1>1 DEF Remove, Removals, Answers
<1>3. Settled
  BY DEF Remove, Sending, Idle, Settled
<1>4. drafts' \in [page.components -> Inputs]
  BY DEF Remove, clientVars, IInv, FormInv, FormTyped
<1> QED
  BY <1>1, <1>2, <1>3, <1>4, OnlyInputsAndRequest DEF Remove, clientVars

LEMMA RefusalAnsweredKeeps ==
  ASSUME IInv, RefusalAnswered
  PROVE  FormInv'
<1>1. request' = Nothing /\ Nothing.kind = "none"
  BY DEF RefusalAnswered, Nothing
<1>2. Settled
  BY DEF RefusalAnswered, Settled
<1>3. drafts' \in [page.components -> Inputs]
  BY DEF RefusalAnswered, clientVars, IInv, FormInv, FormTyped
<1> QED
  BY <1>1, <1>2, <1>3, OnlyInputsAndRequest DEF RefusalAnswered, clientVars

LEMMA RefuseKeeps ==
  ASSUME IInv, Refuse
  PROVE  FormInv'
<1>1. request \in Saves \cup Removals /\ request.answer = "none"
  BY DEF Refuse, Idle, IInv, FormInv, FormTyped
<1>2. /\ request' \in Saves \cup Removals /\ request'.kind = request.kind
      /\ request'.answer = "refused"
      /\ request.kind = "remove" => request'.id = request.id
  BY <1>1 DEF Refuse, Saves, Removals, Answers
<1>3. Settled
  BY <1>1 DEF Settled
<1>4. drafts' \in [page.components -> Inputs]
  BY DEF Refuse, clientVars, IInv, FormInv, FormTyped
<1>5. request.kind = "remove" => request.id < nextEntry
  BY DEF IInv, FormInv, Ids
<1> QED
  BY <1>2, <1>3, <1>4, <1>5, OnlyInputsAndRequest DEF Refuse, clientVars

-----------------------------------------------------------------------------
(* The answers, and the ways of the Admin.                                  *)

LEMMA SaveAnsweredKeeps ==
  ASSUME IInv, SaveAnswered
  PROVE  FormInv'
<1>1. /\ components' = components /\ entries' = entries /\ nextEntry' = nextEntry
      /\ page' = page /\ drafts' = drafts /\ removed' = removed
      /\ held' = held /\ gone' = gone /\ uncovered' = uncovered
      /\ request' = Nothing /\ baseline' = request.values
      /\ queue' \in {Queued, Navigated("other")}
      /\ rendered' = IF queue' = Queued THEN rendered ELSE Nothing
  BY DEF SaveAnswered, componentVars, historyVars, BaselineAnswered, AfterSave
<1>2. request \in Saves /\ request.kind = "save" /\ request.answer = "ok"
  BY RequestKinds DEF SaveAnswered, IInv, FormInv
<1>3. PICK S \in SUBSET ComponentIds : baseline' \in [S -> Values]
  BY <1>1, <1>2 DEF Saves
<1>4. queue' \in Seq(Jobs) /\ queue' # <<>>
  BY <1>1, QueueGrows DEF IInv, FormInv, FormTyped
<1>5. FormTyped'
  <2>1. baseline' \in [S -> Inputs]
    BY <1>3 DEF Inputs
  <2> QED
    BY <1>1, <1>4, <2>1 DEF IInv, FormInv, FormTyped
<1>6. Nothing.kind = "none"
  BY DEF Nothing
<1>7. Ids'
  BY <1>1, <1>6 DEF IInv, FormInv, Ids, PageIds
<1>8. Held'
  BY <1>1, <1>2, <1>6 DEF IInv, FormInv, Held, PageHeld, HeldBy
<1>9. Covered'
  BY <1>1, <1>4 DEF IInv, FormInv, Covered
<1>10. rendered' # Nothing => Tail(queue') # <<>>
  BY <1>1, QueueGrows DEF IInv, FormInv, Covered, FormTyped
<1>11. Quiet'
  BY <1>4, <1>10 DEF Quiet
<1> QED
  BY <1>5, <1>7, <1>8, <1>9, <1>11 DEF FormInv

LEMMA RemovalAnsweredKeeps ==
  ASSUME IInv, RemovalAnswered
  PROVE  FormInv'
<1> DEFINE id == request.id
           initial == InitialDrafts(page, Hidden(id))
<1>1. /\ components' = components /\ entries' = entries /\ nextEntry' = nextEntry
      /\ page' = page /\ removed' = removed \cup {id} /\ rendered' = rendered
      /\ drafts' = initial /\ baseline' = initial /\ queue' = Queued
      /\ held' = held /\ gone' = gone \cup {id}
      /\ uncovered' = IF queue = <<>> THEN uncovered ELSE uncovered \cup {id}
      /\ request' = Nothing
  BY DEF RemovalAnswered, componentVars, StartOver, Hidden
<1>2. /\ request \in Removals /\ id \in Nat /\ id < nextEntry
      /\ \A e \in entries : e.id # id
  <2>1. request \in Removals /\ request.kind = "remove" /\ request.answer = "ok"
    BY RequestKinds DEF RemovalAnswered, IInv, FormInv
  <2> QED
    BY <2>1 DEF Removals, IInv, FormInv, Ids
<1>3. page \in Pages /\ page.components \subseteq ComponentIds
  BY DEF IInv, FormInv, FormTyped, Pages
<1>4. /\ initial \in [page.components -> Inputs]
      /\ \A c \in page.components :
           initial[c] = Blank
             \/ \E e \in page.records : e.component = c /\ e.value = initial[c]
  BY <1>3, InitialDraftsTyped
<1> HIDE DEF id, initial
<1>5. queue' \in Seq(Jobs) /\ queue' # <<>> /\ (queue # <<>> => Tail(queue') # <<>>)
  BY <1>1, QueueGrows DEF IInv, FormInv, FormTyped
<1>6. Nothing.kind = "none"
  BY DEF Nothing
<1>7. FormTyped'
  BY <1>1, <1>2, <1>3, <1>4, <1>5 DEF IInv, FormInv, FormTyped
<1>8. Ids'
  BY <1>1, <1>2, <1>6 DEF IInv, FormInv, Ids, PageIds
<1>9. Held'
  <2>1. HeldBy(initial)
    BY <1>4 DEF IInv, FormInv, Held, PageHeld, HeldBy
  <2> QED
    BY <1>1, <1>6, <2>1 DEF IInv, FormInv, Held, PageHeld, HeldBy
<1>10. Covered'
  BY <1>1, <1>5 DEF IInv, FormInv, Covered
<1>11. Quiet'
  BY <1>1, <1>5 DEF IInv, FormInv, Covered, Quiet
<1> QED
  BY <1>7, <1>8, <1>9, <1>10, <1>11 DEF FormInv

LEMMA OutdatedPage ==
  ASSUME NEW p \in Pages \cup {Nothing}
  PROVE  /\ Outdated(p) \in Pages \cup {Nothing}
         /\ Outdated(p) = Nothing <=> p = Nothing
         /\ p # Nothing =>
              /\ Outdated(p) \in Pages /\ Outdated(p).kind = p.kind /\ ~Outdated(p).fresh
              /\ Outdated(p).components = p.components /\ Outdated(p).records = p.records
<1>1. CASE p = Nothing
  BY <1>1 DEF Outdated
<1>2. CASE p \in Pages
  <2>1. p # Nothing
    BY <1>2 DEF Pages, Nothing
  <2>2. PICK q : q = [p EXCEPT !.fresh = FALSE]
    OBVIOUS
  <2>3. /\ q \in Pages /\ q.kind = p.kind /\ q.fresh = FALSE
        /\ q.components = p.components /\ q.records = p.records
    BY <1>2, <2>2 DEF Pages
  <2>4. q # Nothing
    BY <2>3 DEF Pages, Nothing
  <2>5. Outdated(p) = q
    BY <2>1, <2>2 DEF Outdated
  <2> QED
    BY <2>1, <2>3, <2>4, <2>5
<1> QED
  BY <1>1, <1>2

LEMMA AnswerLostKeeps ==
  ASSUME IInv, AnswerLost
  PROVE  FormInv'
<1>1. /\ components' = components /\ entries' = entries /\ nextEntry' = nextEntry
      /\ drafts' = drafts /\ baseline' = baseline /\ removed' = removed
      /\ queue' = queue /\ held' = held /\ gone' = gone /\ uncovered' = uncovered
      /\ request' = Nothing /\ page' = Outdated(page) /\ rendered' = Outdated(rendered)
  BY DEF AnswerLost, componentVars, historyVars
<1>2. page \in Pages /\ page # Nothing /\ rendered \in Pages \cup {Nothing}
  BY DEF IInv, FormInv, FormTyped, Pages, Nothing
<1>3. /\ page' \in Pages /\ page'.kind = page.kind /\ ~page'.fresh
      /\ page'.components = page.components /\ page'.records = page.records
      /\ rendered' \in Pages \cup {Nothing} /\ (rendered' = Nothing <=> rendered = Nothing)
      /\ rendered' # Nothing =>
           /\ rendered'.records = rendered.records /\ ~rendered'.fresh
  BY <1>1, <1>2, OutdatedPage
<1>4. Nothing.kind = "none"
  BY DEF Nothing
<1>5. FormTyped'
  BY <1>1, <1>3 DEF IInv, FormInv, FormTyped
<1>6. Ids'
  BY <1>1, <1>3, <1>4 DEF IInv, FormInv, Ids, PageIds
<1>7. Held'
  BY <1>1, <1>3, <1>4 DEF IInv, FormInv, Held, PageHeld, HeldBy
<1>8. Covered'
  BY <1>1, <1>3 DEF IInv, FormInv, Covered
<1>9. Quiet'
  BY <1>3 DEF Quiet, Current
<1> QED
  BY <1>5, <1>6, <1>7, <1>8, <1>9 DEF FormInv

LEMMA SelectKeeps ==
  ASSUME IInv, NEW to \in {"measure", "other"}, Select(to)
  PROVE  FormInv'
<1>1. /\ components' = components /\ entries' = entries /\ nextEntry' = nextEntry
      /\ page' = page /\ drafts' = drafts /\ baseline' = baseline /\ removed' = removed
      /\ request' = request /\ held' = held /\ gone' = gone /\ uncovered' = uncovered
      /\ queue' = Navigated(to) /\ rendered' = Nothing
  BY DEF Select, componentVars, clientVars, historyVars
<1>2. queue' \in Seq(Jobs) /\ queue' # <<>>
  BY <1>1, QueueGrows DEF IInv, FormInv, FormTyped
<1>3. FormTyped'
  BY <1>1, <1>2 DEF IInv, FormInv, FormTyped
<1>4. Ids'
  BY <1>1 DEF IInv, FormInv, Ids, PageIds
<1>5. Held'
  BY <1>1 DEF IInv, FormInv, Held, PageHeld, HeldBy
<1>6. Covered' /\ Quiet'
  BY <1>1, <1>2 DEF IInv, FormInv, Covered, Quiet
<1> QED
  BY <1>3, <1>4, <1>5, <1>6 DEF FormInv

-----------------------------------------------------------------------------
(* The server and the other Admins.                                         *)

(* An id that is gone does not come back.                                   *)
LEMMA GoneStaysGone ==
  ASSUME IInv, [ComponentNext]_componentVars
  PROVE  /\ nextEntry \in Nat /\ nextEntry' \in Nat /\ nextEntry <= nextEntry'
         /\ \A e \in entries' : e.id \in Nat /\ e.id < nextEntry'
         /\ \A d, e \in entries' : d.id = e.id => d = e
         /\ \A i \in Nat : i < nextEntry /\ (\A e \in entries : e.id # i) =>
              i < nextEntry' /\ \A e \in entries' : e.id # i
<1>1. EntryIds /\ ComponentTypeOK /\ ComponentTypeOK'
  BY StepTyped DEF IInv, FormInv, Ids, EntryIds
<1>2. /\ nextEntry \in Nat /\ nextEntry' \in Nat /\ nextEntry <= nextEntry'
      /\ EntryIds'
      /\ \A e \in entries' : (\E f \in entries : f.id = e.id) \/ nextEntry <= e.id
  BY <1>1, ComponentIdsStep DEF ComponentTypeOK
<1>3. \A e \in entries' : e.id \in Nat
  BY <1>1 DEF ComponentTypeOK, EntryRows
<1> QED
  BY <1>2, <1>3 DEF EntryIds

LEMMA LaterIds ==
  ASSUME NEW p \in Pages, nextEntry \in Nat, nextEntry' \in Nat, nextEntry <= nextEntry',
         PageIds(p)
  PROVE  \A e \in p.records : e.id < nextEntry'
<1>1. \A e \in p.records : e.id \in Nat /\ e.id < nextEntry
  BY DEF PageIds, Pages, RecordRows
<1> QED
  BY <1>1

LEMMA ServeSaveKeeps ==
  ASSUME IInv, [ComponentNext]_componentVars, ServeSave
  PROVE  FormInv'
<1>1. /\ page' = page /\ drafts' = drafts /\ baseline' = baseline /\ removed' = removed
      /\ queue' = queue /\ rendered' = rendered /\ gone' = gone /\ uncovered' = uncovered
      /\ held' = held \cup {<<e.component, e.value>> : e \in entries'}
  BY DEF ServeSave, clientVars, routerVars, Holding
<1>2. /\ request \in Saves /\ request.answer = "none" /\ request.kind = "save"
      /\ request # Nothing
  BY ServedSave DEF IInv, FormInv, Saves, Nothing
<1>3. CASE /\ request' = [request EXCEPT !.answer = "ok"]
           /\ \E S \in SUBSET Live : request.values \in [S -> Values]
           /\ SaveEntries(request.values)
  <2>1. PICK S \in SUBSET Live : request.values \in [S -> Values]
    BY <1>3
  <2>2. /\ request' \in Saves /\ request'.kind = "save" /\ request'.answer = "ok"
        /\ request'.values = request.values /\ request' # Nothing
    BY <1>2, <1>3 DEF Saves, Answers, Nothing
  <2>3. FormTyped'
    BY <1>1, <2>2 DEF IInv, FormInv, FormTyped
  <2>4. Ids'
    <3>1. \A i \in gone' : i < nextEntry' /\ \A e \in entries' : e.id # i
      BY <1>1, GoneStaysGone DEF IInv, FormInv, Ids, FormTyped
    <3>2. PageIds(page)' /\ (rendered' # Nothing => PageIds(rendered)')
      BY <1>1, GoneStaysGone, LaterIds DEF IInv, FormInv, Ids, FormTyped, PageIds
    <3> QED
      BY <2>2, <3>1, <3>2, GoneStaysGone DEF Ids
  <2>5. Held'
    <3>1. HeldBy(request.values)'
      <4>1. \A c \in S : \E e \in entries' : e.component = c /\ e.value = request.values[c]
        BY <1>3, <2>1, SaveIds DEF IInv, FormInv, Ids, EntryIds
      <4>2. \A c \in S : <<c, request.values[c]>> \in held'
        BY <1>1, <4>1
      <4> QED
        BY <2>1, <2>2, <4>2 DEF HeldBy
    <3>2. \A e \in entries' : <<e.component, e.value>> \in held'
      BY <1>1
    <3>3. PageHeld(page)' /\ (rendered' # Nothing => PageHeld(rendered)') /\ HeldBy(baseline)'
      BY <1>1 DEF IInv, FormInv, Held, PageHeld, HeldBy
    <3> QED
      BY <2>2, <3>1, <3>2, <3>3 DEF Held
  <2>6. Covered'
    BY <1>1 DEF IInv, FormInv, Covered
  <2>7. Quiet'
    BY <2>2 DEF Quiet, Settled
  <2> QED
    BY <2>3, <2>4, <2>5, <2>6, <2>7 DEF FormInv
<1>4. CASE UNCHANGED componentVars /\ request' = [request EXCEPT !.answer = "refused"]
  <2>1. entries' = entries
    BY <1>4 DEF componentVars
  <2>2. held' = held
    BY <1>1, <2>1 DEF IInv, FormInv, Held
  <2>3. request' \in Saves /\ request'.kind = "save" /\ request'.answer = "refused"
    BY <1>2, <1>4 DEF Saves, Answers
  <2>4. Settled
    BY <1>2 DEF Settled
  <2>5. drafts' \in [page.components -> Inputs]
    BY <1>1 DEF IInv, FormInv, FormTyped
  <2> QED
    BY <1>1, <1>4, <2>2, <2>3, <2>4, <2>5, OnlyInputsAndRequest DEF routerVars, historyVars
<1> QED
  BY <1>3, <1>4, ServedSave DEF IInv, FormInv

LEMMA ServeRemoveKeeps ==
  ASSUME IInv, [ComponentNext]_componentVars, ServeRemove
  PROVE  FormInv'
<1>1. /\ page' = page /\ drafts' = drafts /\ baseline' = baseline /\ removed' = removed
      /\ queue' = queue /\ rendered' = rendered
      /\ held' = held /\ gone' = gone /\ uncovered' = uncovered
  BY DEF ServeRemove, clientVars, routerVars, historyVars
<1>2. /\ request \in Removals /\ request.answer = "none" /\ request.kind = "remove"
      /\ request.id \in Nat /\ request.id < nextEntry /\ request # Nothing
  BY RequestKinds DEF ServeRemove, IInv, FormInv, Ids, Removals, Nothing
<1>3. CASE \E e \in entries : /\ e.id = request.id /\ DeleteEntry(e)
                              /\ request' = [request EXCEPT !.answer = "ok"]
  <2>1. PICK d \in entries : /\ d.id = request.id /\ DeleteEntry(d)
                             /\ request' = [request EXCEPT !.answer = "ok"]
    BY <1>3
  <2>2. entries' = entries \ {d} /\ nextEntry' = nextEntry
    BY <2>1 DEF DeleteEntry
  <2>3. /\ request' \in Removals /\ request'.kind = "remove" /\ request'.answer = "ok"
        /\ request'.id = request.id /\ request' # Nothing
    BY <1>2, <2>1 DEF Removals, Answers, Nothing
  <2>4. FormTyped'
    BY <1>1, <2>3 DEF IInv, FormInv, FormTyped
  <2>5. Ids'
    BY <1>1, <1>2, <2>1, <2>2, <2>3 DEF IInv, FormInv, Ids, PageIds
  <2>6. Held'
    BY <1>1, <2>2, <2>3 DEF IInv, FormInv, Held, PageHeld, HeldBy
  <2>7. Covered'
    BY <1>1 DEF IInv, FormInv, Covered
  <2>8. Quiet'
    BY <2>3 DEF Quiet, Settled
  <2> QED
    BY <2>4, <2>5, <2>6, <2>7, <2>8 DEF FormInv
<1>4. CASE /\ request' = [request EXCEPT !.answer = "refused"]
           /\ UNCHANGED componentVars
  <2>1. /\ request' \in Removals /\ request'.kind = "remove" /\ request'.answer = "refused"
        /\ request'.id = request.id
    BY <1>2, <1>4 DEF Removals, Answers
  <2>2. Settled
    BY <1>2 DEF Settled
  <2>3. drafts' \in [page.components -> Inputs]
    BY <1>1 DEF IInv, FormInv, FormTyped
  <2> QED
    BY <1>1, <1>2, <1>4, <2>1, <2>2, <2>3, OnlyInputsAndRequest DEF routerVars, historyVars
<1> QED
  BY <1>3, <1>4 DEF ServeRemove

LEMMA RenderKeeps ==
  ASSUME IInv, Render
  PROVE  FormInv'
<1>1. /\ components' = components /\ entries' = entries /\ nextEntry' = nextEntry
      /\ page' = page /\ drafts' = drafts /\ baseline' = baseline /\ removed' = removed
      /\ request' = request /\ queue' = queue
      /\ held' = held /\ gone' = gone /\ uncovered' = uncovered
      /\ rendered' \in {MeasurePage, OtherPage} /\ queue # <<>>
  BY DEF Render, PageFor, componentVars, clientVars, historyVars
<1>2. /\ rendered' \in Pages /\ rendered'.records \subseteq entries
      /\ rendered'.kind = "measure" =>
           rendered'.components = Live /\ rendered'.records = Records
  <2>1. MeasurePage \in Pages
    BY RenderedTyped DEF IInv
  <2>2. OtherPage \in Pages
    BY DEF OtherPage, Pages
  <2>3. MeasurePage.records = Records /\ MeasurePage.components = Live
    BY DEF MeasurePage
  <2>4. OtherPage.records = {} /\ OtherPage.kind = "other"
    BY DEF OtherPage
  <2>5. Records \subseteq entries
    BY DEF Records
  <2> QED
    BY <1>1, <2>1, <2>2, <2>3, <2>4, <2>5
<1>3. FormTyped'
  BY <1>1, <1>2 DEF IInv, FormInv, FormTyped
<1>4. Ids'
  BY <1>1, <1>2 DEF IInv, FormInv, Ids, PageIds
<1>5. Held'
  BY <1>1, <1>2 DEF IInv, FormInv, Held, PageHeld, HeldBy
<1>6. Covered'
  BY <1>1, <1>2 DEF IInv, FormInv, Covered, Ids
<1>7. Quiet'
  BY <1>1, <1>2, SameServer DEF Quiet, Current
<1> QED
  BY <1>3, <1>4, <1>5, <1>6, <1>7 DEF FormInv

LEMMA DeliverKeeps ==
  ASSUME IInv, Deliver
  PROVE  FormInv'
<1> DEFINE initial == InitialDrafts(rendered, {})
<1>1. /\ components' = components /\ entries' = entries /\ nextEntry' = nextEntry
      /\ page' = rendered /\ drafts' = initial /\ baseline' = initial /\ removed' = {}
      /\ request' = request /\ queue' = Tail(queue) /\ rendered' = Nothing
      /\ held' = held /\ gone' = gone /\ uncovered' = uncovered
      /\ rendered # Nothing
  BY DEF Deliver, StartOver, componentVars, historyVars
<1>2. /\ rendered \in Pages /\ rendered.components \subseteq ComponentIds
      /\ queue # <<>> /\ queue' \in Seq(Jobs)
  BY <1>1, QueueGrows DEF IInv, FormInv, FormTyped, Covered, Pages
<1>3. /\ initial \in [rendered.components -> Inputs]
      /\ \A c \in rendered.components :
           initial[c] = Blank
             \/ \E e \in rendered.records : e.component = c /\ e.value = initial[c]
  BY <1>2, InitialDraftsTyped
<1>4. Visible(rendered, {}) = rendered.records
  BY DEF Visible
<1>5. Current(rendered) /\ rendered.kind = "measure" /\ rendered.fresh =>
        initial = InitialDrafts(MeasurePage, {})
  BY DEF Current, InitialDrafts, MeasurePage, Visible
<1> HIDE DEF initial
<1>6. FormTyped'
  BY <1>1, <1>2, <1>3 DEF IInv, FormInv, FormTyped
<1>7. Ids'
  BY <1>1 DEF IInv, FormInv, Ids, PageIds
<1>8. Held'
  <2>1. HeldBy(initial)
    BY <1>1, <1>3 DEF IInv, FormInv, Held, PageHeld, HeldBy
  <2> QED
    BY <1>1, <2>1 DEF IInv, FormInv, Held, PageHeld, HeldBy
<1>9. Covered'
  BY <1>1 DEF IInv, FormInv, Covered
<1>10. Quiet'
  <2>1. Settled' <=> Settled
    BY <1>1 DEF Settled
  <2>2. queue' = <<>> /\ Settled => Current(rendered)
    BY <1>1 DEF IInv, FormInv, Quiet
  <2>3. Visible(page, removed)' = rendered.records
    BY <1>1 DEF Visible
  <2> QED
    BY <1>1, <1>5, <2>1, <2>2, <2>3, SameServer DEF Quiet, Current
<1> QED
  BY <1>6, <1>7, <1>8, <1>9, <1>10 DEF FormInv

LEMMA ElsewhereKeeps ==
  ASSUME IInv, [ComponentNext]_componentVars, Elsewhere
  PROVE  FormInv'
<1>1. /\ drafts' = drafts /\ baseline' = baseline /\ removed' = removed
      /\ request' = request /\ queue' = queue /\ gone' = gone /\ uncovered' = uncovered
      /\ held' = held \cup {<<e.component, e.value>> : e \in entries'}
  BY DEF Elsewhere, Holding
<1>2. page \in Pages /\ page # Nothing /\ rendered \in Pages \cup {Nothing}
  BY DEF IInv, FormInv, FormTyped, Pages, Nothing
<1>3. \/ components' = components /\ entries' = entries /\ page' = page /\ rendered' = rendered
      \/ page' = Outdated(page) /\ rendered' = Outdated(rendered)
  BY DEF Elsewhere
<1>4. /\ page' \in Pages /\ page'.components = page.components
      /\ page'.records = page.records
      /\ rendered' \in Pages \cup {Nothing} /\ (rendered' = Nothing <=> rendered = Nothing)
      /\ rendered' # Nothing => rendered'.records = rendered.records
  BY <1>2, <1>3, OutdatedPage
<1>5. FormTyped'
  BY <1>1, <1>4 DEF IInv, FormInv, FormTyped
<1>6. Ids'
  <2>1. \A i \in gone' : i < nextEntry' /\ \A e \in entries' : e.id # i
    BY <1>1, GoneStaysGone DEF IInv, FormInv, Ids, FormTyped
  <2>2. PageIds(page)'
    BY <1>2, <1>4, GoneStaysGone, LaterIds DEF IInv, FormInv, Ids, PageIds
  <2>3. rendered' # Nothing => PageIds(rendered)'
    BY <1>2, <1>4, GoneStaysGone, LaterIds DEF IInv, FormInv, Ids, PageIds
  <2>4. request.kind = "remove" => request.id \in Nat
    BY RequestKinds DEF IInv, FormInv, Removals
  <2>5. request'.kind = "remove" =>
          /\ request'.id < nextEntry'
          /\ request'.answer = "ok" => \A e \in entries' : e.id # request'.id
    BY <1>1, <2>4, GoneStaysGone DEF IInv, FormInv, Ids
  <2> QED
    BY <2>1, <2>2, <2>3, <2>5, GoneStaysGone DEF Ids
<1>7. Held'
  BY <1>1, <1>4 DEF IInv, FormInv, Held, PageHeld, HeldBy
<1>8. Covered'
  BY <1>1, <1>4 DEF IInv, FormInv, Covered
<1>9. Quiet'
  <2>1. CASE components' = components /\ entries' = entries /\ page' = page /\ rendered' = rendered
    BY <1>1, <2>1, SameServer DEF IInv, FormInv, Quiet, Current, Settled, Visible
  <2>2. CASE page' = Outdated(page) /\ rendered' = Outdated(rendered)
    <3>1. ~page'.fresh /\ (rendered' # Nothing => ~rendered'.fresh)
      BY <1>2, <2>2, OutdatedPage
    <3> QED
      BY <3>1 DEF Quiet, Current
  <2> QED
    BY <1>3, <2>1, <2>2
<1> QED
  BY <1>5, <1>6, <1>7, <1>8, <1>9 DEF FormInv

-----------------------------------------------------------------------------
(* Every step, and what follows.                                            *)

LEMMA FormInit == EntryFormInit => IInv
<1> SUFFICES ASSUME EntryFormInit PROVE IInv
  OBVIOUS
<1>1. ComponentTypeOK
  BY TypeInit DEF EntryFormInit
<1>2. /\ entries = {} /\ Records = {} /\ nextEntry = 1
      /\ page = MeasurePage /\ drafts = InitialDrafts(page, {}) /\ baseline = drafts
      /\ removed = {} /\ request = Nothing /\ queue = <<>> /\ rendered = Nothing
      /\ held = {} /\ gone = {} /\ uncovered = {}
  BY DEF EntryFormInit, ComponentInit, Records
<1>3. /\ page \in Pages /\ page.components \subseteq ComponentIds /\ page.records = {}
      /\ page.components = Live
  <2>1. page \in Pages
    BY <1>1, <1>2, RenderedTyped
  <2> QED
    BY <1>2, <2>1 DEF MeasurePage, Pages
<1>4. /\ drafts \in [page.components -> Inputs]
      /\ \A c \in page.components : drafts[c] = Blank
  BY <1>2, <1>3, InitialDraftsTyped
<1>5. Nothing.kind = "none" /\ <<>> \in Seq(Jobs)
  BY DEF Nothing
<1>6. FormTyped
  BY <1>2, <1>3, <1>4, <1>5 DEF FormTyped
<1>7. Ids /\ Held
  BY <1>2, <1>3, <1>4, <1>5 DEF Ids, PageIds, Held, PageHeld, HeldBy
<1>8. Covered /\ Quiet
  BY <1>2, <1>3 DEF Covered, Quiet, Visible
<1> QED
  BY <1>1, <1>6, <1>7, <1>8 DEF IInv, FormInv

LEMMA FormStep == IInv /\ [EntryFormNext]_vars => IInv' /\ [ComponentNext]_componentVars
<1> SUFFICES ASSUME IInv, [EntryFormNext]_vars PROVE IInv' /\ [ComponentNext]_componentVars
  OBVIOUS
<1>1. [ComponentNext]_componentVars
  BY FormIsComponentStep DEF IInv, FormInv
<1>2. ComponentTypeOK'
  BY <1>1, StepTyped DEF IInv
<1>3. CASE UNCHANGED vars
  <2>1. FormInv'
    <3>1. UNCHANGED <<componentVars, clientVars, request, routerVars, historyVars>>
      BY <1>3 DEF vars
    <3>2. drafts' \in [page.components -> Inputs]
      BY <3>1 DEF clientVars, IInv, FormInv, FormTyped
    <3> QED
      BY <3>1, <3>2, OnlyInputsAndRequest
         DEF clientVars, IInv, FormInv, FormTyped, Ids, Held, Settled
  <2> QED
    BY <1>1, <1>2, <2>1 DEF IInv
<1>4. CASE EntryFormNext
  <2>1. SUFFICES FormInv'
    BY <1>1, <1>2 DEF IInv
  <2>2. ASSUME NEW c \in page.components, NEW v \in Values \cup {Blank}, Type(c, v)
        PROVE  FormInv'
    BY <2>2, TypeKeeps
  <2>3. CASE Submit \/ (\E e \in Visible(page, removed) : Remove(e)) \/ RefusalAnswered \/ Refuse
    BY <2>3, SubmitKeeps, RemoveKeeps, RefusalAnsweredKeeps, RefuseKeeps
  <2>4. CASE SaveAnswered \/ RemovalAnswered \/ AnswerLost
    BY <2>4, SaveAnsweredKeeps, RemovalAnsweredKeeps, AnswerLostKeeps
  <2>5. CASE \E to \in {"measure", "other"} : Select(to)
    BY <2>5, SelectKeeps
  <2>6. CASE ServeSave \/ ServeRemove \/ Elsewhere
    BY <1>1, <2>6, ServeSaveKeeps, ServeRemoveKeeps, ElsewhereKeeps
  <2>7. CASE Render \/ Deliver
    BY <2>7, RenderKeeps, DeliverKeeps
  <2> QED
    BY <1>4, <2>2, <2>3, <2>4, <2>5, <2>6, <2>7 DEF EntryFormNext
<1> QED
  BY <1>3, <1>4

(* The page, the inputs, the request and the jobs of the router are typed:  *)
(* in particular a save that is sent has a value for every component of the *)
(* page it was typed on, none of them blank (submit).                       *)
THEOREM FormTypeCorrect == EntryFormSpec => [](ComponentTypeOK /\ FormTyped)
<1>1. IInv => ComponentTypeOK /\ FormTyped
  BY DEF IInv, FormInv
<1> QED
  BY <1>1, FormInit, FormStep, PTL DEF EntryFormSpec

(* The form, its requests and the other Admins together do to a component   *)
(* set only what ComponentSet allows: a batch is saved whole or not at all, *)
(* however late it is served (upsertStrategyMultiComponentBatch).           *)
THEOREM FormImplementsComponentSet == EntryFormSpec => ComponentSpec
<1>1. EntryFormInit => ComponentInit
  BY DEF EntryFormInit
<1> QED
  BY <1>1, FormInit, FormStep, PTL DEF EntryFormSpec, ComponentSpec

(* So what is recorded and what is aimed at stays readable while batches    *)
(* typed on outdated pages arrive among the edits.                          *)
THEOREM ComponentsStandUnderForms == EntryFormSpec => []ComponentsStand
BY FormImplementsComponentSet, ComponentsAlwaysStand, PTL

(* A form that says nothing is unsaved shows only values the server has     *)
(* held: what is taken for saved changes with an accepted answer, or with a *)
(* page, and never when a save is sent (setBaselineDrafts).                 *)
THEOREM CleanFormsAreHeld == EntryFormSpec => []CleanFormIsHeld
<1>1. IInv => CleanFormIsHeld
  BY DEF IInv, FormInv, FormTyped, Held, HeldBy, CleanFormIsHeld, Unsaved
<1> QED
  BY <1>1, FormInit, FormStep, PTL DEF EntryFormSpec

(* A removed result is not shown again, unless an older page was on its way *)
(* when it was removed; and a form at rest which nobody interfered with     *)
(* shows exactly what is stored, whatever order saves, removals, their      *)
(* answers and the router's jobs came in (removedRecordKeys,                *)
(* router.refresh).                                                         *)
THEOREM FormsShowTheServer == EntryFormSpec => []FormShowsTheServer
<1>1. IInv => RemovedIsHidden
  BY DEF IInv, FormInv, Covered, RemovedIsHidden, Visible
<1>2. IInv => QuietFormIsCurrent
  BY DEF IInv, FormInv, Quiet, Settled, Idle, QuietFormIsCurrent, Records
<1> QED
  BY <1>1, <1>2, FormInit, FormStep, PTL DEF EntryFormSpec, FormShowsTheServer

=============================================================================
