------------------------- MODULE GoalHistory_proofs -------------------------
(***************************************************************************)
(* For any years, versions, Measures and rules: the rows of a Goal are     *)
(* typed, and in a plan that only grows                                    *)
(*   - every year has at most one version of the Goal, for which every     *)
(*     Measure counts at most once;                                        *)
(*   - the count a version asks for is reachable in each of its years;     *)
(*   - a year with results keeps its rule and the roles of its Measures;   *)
(*   - versioning the Goal takes its memberships along.                    *)
(* The operations count memberships and the invariants count Measures:     *)
(* the two agree because no Measure has two memberships in a year.         *)
(***************************************************************************)
EXTENDS GoalHistory, Integers, FiniteSetTheorems, TLAPS

-----------------------------------------------------------------------------
(* Type correctness.                                                        *)

LEMMA YearsAreNatural == Years \subseteq Nat /\ \A y \in Years : 1 <= y /\ y <= MaxYear
BY GoalAssumption DEF Years

(* A year between two years is one.                                         *)
LEMMA BetweenYears ==
  ASSUME NEW y \in Years, NEW z \in Years, NEW n \in Int, y <= n, n <= z
  PROVE  n \in Years
BY GoalAssumption DEF Years

LEMMA ExistingRows ==
  ASSUME TypeOK, NEW g \in Versions
  PROVE  /\ g \in Existing <=> goal[g] # Absent
         /\ g \in Existing => goal[g] \in GoalRows
         /\ Live(g) => g \in Existing
BY DEF TypeOK, Existing, Live, Absent

LEMMA VersionTyped ==
  ASSUME NEW from \in Years, NEW to \in Years, NEW rule \in Rules, NEW status \in Statuses
  PROVE  Version(from, to, rule, status) \in GoalRows
BY DEF Version, GoalRows

LEMMA GoalStepTyped ==
  ASSUME TypeOK, GoalStep
  PROVE  TypeOK'
<1>1. PICK g \in Existing :
        \/ \E rule \in Rules, status \in Statuses :
             \/ UpdateGoal(g, rule, status)
             \/ \E new \in Versions, start \in Years :
                  CreateSuccessorGoal(g, new, start, rule, status)
        \/ ArchiveGoal(g)
        \/ RestoreGoal(g)
  BY DEF GoalStep
<1>2. g \in Versions /\ goal[g] \in GoalRows
  BY <1>1, ExistingRows DEF Existing
<1>3. CASE \E rule \in Rules, status \in Statuses : UpdateGoal(g, rule, status)
  <2>1. PICK rule \in Rules, status \in Statuses : UpdateGoal(g, rule, status)
    BY <1>3
  <2>2. goal'[g] \in GoalRows /\ \A h \in Versions \ {g} : goal'[h] = goal[h]
    BY <2>1, <1>2 DEF UpdateGoal, GoalRows, TypeOK
  <2> QED
    BY <2>1, <2>2 DEF UpdateGoal, TypeOK
<1>4. ASSUME NEW rule \in Rules, NEW status \in Statuses, NEW new \in Versions,
             NEW start \in Years, CreateSuccessorGoal(g, new, start, rule, status)
      PROVE  TypeOK'
  <2>1. /\ goal[g].from \in Years /\ goal[g].to \in Years
        /\ start - 1 \in Years /\ new # g
    <3>1. goal[g].from \in Years /\ goal[g].to \in Years
      BY <1>2 DEF GoalRows
    <3>2. goal[g].from <= start - 1 /\ start - 1 <= start /\ start - 1 \in Int
      BY <1>4, <3>1, YearsAreNatural DEF CreateSuccessorGoal
    <3>3. new # g
      BY <1>4, <1>1 DEF CreateSuccessorGoal, Existing
    <3> QED
      BY <3>1, <3>2, <3>3, BetweenYears
  <2>2. goal' \in [Versions -> GoalRows \cup {Absent}]
    <3>1. [goal[g] EXCEPT !.to = start - 1] \in GoalRows
      BY <1>2, <2>1 DEF GoalRows
    <3>2. goal' = [[goal EXCEPT ![g] = [goal[g] EXCEPT !.to = start - 1]]
                     EXCEPT ![new] = Version(start, goal[g].to, rule, status)]
      BY <1>4, <1>2, <2>1 DEF CreateSuccessorGoal, PredecessorEnd, TypeOK
    <3> QED
      BY <3>1, <3>2, <2>1, VersionTyped DEF TypeOK
  <2>3. Cut(g, start) \subseteq MemberRows
    <3> SUFFICES ASSUME NEW x \in members, x.from < start
                 PROVE  [x EXCEPT !.to = start - 1] \in MemberRows
      BY DEF Cut, TypeOK
    <3> QED
      BY <2>1 DEF TypeOK, MemberRows
  <2>4. Inherited(g, new, start) \subseteq MemberRows
    <3> SUFFICES ASSUME NEW x \in members
                 PROVE  [x EXCEPT !.goal = new, !.from = Higher(start, x.from),
                                  !.to = Lower(goal[g].to, x.to)] \in MemberRows
      BY DEF Inherited, Carried
    <3> QED
      BY <2>1 DEF TypeOK, MemberRows, Higher, Lower
  <2> QED
    BY <1>4, <2>2, <2>3, <2>4 DEF CreateSuccessorGoal, TypeOK
<1>5. CASE ArchiveGoal(g) \/ RestoreGoal(g)
  <2>1. goal'[g] \in GoalRows /\ \A h \in Versions \ {g} : goal'[h] = goal[h]
    BY <1>5, <1>2 DEF ArchiveGoal, RestoreGoal, GoalRows, TypeOK
  <2> QED
    BY <1>5, <2>1 DEF ArchiveGoal, RestoreGoal, TypeOK
<1> QED
  BY <1>1, <1>3, <1>4, <1>5

LEMMA MemberStepTyped ==
  ASSUME TypeOK, MemberStep
  PROVE  TypeOK'
<1>1. PICK x \in members, role \in Roles :
        \/ UpdateMembership(x, role)
        \/ \E start \in Years : CreateSuccessorMembership(x, start, role)
  BY DEF MemberStep
<1>2. x \in MemberRows
  BY DEF TypeOK
<1>3. CASE UpdateMembership(x, role)
  <2>1. [x EXCEPT !.role = role] \in MemberRows
    BY <1>2 DEF MemberRows
  <2> QED
    BY <1>3, <2>1 DEF UpdateMembership, TypeOK
<1>4. ASSUME NEW start \in Years, CreateSuccessorMembership(x, start, role)
      PROVE  TypeOK'
  <2>1. x.from <= start - 1 /\ start - 1 <= start /\ start - 1 \in Int /\ x.from \in Years
    BY <1>2, <1>4, YearsAreNatural DEF CreateSuccessorMembership, MemberRows
  <2>2. start - 1 \in Years
    BY <2>1, BetweenYears
  <2>3. Split(x, start, role) \subseteq MemberRows
    BY <1>2, <2>2 DEF Split, MemberRows
  <2> QED
    BY <1>4, <2>3 DEF CreateSuccessorMembership, TypeOK
<1> QED
  BY <1>1, <1>3, <1>4

LEMMA MeasureStepTyped ==
  ASSUME TypeOK, MeasureStep
  PROVE  TypeOK'
<1>1. PICK m \in Measures :
        \/ \E g \in Existing, from \in Years : CreateMeasure(m, g, from)
        \/ ArchiveOrRestoreMeasure(m)
        \/ \E y \in Years : EnterResult(m, y)
  BY DEF MeasureStep
<1>2. ASSUME NEW g \in Existing, NEW from \in Years, CreateMeasure(m, g, from)
      PROVE  TypeOK'
  <2>1. g \in Versions /\ goal[g].to \in Years
    BY <1>2, ExistingRows DEF Existing, GoalRows
  <2>2. Member(g, m, from, goal[g].to, 1) \in MemberRows
    BY <2>1, GoalAssumption DEF Member, MemberRows
  <2> QED
    BY <1>2, <2>2 DEF CreateMeasure, TypeOK
<1>3. CASE ArchiveOrRestoreMeasure(m)
  BY <1>3 DEF ArchiveOrRestoreMeasure, TypeOK
<1>4. ASSUME NEW y \in Years, EnterResult(m, y)
      PROVE  TypeOK'
  BY <1>4 DEF EnterResult, TypeOK
<1> QED
  BY <1>1, <1>2, <1>3, <1>4

LEMMA StretchedTyped ==
  ASSUME NEW start \in Years, NEW end \in Years
  PROVE  /\ \A row \in GoalRows : Stretched(row, start, end) \in GoalRows
         /\ \A x \in MemberRows : /\ Stretched(x, start, end).from \in Years
                                  /\ Stretched(x, start, end).to \in Years
BY DEF Stretched, GoalRows, MemberRows

StretchedMember(x, start, end) ==
  IF ~Live(x.goal) THEN x
  ELSE [x EXCEPT
          !.from = IF goal[x.goal].from = plan.start THEN Stretched(x, start, end).from ELSE @,
          !.to = IF goal[x.goal].to = plan.end THEN Stretched(x, start, end).to ELSE @]

LEMMA StretchedMembers ==
  ASSUME NEW start, NEW end
  PROVE  MembersStretched(start, end) = {StretchedMember(x, start, end) : x \in members}
BY DEF MembersStretched, StretchedMember

LEMMA StretchedMemberTyped ==
  ASSUME NEW start \in Years, NEW end \in Years, NEW x \in MemberRows
  PROVE  StretchedMember(x, start, end) \in MemberRows
BY StretchedTyped DEF StretchedMember, MemberRows

LEMMA RangeStepTyped ==
  ASSUME TypeOK, NEW start \in Years, NEW end \in Years, ChangePlanRange(start, end)
  PROVE  TypeOK'
<1>1. goal' \in [Versions -> GoalRows \cup {Absent}]
  BY ExistingRows, StretchedTyped DEF ChangePlanRange, TypeOK
<1>2. members' \subseteq MemberRows
  <2> SUFFICES ASSUME NEW y \in members' PROVE y \in MemberRows
    OBVIOUS
  <2>1. PICK x \in members : y = StretchedMember(x, start, end)
    BY StretchedMembers DEF ChangePlanRange
  <2> QED
    BY <2>1, StretchedMemberTyped DEF TypeOK
<1> QED
  BY <1>1, <1>2 DEF ChangePlanRange, TypeOK, PlanRanges

LEMMA TypeInit == Init => TypeOK
<1> SUFFICES ASSUME Init PROVE TypeOK
  OBVIOUS
<1>1. plan \in PlanRanges /\ plan.start \in Years /\ plan.end \in Years
  BY DEF Init, PlanRanges
<1>2. PICK g \in Versions, rule \in Rules, status \in Statuses, S \in SUBSET Measures :
        \E role \in [S -> Roles] :
          /\ goal = [h \in Versions |->
                       IF h = g THEN Version(plan.start, plan.end, rule, status) ELSE Absent]
          /\ members = {Member(g, m, plan.start, plan.end, role[m]) : m \in S}
          /\ measure = [m \in Measures |-> IF m \in S THEN "live" ELSE "absent"]
  BY DEF Init
<1>3. PICK role \in [S -> Roles] :
        members = {Member(g, m, plan.start, plan.end, role[m]) : m \in S}
  BY <1>2
<1>4. members \subseteq MemberRows
  BY <1>1, <1>3 DEF Member, MemberRows
<1>5. goal \in [Versions -> GoalRows \cup {Absent}]
  BY <1>1, <1>2, VersionTyped
<1>6. measure \in [Measures -> {"absent", "live", "archived"}] /\ priority \in BOOLEAN
      /\ results \subseteq Measures \X Years
  BY <1>2 DEF Init
<1> QED
  BY <1>1, <1>4, <1>5, <1>6 DEF TypeOK

LEMMA TypeStep == TypeOK /\ [Next]_vars => TypeOK'
<1> SUFFICES ASSUME TypeOK, [Next]_vars PROVE TypeOK'
  OBVIOUS
<1>1. CASE ArchiveOrRestorePriority \/ \E r \in results : DeleteResult(r)
  BY <1>1 DEF ArchiveOrRestorePriority, DeleteResult, TypeOK
<1>2. CASE UNCHANGED vars
  BY <1>2 DEF vars, TypeOK
<1> QED
  BY <1>1, <1>2, GoalStepTyped, MemberStepTyped, MeasureStepTyped, RangeStepTyped DEF Next

(* The rows of a plan, its Goal and its memberships always hold values of   *)
(* their types: a split leaves two rows that are not empty (the CHECK       *)
(* constraints of strategic_goals and goal_kpis).                           *)
THEOREM TypeCorrect == Spec => []TypeOK
BY TypeInit, TypeStep, PTL DEF Spec

-----------------------------------------------------------------------------
(* One count per year, in a plan that only grows.                           *)

(* A membership is one of a version and of a Measure that exist.            *)
MembersKnown ==
  \A x \in members : x.goal \in Existing /\ measure[x.measure] # "absent"

InPlan(row) == plan.start <= row.from /\ row.from <= row.to /\ row.to <= plan.end

(* No row is empty, and none reaches beyond the plan, archived ones         *)
(* included: so only one version, and one membership of a Measure in it,    *)
(* can follow a boundary that moves.                                        *)
RowsInPlan == (\A g \in Existing : InPlan(goal[g])) /\ (\A x \in members : InPlan(x))

(* No two versions share a year, archived ones included: they are restored  *)
(* as they are.                                                             *)
VersionsApart ==
  \A g, h \in Existing : g # h => ~Meets(goal[g], goal[h].from, goal[h].to)

IInv == TypeOK /\ MembersKnown /\ RowsInPlan /\ VersionsApart /\ OneMembershipPerYear

(* A row a of the same Measure, in years of x only.                         *)
Within(a, x) == a.measure = x.measure /\ x.from <= a.from /\ a.to <= x.to

LEMMA RowNat ==
  /\ \A x \in MemberRows : x.from \in Nat /\ x.to \in Nat
  /\ \A row \in GoalRows : row.from \in Nat /\ row.to \in Nat
  /\ \A row \in PlanRanges : row.start \in Nat /\ row.end \in Nat
BY YearsAreNatural DEF MemberRows, GoalRows, PlanRanges

LEMMA PartsStayApart ==
  ASSUME NEW x \in MemberRows, NEW y \in MemberRows, NEW a \in MemberRows, NEW b \in MemberRows,
         Within(a, x), Within(b, y), ~Meets(x, y.from, y.to)
  PROVE  ~Meets(a, b.from, b.to)
<1>1. {x.from, x.to, y.from, y.to, a.from, a.to, b.from, b.to} \subseteq Nat
  BY RowNat
<1> QED
  BY <1>1 DEF Within, Meets

LEMMA CountInit == Init => IInv
<1> SUFFICES ASSUME Init PROVE IInv
  OBVIOUS
<1>1. PICK g \in Versions, rule \in Rules, status \in Statuses, S \in SUBSET Measures :
        \E role \in [S -> Roles] :
          /\ goal = [h \in Versions |->
                       IF h = g THEN Version(plan.start, plan.end, rule, status) ELSE Absent]
          /\ members = {Member(g, m, plan.start, plan.end, role[m]) : m \in S}
          /\ measure = [m \in Measures |-> IF m \in S THEN "live" ELSE "absent"]
  BY DEF Init
<1>2. PICK role \in [S -> Roles] :
        members = {Member(g, m, plan.start, plan.end, role[m]) : m \in S}
  BY <1>1
<1>3. plan.start \in Nat /\ plan.end \in Nat /\ plan.start <= plan.end
  <2>1. plan \in PlanRanges /\ plan.start < plan.end
    BY DEF Init, PlanRanges
  <2>2. plan.start \in Nat /\ plan.end \in Nat
    BY <2>1, RowNat
  <2> QED
    BY <2>1, <2>2
<1>4. Existing = {g} /\ goal[g] = Version(plan.start, plan.end, rule, status)
  BY <1>1 DEF Existing, Version, Absent
<1>5. MembersKnown
  BY <1>1, <1>2, <1>4 DEF MembersKnown, Member
<1>6. RowsInPlan
  BY <1>2, <1>3, <1>4 DEF RowsInPlan, InPlan, Member, Version
<1>7. VersionsApart
  BY <1>4 DEF VersionsApart
<1>8. OneMembershipPerYear
  BY <1>2 DEF OneMembershipPerYear, Member
<1> QED
  BY <1>5, <1>6, <1>7, <1>8, TypeInit DEF IInv

(* What leaves the years of every version and of every membership as they   *)
(* are, and takes no version or Measure away, changes nothing.              *)
LEMMA RowsKept ==
  ASSUME IInv, TypeOK', plan' = plan, Existing' = Existing,
         \A g \in Existing : goal'[g].from = goal[g].from /\ goal'[g].to = goal[g].to,
         members' = members,
         \A m \in Measures : measure[m] # "absent" => measure'[m] # "absent"
  PROVE  IInv'
<1>1. MembersKnown'
  BY DEF IInv, MembersKnown, TypeOK, MemberRows
<1>2. RowsInPlan'
  BY DEF IInv, RowsInPlan, InPlan
<1>3. VersionsApart' /\ OneMembershipPerYear'
  BY DEF IInv, VersionsApart, OneMembershipPerYear, Meets
<1> QED
  BY <1>1, <1>2, <1>3 DEF IInv

(* What changes memberships only.                                           *)
LEMMA MembersChanged ==
  ASSUME IInv, TypeOK', plan' = plan, goal' = goal,
         \A m \in Measures : measure[m] # "absent" => measure'[m] # "absent",
         \A a \in members' : /\ a.goal \in Existing /\ measure'[a.measure] # "absent"
                             /\ InPlan(a),
         \A a, b \in members' :
           a.goal = b.goal /\ a.measure = b.measure /\ a # b => ~Meets(a, b.from, b.to)
  PROVE  IInv'
<1>1. Existing' = Existing
  BY DEF Existing
<1>2. MembersKnown'
  BY <1>1 DEF MembersKnown
<1>3. RowsInPlan'
  BY <1>1 DEF IInv, RowsInPlan, InPlan
<1>4. VersionsApart' /\ OneMembershipPerYear'
  BY <1>1 DEF IInv, VersionsApart, OneMembershipPerYear
<1> QED
  BY <1>2, <1>3, <1>4 DEF IInv

-----------------------------------------------------------------------------
(* A successor of the Goal takes a part of each membership along.           *)

CutRow(g, start, x) ==
  IF x \in Carried(g, start) /\ x.from < start THEN [x EXCEPT !.to = start - 1] ELSE x

CarriedRow(g, new, start, x) ==
  [x EXCEPT !.goal = new, !.from = Higher(start, x.from), !.to = Lower(goal[g].to, x.to)]

(* a is what is left of x, or what the successor has of it.                 *)
PartOf(a, x, g, new, start) ==
  \/ a = CutRow(g, start, x) /\ a.goal = x.goal
  \/ a = CarriedRow(g, new, start, x) /\ a.goal = new /\ x.goal = g

LEMMA PartsOfMembers ==
  ASSUME IInv, NEW g \in Existing, NEW new \in Versions, NEW start \in Years,
         goal[g].from < start, start <= goal[g].to,
         NEW a \in Cut(g, start) \cup Inherited(g, new, start)
  PROVE  \E x \in members : Within(a, x) /\ a.from <= a.to /\ PartOf(a, x, g, new, start)
<1>1. \A x \in members : /\ x \in MemberRows /\ x.from \in Nat /\ x.to \in Nat
                         /\ x.from <= x.to
  BY RowNat DEF IInv, TypeOK, RowsInPlan, InPlan
<1>2. start \in Nat /\ goal[g].from \in Nat /\ goal[g].to \in Nat
  BY YearsAreNatural, ExistingRows, RowNat DEF IInv, Existing
<1>3. CASE a \in Cut(g, start)
  <2>1. PICK x \in members : a = CutRow(g, start, x)
    BY <1>3 DEF Cut, CutRow
  <2>2. CASE x \in Carried(g, start) /\ x.from < start
    <3>1. a.goal = x.goal /\ a.measure = x.measure /\ a.from = x.from /\ a.to = start - 1
      BY <1>1, <2>1, <2>2 DEF CutRow, MemberRows
    <3>2. start <= x.to
      BY <2>2 DEF Carried, Meets
    <3> QED
      BY <1>1, <1>2, <2>1, <2>2, <3>1, <3>2 DEF Within, PartOf
  <2>3. CASE ~(x \in Carried(g, start) /\ x.from < start)
    <3>1. a = x
      BY <2>1, <2>3 DEF CutRow
    <3>2. Within(a, x) /\ a.from <= a.to
      BY <1>1, <3>1 DEF Within
    <3>3. PartOf(a, x, g, new, start)
      BY <2>1, <3>1 DEF PartOf
    <3> QED
      BY <3>2, <3>3
  <2> QED
    BY <2>2, <2>3
<1>4. CASE a \in Inherited(g, new, start)
  <2>1. PICK x \in Carried(g, start) : a = CarriedRow(g, new, start, x)
    BY <1>4 DEF Inherited, CarriedRow
  <2>2. x \in members /\ x.goal = g /\ x.from <= goal[g].to /\ start <= x.to
    BY <2>1 DEF Carried, Meets
  <2>3. /\ a.goal = new /\ a.measure = x.measure
        /\ a.from = Higher(start, x.from) /\ a.to = Lower(goal[g].to, x.to)
    BY <1>1, <2>1, <2>2 DEF CarriedRow, MemberRows
  <2>4. x.from <= a.from /\ a.to <= x.to /\ a.from <= a.to
    BY <1>1, <1>2, <2>2, <2>3 DEF Higher, Lower
  <2> QED
    BY <2>1, <2>2, <2>3, <2>4 DEF Within, PartOf
<1> QED
  BY <1>3, <1>4

LEMMA SuccessorKeepsCount ==
  ASSUME IInv, TypeOK', NEW g \in Existing, NEW rule \in Rules, NEW status \in Statuses,
         NEW new \in Versions, NEW start \in Years,
         CreateSuccessorGoal(g, new, start, rule, status)
  PROVE  IInv'
<1>1. /\ goal[new] = Absent /\ new \notin Existing /\ new # g
      /\ goal[g].from < start /\ start <= goal[g].to
      /\ members' = Cut(g, start) \cup Inherited(g, new, start)
      /\ plan' = plan /\ measure' = measure
  BY DEF CreateSuccessorGoal, Existing
<1>2. TypeOK /\ g \in Versions /\ goal[g] \in GoalRows /\ start \in Nat
      /\ \A h \in Existing : goal[h].from \in Nat /\ goal[h].to \in Nat
  BY ExistingRows, YearsAreNatural, RowNat DEF IInv, Existing
<1>3. /\ Existing' = Existing \cup {new}
      /\ goal'[g].from = goal[g].from /\ goal'[g].to = start - 1
      /\ goal'[new].from = start /\ goal'[new].to = goal[g].to
      /\ \A h \in Versions \ {g, new} : goal'[h] = goal[h]
  <2>1. goal' = [[goal EXCEPT ![g] = [goal[g] EXCEPT !.to = start - 1]]
                   EXCEPT ![new] = Version(start, goal[g].to, rule, status)]
    BY <1>1, <1>2 DEF CreateSuccessorGoal, PredecessorEnd, TypeOK
  <2>2. /\ goal'[g] = [goal[g] EXCEPT !.to = start - 1]
        /\ goal'[new] = Version(start, goal[g].to, rule, status)
        /\ \A h \in Versions \ {g, new} : goal'[h] = goal[h]
    BY <1>1, <1>2, <2>1 DEF TypeOK
  <2>3. goal'[g] # Absent /\ goal'[new] # Absent
    BY <1>2, <2>2 DEF GoalRows, Version, Absent
  <2> QED
    BY <1>1, <1>2, <2>2, <2>3 DEF Existing, GoalRows, Version
<1>4. \A a \in members' :
        /\ a \in MemberRows
        /\ \E x \in members : Within(a, x) /\ a.from <= a.to /\ PartOf(a, x, g, new, start)
  BY <1>1, PartsOfMembers DEF TypeOK
<1>5. MembersKnown'
  <2> SUFFICES ASSUME NEW a \in members'
               PROVE  a.goal \in Existing' /\ measure'[a.measure] # "absent"
    BY DEF MembersKnown
  <2>1. PICK x \in members : (a.goal = x.goal \/ a.goal = new) /\ a.measure = x.measure
    BY <1>4 DEF Within, PartOf
  <2> QED
    BY <1>1, <1>3, <2>1 DEF IInv, MembersKnown
<1>6. RowsInPlan'
  <2>1. \A a \in members' : InPlan(a)'
    <3> SUFFICES ASSUME NEW a \in members' PROVE plan.start <= a.from /\ a.from <= a.to
                                                   /\ a.to <= plan.end
      BY <1>1 DEF InPlan
    <3>1. PICK x \in members : Within(a, x) /\ a.from <= a.to
      BY <1>4
    <3>2. plan.start <= x.from /\ x.to <= plan.end
      BY DEF IInv, RowsInPlan, InPlan
    <3>3. {plan.start, plan.end, x.from, x.to, a.from, a.to} \subseteq Nat
      BY <1>2, <1>4, RowNat DEF TypeOK
    <3> QED
      BY <3>1, <3>2, <3>3 DEF Within
  <2>2. \A h \in Existing' : InPlan(goal[h])'
    <3> SUFFICES ASSUME NEW h \in Existing'
                 PROVE  /\ plan.start <= goal'[h].from /\ goal'[h].from <= goal'[h].to
                        /\ goal'[h].to <= plan.end
      BY <1>1 DEF InPlan
    <3>1. plan.start \in Nat /\ plan.end \in Nat
      BY <1>2, RowNat DEF TypeOK
    <3>2. \A k \in Existing : plan.start <= goal[k].from /\ goal[k].from <= goal[k].to
                               /\ goal[k].to <= plan.end
      BY DEF IInv, RowsInPlan, InPlan
    <3>3. h \in Existing \/ h = new
      BY <1>3
    <3> QED
      BY <1>1, <1>2, <1>3, <3>1, <3>2, <3>3 DEF Existing
  <2> QED
    BY <2>1, <2>2 DEF RowsInPlan
<1>7. VersionsApart'
  <2> SUFFICES ASSUME NEW h \in Existing', NEW k \in Existing', h # k
               PROVE  ~Meets(goal'[h], goal'[k].from, goal'[k].to)
    BY DEF VersionsApart
  <2>1. \A i, j \in Existing :
          i # j => ~(goal[i].from <= goal[j].to /\ goal[j].from <= goal[i].to)
    BY DEF IInv, VersionsApart, Meets
  <2>2. h \in Existing \cup {new} /\ k \in Existing \cup {new}
    BY <1>3
  <2>3. \A i \in Existing \ {g} : goal'[i] = goal[i]
    BY <1>1, <1>3 DEF Existing
  <2>4. \A i \in Existing \ {g} :
          /\ goal[i].from \in Nat /\ goal[i].to \in Nat
          /\ goal[i].to < goal[g].from \/ goal[g].to < goal[i].from
    BY <1>2, <2>1
  <2>5. CASE h = new
    BY <1>1, <1>2, <1>3, <2>2, <2>3, <2>4, <2>5 DEF Meets
  <2>6. CASE k = new
    BY <1>1, <1>2, <1>3, <2>2, <2>3, <2>4, <2>6 DEF Meets
  <2>7. CASE h = g /\ k # new
    BY <1>1, <1>2, <1>3, <2>2, <2>3, <2>4, <2>7 DEF Meets
  <2>8. CASE h # new /\ k = g
    BY <1>1, <1>2, <1>3, <2>2, <2>3, <2>4, <2>8 DEF Meets
  <2>9. CASE h \notin {g, new} /\ k \notin {g, new}
    BY <2>1, <2>2, <2>3, <2>9 DEF Meets
  <2> QED
    BY <2>5, <2>6, <2>7, <2>8, <2>9
<1>8. OneMembershipPerYear'
  <2> SUFFICES ASSUME NEW a \in members', NEW b \in members',
                      a.goal = b.goal, a.measure = b.measure, a # b
               PROVE  ~Meets(a, b.from, b.to)
    BY DEF OneMembershipPerYear
  <2>1. \A x \in members : x.goal # new /\ x \in MemberRows
    BY <1>1 DEF IInv, MembersKnown, TypeOK
  <2>2. PICK x \in members : Within(a, x) /\ PartOf(a, x, g, new, start)
    BY <1>4
  <2>3. PICK y \in members : Within(b, y) /\ PartOf(b, y, g, new, start)
    BY <1>4
  <2>4. x.goal = y.goal /\ x # y
    BY <2>1, <2>2, <2>3 DEF PartOf
  <2>5. ~Meets(x, y.from, y.to)
    BY <2>2, <2>3, <2>4 DEF Within, IInv, OneMembershipPerYear
  <2> QED
    BY <1>4, <2>1, <2>2, <2>3, <2>5, PartsStayApart
<1> QED
  BY <1>5, <1>6, <1>7, <1>8 DEF IInv

LEMMA GoalKeepsCount ==
  ASSUME IInv, TypeOK', GoalStep
  PROVE  IInv'
<1>1. PICK g \in Existing :
        \/ \E rule \in Rules, status \in Statuses :
             \/ UpdateGoal(g, rule, status)
             \/ \E new \in Versions, start \in Years :
                  CreateSuccessorGoal(g, new, start, rule, status)
        \/ ArchiveGoal(g)
        \/ RestoreGoal(g)
  BY DEF GoalStep
<1>2. TypeOK /\ g \in Versions /\ goal[g] \in GoalRows
  BY ExistingRows DEF IInv, Existing
<1>3. CASE \/ \E rule \in Rules, status \in Statuses : UpdateGoal(g, rule, status)
           \/ ArchiveGoal(g) \/ RestoreGoal(g)
  <2> DEFINE Kept(row) == /\ goal' = [goal EXCEPT ![g] = row]
                          /\ row.from = goal[g].from /\ row.to = goal[g].to
                          /\ row # Absent
                          /\ plan' = plan /\ members' = members /\ measure' = measure
  <2>1. \E row : Kept(row)
    <3>1. ASSUME NEW rule \in Rules, NEW status \in Statuses, UpdateGoal(g, rule, status)
          PROVE  Kept([goal[g] EXCEPT !.rule = rule, !.status = status])
      <4>1. goal' = [goal EXCEPT ![g] = [goal[g] EXCEPT !.rule = rule, !.status = status]]
        BY <1>2, <3>1 DEF UpdateGoal, TypeOK
      <4> QED
        BY <1>2, <3>1, <4>1 DEF UpdateGoal, GoalRows, Absent
    <3>2. ASSUME NEW state \in {"live", "archived"},
                 goal' = [goal EXCEPT ![g].state = state],
                 UNCHANGED <<plan, members, measure>>
          PROVE  Kept([goal[g] EXCEPT !.state = state])
      BY <1>2, <3>2 DEF TypeOK, GoalRows, Absent
    <3>3. CASE ArchiveGoal(g)
      BY <3>2, <3>3 DEF ArchiveGoal
    <3>4. CASE RestoreGoal(g)
      BY <3>2, <3>4 DEF RestoreGoal
    <3> HIDE DEF Kept
    <3> QED
      BY <1>3, <3>1, <3>3, <3>4
  <2>2. /\ \A h \in Versions \ {g} : goal'[h] = goal[h]
        /\ goal'[g].from = goal[g].from /\ goal'[g].to = goal[g].to
        /\ plan' = plan /\ members' = members /\ measure' = measure
        /\ goal'[g] # Absent
    BY <1>2, <2>1 DEF TypeOK
  <2>3. Existing' = Existing
    BY <1>2, <2>2 DEF Existing
  <2>4. \A h \in Existing : goal'[h].from = goal[h].from /\ goal'[h].to = goal[h].to
    BY <2>2 DEF Existing
  <2> QED
    BY <2>2, <2>3, <2>4, RowsKept
<1> QED
  BY <1>1, <1>3, SuccessorKeepsCount

LEMMA MemberKeepsCount ==
  ASSUME IInv, TypeOK', MemberStep
  PROVE  IInv'
<1>1. PICK x \in members, role \in Roles :
        \/ UpdateMembership(x, role)
        \/ \E start \in Years : CreateSuccessorMembership(x, start, role)
  BY DEF MemberStep
<1>2. /\ \A y \in members : y \in MemberRows /\ y.from \in Nat /\ y.to \in Nat
      /\ \A a \in members' : a \in MemberRows
      /\ plan.start \in Nat /\ plan.end \in Nat
  BY RowNat DEF IInv, TypeOK
<1>3. /\ \A y \in members : y.goal \in Existing /\ measure[y.measure] # "absent" /\ InPlan(y)
      /\ \A y, z \in members :
           y.goal = z.goal /\ y.measure = z.measure /\ y # z => ~Meets(y, z.from, z.to)
  BY DEF IInv, MembersKnown, RowsInPlan, OneMembershipPerYear
<1>4. CASE UpdateMembership(x, role)
  <2> DEFINE changed == [x EXCEPT !.role = role]
  <2>1. /\ changed.goal = x.goal /\ changed.measure = x.measure
        /\ changed.from = x.from /\ changed.to = x.to
    BY <1>2 DEF MemberRows
  <2>2. /\ members' = (members \ {x}) \cup {changed}
        /\ plan' = plan /\ goal' = goal /\ measure' = measure
    BY <1>4 DEF UpdateMembership
  <2>3. \A a \in members' : a.goal \in Existing /\ measure'[a.measure] # "absent" /\ InPlan(a)
    BY <1>3, <2>1, <2>2 DEF InPlan
  <2>4. \A a, b \in members' :
          a.goal = b.goal /\ a.measure = b.measure /\ a # b => ~Meets(a, b.from, b.to)
    <3> HIDE DEF changed
    <3> SUFFICES ASSUME NEW a \in members', NEW b \in members',
                        a.goal = b.goal, a.measure = b.measure, a # b
                 PROVE  ~Meets(a, b.from, b.to)
      OBVIOUS
    <3>1. CASE a # changed /\ b # changed
      BY <1>3, <2>2, <3>1
    <3>2. CASE a = changed /\ b # changed
      BY <1>3, <2>1, <2>2, <3>2 DEF Meets
    <3>3. CASE a # changed /\ b = changed
      BY <1>3, <2>1, <2>2, <3>3
    <3> QED
      BY <3>1, <3>2, <3>3
  <2> QED
    BY <2>2, <2>3, <2>4, MembersChanged
<1>5. ASSUME NEW start \in Years, CreateSuccessorMembership(x, start, role)
      PROVE  IInv'
  <2> DEFINE left == [x EXCEPT !.to = start - 1]
             right == [x EXCEPT !.from = start, !.role = role]
  <2>1. /\ left.goal = x.goal /\ left.measure = x.measure
        /\ left.from = x.from /\ left.to = start - 1
        /\ right.goal = x.goal /\ right.measure = x.measure
        /\ right.from = start /\ right.to = x.to
    BY <1>2 DEF MemberRows
  <2>2. /\ members' = (members \ {x}) \cup {left, right}
        /\ plan' = plan /\ goal' = goal /\ measure' = measure
        /\ x.from < start /\ start <= x.to /\ start \in Nat
    BY <1>5, YearsAreNatural DEF CreateSuccessorMembership, Split
  <2> HIDE DEF left, right
  <2>3. \A a \in {left, right} : Within(a, x) /\ InPlan(a)
    BY <1>2, <1>3, <2>1, <2>2 DEF Within, InPlan
  <2>4. \A a \in members' : a.goal \in Existing /\ measure'[a.measure] # "absent" /\ InPlan(a)
    BY <1>3, <2>1, <2>2, <2>3
  <2>5. ASSUME NEW a \in members', NEW b \in members',
               a.goal = b.goal, a.measure = b.measure, a # b
        PROVE  ~Meets(a, b.from, b.to)
    <3>1. CASE a \in members /\ b \in members
      BY <1>3, <2>5, <3>1
    <3>2. CASE a \in {left, right} /\ b \in {left, right}
      <4>1. ~(left.from <= right.to /\ right.from <= left.to)
        BY <2>1, <2>2, <1>2
      <4> QED
        BY <4>1, <3>2, <2>5 DEF Meets
    <3>3. CASE a \in {left, right} /\ b \in members \ {x}
      <4>1. Within(a, x) /\ Within(b, b) /\ ~Meets(x, b.from, b.to)
        BY <1>2, <1>3, <2>1, <2>3, <2>5, <3>3 DEF Within
      <4> QED
        BY <1>2, <3>3, <4>1, PartsStayApart
    <3>4. CASE a \in members \ {x} /\ b \in {left, right}
      <4>1. Within(a, a) /\ Within(b, x) /\ ~Meets(a, x.from, x.to)
        BY <1>2, <1>3, <2>1, <2>3, <2>5, <3>4 DEF Within
      <4> QED
        BY <1>2, <3>4, <4>1, PartsStayApart
    <3> QED
      BY <2>2, <3>1, <3>2, <3>3, <3>4
  <2> QED
    BY <2>2, <2>4, <2>5, MembersChanged
<1> QED
  BY <1>1, <1>4, <1>5

LEMMA MeasureKeepsCount ==
  ASSUME IInv, TypeOK', MeasureStep
  PROVE  IInv'
<1>1. PICK m \in Measures :
        \/ \E g \in Existing, from \in Years : CreateMeasure(m, g, from)
        \/ ArchiveOrRestoreMeasure(m)
        \/ \E y \in Years : EnterResult(m, y)
  BY DEF MeasureStep
<1>2. /\ \A x \in members : x.measure \in Measures /\ measure[x.measure] # "absent"
      /\ measure \in [Measures -> {"absent", "live", "archived"}]
  BY DEF IInv, TypeOK, MemberRows, MembersKnown
<1>3. ASSUME NEW g \in Existing, NEW from \in Years, CreateMeasure(m, g, from)
      PROVE  IInv'
  <2> DEFINE row == Member(g, m, from, goal[g].to, 1)
  <2>1. /\ members' = members \cup {row} /\ plan' = plan /\ goal' = goal
        /\ measure[m] = "absent" /\ measure' = [measure EXCEPT ![m] = "live"]
        /\ goal[g].from <= from /\ from <= goal[g].to
    BY <1>3 DEF CreateMeasure, Covers
  <2>2. /\ row.goal = g /\ row.measure = m /\ row.from = from /\ row.to = goal[g].to
    BY DEF Member
  <2>3. InPlan(row)
    <3>1. {from, goal[g].from, goal[g].to, plan.start, plan.end} \subseteq Nat
      BY YearsAreNatural, ExistingRows, RowNat DEF IInv, TypeOK, Existing
    <3>2. plan.start <= goal[g].from /\ goal[g].to <= plan.end
      BY DEF IInv, RowsInPlan, InPlan
    <3> QED
      BY <2>1, <2>2, <3>1, <3>2 DEF InPlan
  <2> HIDE DEF row
  <2>4. \A a \in members' : a.goal \in Existing /\ measure'[a.measure] # "absent" /\ InPlan(a)
    BY <1>2, <2>1, <2>2, <2>3 DEF IInv, MembersKnown, RowsInPlan
  <2>5. \A a, b \in members' :
          a.goal = b.goal /\ a.measure = b.measure /\ a # b => ~Meets(a, b.from, b.to)
    BY <1>2, <2>1, <2>2 DEF IInv, OneMembershipPerYear
  <2>6. \A n \in Measures : measure[n] # "absent" => measure'[n] # "absent"
    BY <1>2, <2>1
  <2> QED
    BY <2>1, <2>4, <2>5, <2>6, MembersChanged
<1>4. CASE ArchiveOrRestoreMeasure(m) \/ \E y \in Years : EnterResult(m, y)
  <2>1. /\ plan' = plan /\ goal' = goal /\ members' = members
        /\ \A n \in Measures : measure[n] # "absent" => measure'[n] # "absent"
    BY <1>2, <1>4 DEF ArchiveOrRestoreMeasure, EnterResult
  <2> QED
    BY <2>1, RowsKept DEF Existing
<1> QED
  BY <1>1, <1>3, <1>4

-----------------------------------------------------------------------------
(* A boundary that moves outward takes one row along.                       *)

(* A row whose ends move only from a boundary of the plan to the new one.   *)
Moved(new, row, start, end) ==
  /\ new.from = row.from \/ (row.from = plan.start /\ new.from = start)
  /\ new.to = row.to \/ (row.to = plan.end /\ new.to = end)

LEMMA StretchMoves ==
  ASSUME TypeOK, NEW start \in Years, NEW end \in Years
  PROVE  /\ \A row \in GoalRows : Moved(Stretched(row, start, end), row, start, end)
         /\ \A x \in members :
              LET new == StretchedMember(x, start, end)
              IN  Moved(new, x, start, end) /\ new.goal = x.goal /\ new.measure = x.measure
<1>1. \A row \in GoalRows \cup MemberRows : Moved(Stretched(row, start, end), row, start, end)
  BY DEF Stretched, Moved, GoalRows, MemberRows
<1>2. \A x \in members : x \in MemberRows
  BY DEF TypeOK
<1> QED
  BY <1>1, <1>2 DEF StretchedMember, Moved, MemberRows

LEMMA MovedStaysInPlan ==
  ASSUME NEW row, NEW new, NEW start \in Nat, NEW end \in Nat, InPlan(row),
         {row.from, row.to, plan.start, plan.end} \subseteq Nat,
         start <= plan.start, plan.end <= end, Moved(new, row, start, end)
  PROVE  start <= new.from /\ new.from <= new.to /\ new.to <= end
BY DEF InPlan, Moved

LEMMA MovedStayApart ==
  ASSUME NEW row, NEW new, NEW row2, NEW new2, NEW start \in Nat, NEW end \in Nat,
         InPlan(row), InPlan(row2), ~Meets(row, row2.from, row2.to),
         {row.from, row.to, row2.from, row2.to, plan.start, plan.end} \subseteq Nat,
         Moved(new, row, start, end), Moved(new2, row2, start, end)
  PROVE  ~Meets(new, new2.from, new2.to)
<1>1. CASE row.to < row2.from
  <2>1. new.to = row.to /\ new2.from = row2.from
    BY <1>1 DEF InPlan, Moved
  <2> QED
    BY <1>1, <2>1 DEF Meets
<1>2. CASE row2.to < row.from
  <2>1. new2.to = row2.to /\ new.from = row.from
    BY <1>2 DEF InPlan, Moved
  <2> QED
    BY <1>2, <2>1 DEF Meets
<1> QED
  BY <1>1, <1>2 DEF Meets

LEMMA RangeKeepsCount ==
  ASSUME ~Narrowing, IInv, TypeOK', NEW start \in Years, NEW end \in Years,
         ChangePlanRange(start, end)
  PROVE  IInv'
<1>1. /\ TypeOK /\ start \in Nat /\ end \in Nat
      /\ start <= plan.start /\ plan.end <= end
      /\ plan.start \in Nat /\ plan.end \in Nat
      /\ plan'.start = start /\ plan'.end = end /\ measure' = measure
  BY YearsAreNatural, RowNat DEF IInv, TypeOK, ChangePlanRange
<1>2. \A g \in Existing : /\ goal[g] \in GoalRows /\ g \in Versions
                          /\ goal[g].from \in Nat /\ goal[g].to \in Nat /\ InPlan(goal[g])
  BY ExistingRows, RowNat DEF IInv, Existing, RowsInPlan
<1>3. \A g \in Existing : Moved(goal'[g], goal[g], start, end)
  BY <1>1, <1>2, StretchMoves DEF ChangePlanRange, Moved
<1>4. Existing' = Existing
  <2>1. \A g \in Existing : goal'[g] # Absent
    BY <1>2, StretchedTyped DEF ChangePlanRange, GoalRows, Absent
  <2>2. \A g \in Versions \ Existing : goal'[g] = Absent
    BY <1>1, ExistingRows DEF ChangePlanRange, Existing
  <2> QED
    BY <2>1, <2>2 DEF Existing
<1>5. \A x \in members : /\ x.from \in Nat /\ x.to \in Nat /\ InPlan(x)
                         /\ x.goal \in Existing /\ measure[x.measure] # "absent"
  BY RowNat DEF IInv, TypeOK, RowsInPlan, MembersKnown
<1>6. \A a \in members' : \E x \in members :
        /\ a = StretchedMember(x, start, end)
        /\ Moved(a, x, start, end) /\ a.goal = x.goal /\ a.measure = x.measure
  BY <1>1, StretchedMembers, StretchMoves DEF ChangePlanRange
<1>7. MembersKnown'
  BY <1>1, <1>4, <1>5, <1>6 DEF MembersKnown
<1>8. RowsInPlan'
  <2>1. \A g \in Existing : InPlan(goal[g])'
    BY <1>1, <1>2, <1>3, MovedStaysInPlan DEF InPlan
  <2>2. ASSUME NEW a \in members' PROVE InPlan(a)'
    <3>1. PICK x \in members : Moved(a, x, start, end)
      BY <1>6
    <3> QED
      BY <1>1, <1>5, <3>1, MovedStaysInPlan DEF InPlan
  <2> QED
    BY <1>4, <2>1, <2>2 DEF RowsInPlan
<1>9. VersionsApart'
  <2> SUFFICES ASSUME NEW g \in Existing, NEW h \in Existing, g # h
               PROVE  ~Meets(goal'[g], goal'[h].from, goal'[h].to)
    BY <1>4 DEF VersionsApart
  <2>1. ~Meets(goal[g], goal[h].from, goal[h].to)
    BY DEF IInv, VersionsApart
  <2> QED
    BY <1>1, <1>2, <1>3, <2>1, MovedStayApart
<1>10. OneMembershipPerYear'
  <2> SUFFICES ASSUME NEW a \in members', NEW b \in members',
                      a.goal = b.goal, a.measure = b.measure, a # b
               PROVE  ~Meets(a, b.from, b.to)
    BY DEF OneMembershipPerYear
  <2>1. PICK x \in members : /\ a = StretchedMember(x, start, end)
                             /\ Moved(a, x, start, end) /\ a.goal = x.goal
                             /\ a.measure = x.measure
    BY <1>6
  <2>2. PICK y \in members : /\ b = StretchedMember(y, start, end)
                             /\ Moved(b, y, start, end) /\ b.goal = y.goal
                             /\ b.measure = y.measure
    BY <1>6
  <2>3. ~Meets(x, y.from, y.to)
    BY <2>1, <2>2 DEF IInv, OneMembershipPerYear
  <2> QED
    BY <1>1, <1>5, <2>1, <2>2, <2>3, MovedStayApart
<1> QED
  BY <1>7, <1>8, <1>9, <1>10 DEF IInv

LEMMA CountStep ==
  ASSUME ~Narrowing
  PROVE  IInv /\ [Next]_vars => IInv'
<1> SUFFICES ASSUME IInv, [Next]_vars PROVE IInv'
  OBVIOUS
<1>1. TypeOK'
  BY TypeStep DEF IInv
<1>2. CASE ArchiveOrRestorePriority \/ (\E r \in results : DeleteResult(r)) \/ UNCHANGED vars
  <2>1. plan' = plan /\ goal' = goal /\ members' = members /\ measure' = measure
    BY <1>2 DEF ArchiveOrRestorePriority, DeleteResult, vars
  <2> QED
    BY <1>1, <2>1, RowsKept DEF Existing
<1> QED
  BY <1>1, <1>2, GoalKeepsCount, MemberKeepsCount, MeasureKeepsCount, RangeKeepsCount
     DEF Next

(* In a plan that only grows, no year has two versions of the Goal to judge *)
(* it, and no Measure counts twice for a version in a year, however the     *)
(* Goal and its memberships are versioned, archived, restored and stretched *)
(* (createSuccessorStrategicGoal, extendPlanBoundaryCoverage).              *)
THEOREM OneCountHolds ==
  ASSUME ~Narrowing
  PROVE  Spec => []OneCountPerYear
<1>1. IInv => OneCountPerYear
  BY DEF IInv, OneCountPerYear, OneVersionPerYear, VersionsApart
<1>2. IInv /\ [Next]_vars => IInv'
  BY CountStep
<1> QED
  BY <1>1, <1>2, CountInit, PTL DEF Spec


-----------------------------------------------------------------------------
(* A threshold that can be reached stays so.  The required Measures of a    *)
(* year are counted by their memberships, of which each has one: a set of   *)
(* memberships is as large as another when its Measures are all in that.    *)

LEMMA CountByMeasure ==
  ASSUME NEW A, NEW B,
         \A b \in B : b.measure \in Measures,
         \A a, b \in A : a.measure = b.measure => a = b,
         \A a, b \in B : a.measure = b.measure => a = b,
         \A a \in A : \E b \in B : b.measure = a.measure
  PROVE  /\ Cardinality(A) \in Nat /\ Cardinality(B) \in Nat
         /\ Cardinality(A) <= Cardinality(B)
<1> DEFINE f == [b \in B |-> b.measure]
           h == [a \in A |-> CHOOSE b \in B : b.measure = a.measure]
<1>1. f \in Injection(B, Measures)
  BY DEF Injection, IsInjective
<1>2. IsFiniteSet(B)
  BY <1>1, FS_Injection, GoalAssumption
<1>3. \A a \in A : h[a] \in B /\ h[a].measure = a.measure
  OBVIOUS
<1>4. h \in Injection(A, B)
  BY <1>3 DEF Injection, IsInjective
<1>5. IsFiniteSet(A) /\ Cardinality(A) <= Cardinality(B)
  BY <1>2, <1>4, FS_Injection
<1> QED
  BY <1>2, <1>5, FS_CardinalityType

LEMMA RequiredOnce ==
  ASSUME IInv, NEW g, NEW y \in Nat
  PROVE  /\ \A x \in Required(members, g, y) : x.measure \in Measures
         /\ \A x, z \in Required(members, g, y) : x.measure = z.measure => x = z
<1>1. \A x \in members : x \in MemberRows /\ x.from \in Nat /\ x.to \in Nat
  BY RowNat DEF IInv, TypeOK
<1>2. \A x \in Required(members, g, y) : x \in members /\ x.goal = g /\ x.from <= y /\ y <= x.to
  BY DEF Required, Covers
<1>3. ASSUME NEW x \in Required(members, g, y), NEW z \in Required(members, g, y),
             x.measure = z.measure
      PROVE  x = z
  <2>1. Meets(x, z.from, z.to)
    BY <1>1, <1>2 DEF Meets
  <2> QED
    BY <1>2, <1>3, <2>1 DEF IInv, OneMembershipPerYear
<1> QED
  BY <1>1, <1>2, <1>3 DEF MemberRows

(* Year z of h can reach what year y of g could, if the Measures required   *)
(* there are required here.                                                 *)
LEMMA ReachCarriedOver ==
  ASSUME IInv, IInv', NEW g, NEW h, NEW y \in Nat, NEW z \in Nat, NEW n \in Nat,
         \A x \in Required(members, g, y) :
            \E a \in Required(members', h, z) : a.measure = x.measure,
         n <= Cardinality(Required(members, g, y))
  PROVE  n <= Cardinality(Required(members', h, z))
<1> DEFINE A == Required(members, g, y)
           B == Required(members', h, z)
<1>1. \A a, b \in A : a.measure = b.measure => a = b
  BY RequiredOnce
<1>2. /\ \A b \in B : b.measure \in Measures
      /\ \A a, b \in B : a.measure = b.measure => a = b
  <2>1. ASSUME NEW k, NEW u \in Nat
        PROVE  /\ \A x \in Required(members', k, u) : x.measure \in Measures
               /\ \A x, v \in Required(members', k, u) : x.measure = v.measure => x = v
    <3>1. \A x \in members' : x \in MemberRows /\ x.from \in Nat /\ x.to \in Nat
      BY RowNat DEF IInv, TypeOK
    <3>2. \A x \in Required(members', k, u) :
            x \in members' /\ x.goal = k /\ x.from <= u /\ u <= x.to
      BY DEF Required, Covers
    <3>3. ASSUME NEW x \in Required(members', k, u), NEW v \in Required(members', k, u),
                 x.measure = v.measure
          PROVE  x = v
      <4>1. Meets(x, v.from, v.to)
        BY <3>1, <3>2 DEF Meets
      <4> QED
        BY <3>2, <3>3, <4>1 DEF IInv, OneMembershipPerYear
    <3> QED
      BY <3>1, <3>2, <3>3 DEF MemberRows
  <2> QED
    BY <2>1
<1>3. \A a \in A : \E b \in B : b.measure = a.measure
  OBVIOUS
<1> HIDE DEF A, B
<1>4. /\ Cardinality(A) \in Nat /\ Cardinality(B) \in Nat
      /\ Cardinality(A) <= Cardinality(B)
  BY <1>1, <1>2, <1>3, CountByMeasure
<1> QED
  BY <1>4 DEF A, B

LEMMA SatisfiableCarriedOver ==
  ASSUME IInv, IInv', NEW g, NEW h, NEW rule \in Rules,
         NEW from \in Years, NEW to \in Years, NEW from2 \in Nat, NEW to2 \in Nat,
         Satisfiable(rule, members, g, from, to),
         \A z \in from2 .. to2 : \E y \in from .. to :
            \A x \in Required(members, g, y) :
               \E a \in Required(members', h, z) : a.measure = x.measure
  PROVE  Satisfiable(rule, members', h, from2, to2)
<1> SUFFICES ASSUME NEW z \in from2 .. to2
             PROVE  rule.count <= Cardinality(Required(members', h, z))
  BY DEF Satisfiable
<1>1. PICK y \in from .. to : \A x \in Required(members, g, y) :
                 \E a \in Required(members', h, z) : a.measure = x.measure
  OBVIOUS
<1>2. y \in Nat /\ z \in Nat
  BY YearsAreNatural
<1>3. rule.count \in Nat /\ rule.count <= Cardinality(Required(members, g, y))
  BY GoalAssumption DEF Satisfiable
<1> QED
  BY <1>1, <1>2, <1>3, ReachCarriedOver

(* Memberships of this version are left where they were, or more are added. *)
LEMMA MembersOfVersionKept ==
  ASSUME IInv, IInv', NEW g \in Existing,
         Satisfiable(goal[g].rule, members, g, goal[g].from, goal[g].to),
         \A x \in members : x.goal = g => x \in members'
  PROVE  Satisfiable(goal[g].rule, members', g, goal[g].from, goal[g].to)
<1>1. goal[g] \in GoalRows
  BY ExistingRows DEF IInv, Existing
<1>2. goal[g].rule \in Rules /\ goal[g].from \in Years /\ goal[g].to \in Years
  BY <1>1 DEF GoalRows
<1>3. \A z : \A x \in Required(members, g, z) : x \in Required(members', g, z)
  BY DEF Required
<1> QED
  BY <1>2, <1>3, YearsAreNatural, SatisfiableCarriedOver

LEMMA ReachInit == Init => ThresholdReachable
<1> SUFFICES ASSUME Init PROVE ThresholdReachable
  OBVIOUS
<1>1. PICK g \in Versions, rule \in Rules, status \in Statuses, S \in SUBSET Measures :
        \E role \in [S -> Roles] :
          /\ goal = [h \in Versions |->
                       IF h = g THEN Version(plan.start, plan.end, rule, status) ELSE Absent]
          /\ members = {Member(g, m, plan.start, plan.end, role[m]) : m \in S}
          /\ measure = [m \in Measures |-> IF m \in S THEN "live" ELSE "absent"]
          /\ rule.count <= Cardinality({m \in S : role[m] > 0})
  BY DEF Init
<1>2. PICK role \in [S -> Roles] :
        /\ members = {Member(g, m, plan.start, plan.end, role[m]) : m \in S}
        /\ rule.count <= Cardinality({m \in S : role[m] > 0})
  BY <1>1
<1>3. Existing = {g} /\ goal[g] = Version(plan.start, plan.end, rule, status)
  BY <1>1 DEF Existing, Version, Absent
<1> SUFFICES ASSUME NEW y \in plan.start .. plan.end
             PROVE  rule.count <= Cardinality(Required(members, g, y))
  BY <1>3 DEF ThresholdReachable, Satisfiable, Version
<1> DEFINE A == {m \in S : role[m] > 0}
           B == Required(members, g, y)
           f == [m \in A |-> Member(g, m, plan.start, plan.end, role[m])]
<1>4. plan.start \in Nat /\ plan.end \in Nat /\ y \in Nat
  <2>1. plan \in PlanRanges
    BY DEF Init, PlanRanges
  <2> QED
    BY <2>1, RowNat
<1>5. \A m \in A : f[m] \in B /\ f[m].measure = m
  BY <1>2, <1>4 DEF Member, Required, Covers
<1>6. f \in Injection(A, B)
  BY <1>5 DEF Injection, IsInjective
<1>7. IInv
  BY CountInit
<1>8. IsFiniteSet(B)
  <2> DEFINE k == [b \in B |-> b.measure]
  <2>1. \A b \in B : b.measure \in Measures
    BY <1>4, <1>7, RequiredOnce
  <2>2. \A a, b \in B : a.measure = b.measure => a = b
    BY <1>4, <1>7, RequiredOnce
  <2>3. k \in Injection(B, Measures)
    <3> HIDE DEF B
    <3> QED
      BY <2>1, <2>2 DEF Injection, IsInjective
  <2> QED
    BY <2>3, FS_Injection, GoalAssumption
<1>9. Cardinality(A) <= Cardinality(B) /\ IsFiniteSet(A)
  <2> HIDE DEF A, B, f
  <2> QED
    BY <1>6, <1>8, FS_Injection
<1>10. Cardinality(A) \in Nat /\ Cardinality(B) \in Nat /\ rule.count \in Nat
  <2> HIDE DEF A, B
  <2> QED
    BY <1>8, <1>9, FS_CardinalityType, GoalAssumption
<1> QED
  BY <1>2, <1>9, <1>10

(* The successor has the memberships of the predecessor from its year on;   *)
(* the predecessor keeps those of the years before.                         *)
LEMMA SuccessorKeepsReach ==
  ASSUME IInv, IInv', ThresholdReachable,
         NEW g \in Existing, NEW rule \in Rules, NEW status \in Statuses,
         NEW new \in Versions, NEW start \in Years,
         CreateSuccessorGoal(g, new, start, rule, status)
  PROVE  ThresholdReachable'
<1>1. /\ goal[new] = Absent /\ new \notin Existing /\ new # g
      /\ goal[g].from < start /\ start <= goal[g].to
      /\ members' = Cut(g, start) \cup Inherited(g, new, start)
      /\ Satisfiable(rule, members, g, start, goal[g].to)
  BY DEF CreateSuccessorGoal, Existing
<1>2. /\ g \in Versions /\ goal[g] \in GoalRows /\ start \in Nat
      /\ goal[g].from \in Years /\ goal[g].to \in Years /\ goal[g].rule \in Rules
      /\ goal[g].from \in Nat /\ goal[g].to \in Nat
  <2>1. g \in Versions /\ goal[g] \in GoalRows
    BY ExistingRows DEF IInv, Existing
  <2> QED
    BY <2>1, RowNat, YearsAreNatural DEF GoalRows
<1>3. /\ goal'[g] = [goal[g] EXCEPT !.to = start - 1]
      /\ goal'[new] = Version(start, goal[g].to, rule, status)
      /\ \A h \in Versions \ {g, new} : goal'[h] = goal[h]
  <2>1. goal' = [[goal EXCEPT ![g] = [goal[g] EXCEPT !.to = start - 1]]
                   EXCEPT ![new] = Version(start, goal[g].to, rule, status)]
    BY <1>1, <1>2 DEF CreateSuccessorGoal, PredecessorEnd, IInv, TypeOK
  <2> QED
    BY <1>1, <1>2, <2>1 DEF IInv, TypeOK
<1>4. /\ goal'[g].from = goal[g].from /\ goal'[g].to = start - 1
      /\ goal'[g].rule = goal[g].rule
      /\ goal'[new].from = start /\ goal'[new].to = goal[g].to
      /\ goal'[new].rule = rule
  BY <1>2, <1>3 DEF GoalRows, Version
<1>5. \A x \in members : x \in MemberRows /\ x.from \in Nat /\ x.to \in Nat
                         /\ x.from <= x.to /\ x.goal # new
  BY <1>1, RowNat DEF IInv, TypeOK, RowsInPlan, InPlan, MembersKnown
<1> SUFFICES ASSUME NEW h \in Existing'
             PROVE  Satisfiable(goal'[h].rule, members', h, goal'[h].from, goal'[h].to)
  BY DEF ThresholdReachable
<1>7. CASE h = new
  <2>1. ASSUME NEW z \in start .. goal[g].to, NEW x \in Required(members, g, z)
        PROVE  \E a \in Required(members', new, z) : a.measure = x.measure
    <3>1. x \in members /\ x.goal = g /\ x.role > 0 /\ x.from <= z /\ z <= x.to /\ z \in Nat
      BY <1>2, <2>1 DEF Required, Covers
    <3>2. x \in Carried(g, start)
      BY <1>2, <1>5, <2>1, <3>1 DEF Carried, Meets
    <3> DEFINE a == [x EXCEPT !.goal = new, !.from = Higher(start, x.from),
                              !.to = Lower(goal[g].to, x.to)]
    <3>3. a \in members'
      BY <1>1, <3>2 DEF Inherited
    <3>4. /\ a.goal = new /\ a.measure = x.measure /\ a.role = x.role
          /\ a.from = Higher(start, x.from) /\ a.to = Lower(goal[g].to, x.to)
      BY <1>5, <3>1 DEF MemberRows
    <3>5. a.from <= z /\ z <= a.to
      BY <2>1, <3>1, <3>4 DEF Higher, Lower
    <3> HIDE DEF a
    <3> QED
      BY <3>1, <3>3, <3>4, <3>5 DEF Required, Covers
  <2>2. \A z \in start .. goal[g].to : \E y \in start .. goal[g].to :
          \A x \in Required(members, g, y) :
            \E a \in Required(members', new, z) : a.measure = x.measure
    BY <2>1
  <2>3. Satisfiable(rule, members', new, start, goal[g].to)
    <3>1. Satisfiable(rule, members, g, start, goal[g].to)
      BY <1>1
    <3> QED
      BY <1>2, <2>2, <3>1, SatisfiableCarriedOver
  <2> QED
    BY <1>4, <1>7, <2>3
<1>8. CASE h = g
  <2>1. ASSUME NEW z \in goal[g].from .. (start - 1), NEW x \in Required(members, g, z)
        PROVE  \E a \in Required(members', g, z) : a.measure = x.measure
    <3>1. x \in members /\ x.goal = g /\ x.role > 0 /\ x.from <= z /\ z <= x.to /\ z \in Nat
      BY <1>2, <2>1 DEF Required, Covers
    <3> DEFINE a == CutRow(g, start, x)
    <3>2. a \in members'
      BY <1>1, <3>1 DEF Cut, CutRow
    <3>3. /\ a.goal = x.goal /\ a.measure = x.measure /\ a.role = x.role
          /\ a.from = x.from /\ (a.to = start - 1 \/ a.to = x.to)
      BY <1>5, <3>1 DEF CutRow, MemberRows
    <3> HIDE DEF a
    <3> QED
      BY <1>2, <2>1, <3>1, <3>2, <3>3 DEF Required, Covers
  <2>2. goal[g].from .. (start - 1) \subseteq goal[g].from .. goal[g].to
    BY <1>1, <1>2
  <2>3. Satisfiable(goal[g].rule, members, g, goal[g].from, goal[g].to)
    BY DEF ThresholdReachable
  <2>4. start - 1 \in Nat
    BY <1>1, <1>2
  <2>5. \A z \in goal[g].from .. (start - 1) : \E y \in goal[g].from .. goal[g].to :
          \A x \in Required(members, g, y) :
            \E a \in Required(members', g, z) : a.measure = x.measure
    BY <2>1, <2>2
  <2>6. Satisfiable(goal[g].rule, members', g, goal[g].from, start - 1)
    <3>1. /\ goal[g].rule \in Rules /\ goal[g].from \in Years /\ goal[g].to \in Years
          /\ goal[g].from \in Nat
      BY <1>2
    <3> QED
      BY <2>3, <2>4, <2>5, <3>1, SatisfiableCarriedOver
  <2> QED
    BY <1>4, <1>8, <2>6
<1>9. CASE h \notin {g, new}
  <2>1. h \in Existing /\ goal'[h] = goal[h]
    BY <1>3, <1>9 DEF Existing
  <2>2. \A x \in members : x.goal = h => x \in members'
    <3> SUFFICES ASSUME NEW x \in members, x.goal = h PROVE x \in members'
      OBVIOUS
    <3>1. x \notin Carried(g, start)
      BY <1>9 DEF Carried
    <3> QED
      BY <1>1, <3>1 DEF Cut
  <2> QED
    BY <2>1, <2>2, MembersOfVersionKept DEF ThresholdReachable
<1> QED
  BY <1>7, <1>8, <1>9

LEMMA GoalKeepsReach ==
  ASSUME IInv, IInv', ThresholdReachable, GoalStep
  PROVE  ThresholdReachable'
<1>1. PICK g \in Existing :
        \/ \E rule \in Rules, status \in Statuses :
             \/ UpdateGoal(g, rule, status)
             \/ \E new \in Versions, start \in Years :
                  CreateSuccessorGoal(g, new, start, rule, status)
        \/ ArchiveGoal(g)
        \/ RestoreGoal(g)
  BY DEF GoalStep
<1>2. g \in Versions /\ goal[g] \in GoalRows /\ goal \in [Versions -> GoalRows \cup {Absent}]
  BY ExistingRows DEF IInv, TypeOK, Existing
<1>3. ASSUME NEW rule \in Rules, NEW status \in Statuses, UpdateGoal(g, rule, status)
      PROVE  ThresholdReachable'
  <2>1. goal' = [goal EXCEPT ![g] = [goal[g] EXCEPT !.rule = rule, !.status = status]]
    BY <1>2, <1>3 DEF UpdateGoal
  <2>2. /\ goal'[g].rule = rule /\ goal'[g].from = goal[g].from /\ goal'[g].to = goal[g].to
        /\ \A h \in Versions \ {g} : goal'[h] = goal[h]
        /\ members' = members
    BY <1>2, <1>3, <2>1 DEF UpdateGoal, GoalRows
  <2>3. Satisfiable(rule, members, g, goal[g].from, goal[g].to)
    BY <1>3 DEF UpdateGoal
  <2>4. \A h \in Existing' \ {g} : h \in Existing /\ goal'[h] = goal[h]
    BY <2>2 DEF Existing
  <2>5. \A h \in Existing' :
          Satisfiable(goal'[h].rule, members', h, goal'[h].from, goal'[h].to)
    BY <2>2, <2>3, <2>4 DEF ThresholdReachable
  <2> QED
    BY <2>5 DEF ThresholdReachable
<1>4. CASE ArchiveGoal(g) \/ RestoreGoal(g)
  <2>1. /\ goal'[g].rule = goal[g].rule
        /\ goal'[g].from = goal[g].from /\ goal'[g].to = goal[g].to
        /\ \A h \in Versions \ {g} : goal'[h] = goal[h]
        /\ members' = members
    BY <1>2, <1>4 DEF ArchiveGoal, RestoreGoal, GoalRows
  <2>2. \A h \in Existing' \ {g} : h \in Existing /\ goal'[h] = goal[h]
    BY <2>1 DEF Existing
  <2>3. \A h \in Existing' :
          Satisfiable(goal'[h].rule, members', h, goal'[h].from, goal'[h].to)
    BY <2>1, <2>2 DEF ThresholdReachable
  <2> QED
    BY <2>3 DEF ThresholdReachable
<1> QED
  BY <1>1, <1>3, <1>4, SuccessorKeepsReach

(* A change of memberships that keeps those of the other versions and       *)
(* asks again for the one whose it changes.                                 *)
LEMMA MembersReachAgain ==
  ASSUME IInv, IInv', ThresholdReachable, goal' = goal, NEW k,
         \A x \in members : x.goal # k => x \in members',
         k \in Existing => Satisfiable(goal[k].rule, members', k, goal[k].from, goal[k].to)
  PROVE  ThresholdReachable'
<1>1. Existing' = Existing
  BY DEF Existing
<1>2. \A h \in Existing : h # k =>
        Satisfiable(goal[h].rule, members', h, goal[h].from, goal[h].to)
  BY MembersOfVersionKept DEF ThresholdReachable
<1> QED
  BY <1>1, <1>2 DEF ThresholdReachable

LEMMA MemberKeepsReach ==
  ASSUME IInv, IInv', ThresholdReachable, MemberStep
  PROVE  ThresholdReachable'
<1>1. PICK x \in members, role \in Roles :
        \/ UpdateMembership(x, role)
        \/ \E start \in Years : CreateSuccessorMembership(x, start, role)
  BY DEF MemberStep
<1>2. /\ goal' = goal
      /\ \A y \in members : y.goal # x.goal => y \in members'
      /\ Satisfiable(goal[x.goal].rule, members', x.goal,
                     goal[x.goal].from, goal[x.goal].to)
  BY <1>1 DEF UpdateMembership, CreateSuccessorMembership
<1> QED
  BY <1>2, MembersReachAgain

LEMMA MeasureKeepsReach ==
  ASSUME IInv, IInv', ThresholdReachable, MeasureStep
  PROVE  ThresholdReachable'
<1>1. goal' = goal /\ members \subseteq members'
  BY DEF MeasureStep, CreateMeasure, ArchiveOrRestoreMeasure, EnterResult
<1>2. Existing' = Existing
  BY <1>1 DEF Existing
<1>3. \A h \in Existing :
        Satisfiable(goal[h].rule, members', h, goal[h].from, goal[h].to)
  BY <1>1, MembersOfVersionKept DEF ThresholdReachable
<1> QED
  BY <1>1, <1>2, <1>3 DEF ThresholdReachable

LEMMA StretchedMemberEnds ==
  ASSUME NEW start \in Nat, NEW end \in Nat, NEW x \in MemberRows, Live(x.goal),
         plan.start \in Nat, plan.end \in Nat, start <= plan.start, plan.end <= end
  PROVE  LET a == StretchedMember(x, start, end)
             h == x.goal
         IN  /\ a.goal = x.goal /\ a.measure = x.measure /\ a.role = x.role
             /\ a.from = IF goal[h].from = plan.start /\ x.from = plan.start THEN start ELSE x.from
             /\ a.to = IF goal[h].to = plan.end /\ x.to = plan.end THEN end ELSE x.to
<1>1. LET s == Stretched(x, start, end)
      IN  /\ s.from = IF x.from = plan.start THEN start ELSE x.from
          /\ s.to = IF x.to = plan.end THEN end ELSE x.to
  BY DEF Stretched, MemberRows
<1> QED
  BY <1>1 DEF StretchedMember, MemberRows

(* The years a version gains lie next to a boundary year of it, whose       *)
(* memberships follow the boundary with it.                                 *)
LEMMA RangeKeepsReach ==
  ASSUME ~Narrowing, IInv, IInv', ThresholdReachable,
         NEW start \in Years, NEW end \in Years, ChangePlanRange(start, end)
  PROVE  ThresholdReachable'
<1>1. /\ TypeOK /\ start \in Nat /\ end \in Nat
      /\ start <= plan.start /\ plan.end <= end
      /\ plan.start \in Nat /\ plan.end \in Nat
  BY YearsAreNatural, RowNat DEF IInv, TypeOK, ChangePlanRange
<1> SUFFICES ASSUME NEW h \in Existing'
             PROVE  Satisfiable(goal'[h].rule, members', h, goal'[h].from, goal'[h].to)
  BY DEF ThresholdReachable
<1>2. h \in Existing /\ h \in Versions
  BY <1>1, ExistingRows DEF ChangePlanRange, Existing
<1>3. /\ goal[h] \in GoalRows /\ goal[h].from \in Nat /\ goal[h].to \in Nat
      /\ InPlan(goal[h])
  BY <1>1, <1>2, ExistingRows, RowNat DEF IInv, RowsInPlan
<1>4. \A x \in members : /\ x \in MemberRows /\ x.from \in Nat /\ x.to \in Nat /\ InPlan(x)
                         /\ StretchedMember(x, start, end) \in members'
  BY <1>1, RowNat, StretchedMembers DEF IInv, TypeOK, RowsInPlan, ChangePlanRange
<1>5. CASE ~Live(h)
  <2>1. goal'[h] = goal[h]
    BY <1>2, <1>5 DEF ChangePlanRange
  <2>2. \A x \in members : x.goal = h => x \in members'
    BY <1>4, <1>5 DEF StretchedMember
  <2> QED
    BY <1>2, <2>1, <2>2, MembersOfVersionKept DEF ThresholdReachable
<1>6. CASE Live(h)
  <2>1. goal'[h] = Stretched(goal[h], start, end)
    BY <1>2, <1>6 DEF ChangePlanRange
  <2>2. /\ goal'[h].rule = goal[h].rule
        /\ goal'[h].from = IF goal[h].from = plan.start THEN start ELSE goal[h].from
        /\ goal'[h].to = IF goal[h].to = plan.end THEN end ELSE goal[h].to
    BY <1>1, <1>3, <2>1 DEF Stretched, GoalRows
  <2>3. ASSUME NEW x \in members, x.goal = h, NEW y \in Nat, NEW z \in Nat,
               Covers(x, y), goal'[h].from <= z, z <= goal'[h].to,
               \/ y = z
               \/ z < goal[h].from /\ y = goal[h].from
               \/ goal[h].to < z /\ y = goal[h].to
        PROVE  \E a \in members' : /\ a.goal = h /\ a.measure = x.measure
                                   /\ a.role = x.role /\ Covers(a, z)
    <3> DEFINE a == StretchedMember(x, start, end)
    <3>1. /\ a.goal = x.goal /\ a.measure = x.measure /\ a.role = x.role
          /\ a.from = IF goal[h].from = plan.start /\ x.from = plan.start THEN start ELSE x.from
          /\ a.to = IF goal[h].to = plan.end /\ x.to = plan.end THEN end ELSE x.to
      BY <1>1, <1>4, <1>6, <2>3, StretchedMemberEnds
    <3>2. a \in members'
      BY <1>4
    <3> HIDE DEF a
    <3>3. a.from <= z /\ z <= a.to
      <4>1. /\ x.from \in Nat /\ x.to \in Nat /\ x.from <= y /\ y <= x.to
            /\ plan.start <= x.from /\ x.to <= plan.end
        BY <1>4, <2>3 DEF Covers, InPlan
      <4>2. plan.start <= goal[h].from /\ goal[h].to <= plan.end
            /\ goal[h].from <= goal[h].to
        BY <1>3 DEF InPlan
      <4>3. a.from <= z
        BY <1>1, <1>3, <2>2, <2>3, <3>1, <4>1, <4>2
      <4>4. z <= a.to
        BY <1>1, <1>3, <2>2, <2>3, <3>1, <4>1, <4>2
      <4> QED
        BY <4>3, <4>4
    <3> QED
      BY <2>3, <3>1, <3>2, <3>3 DEF Covers
  <2>4. ASSUME NEW z \in goal'[h].from .. goal'[h].to
        PROVE  \E y \in goal[h].from .. goal[h].to :
                 \A x \in Required(members, h, y) :
                   \E a \in Required(members', h, z) : a.measure = x.measure
    <3> DEFINE y == IF z < goal[h].from THEN goal[h].from
                    ELSE IF goal[h].to < z THEN goal[h].to ELSE z
    <3>1. z \in Nat /\ goal'[h].from <= z /\ z <= goal'[h].to
      BY <1>1, <1>3, <2>2
    <3>2. /\ y \in goal[h].from .. goal[h].to /\ y \in Nat
          /\ \/ y = z
             \/ z < goal[h].from /\ y = goal[h].from
             \/ goal[h].to < z /\ y = goal[h].to
      BY <1>3, <3>1 DEF InPlan
    <3> HIDE DEF y
    <3>3. ASSUME NEW x \in Required(members, h, y)
          PROVE  \E a \in Required(members', h, z) : a.measure = x.measure
      <4>1. x \in members /\ x.goal = h /\ x.role > 0 /\ Covers(x, y)
        BY DEF Required
      <4>2. PICK a \in members' : /\ a.goal = h /\ a.measure = x.measure
                                  /\ a.role = x.role /\ Covers(a, z)
        BY <2>3, <3>1, <3>2, <4>1
      <4> QED
        BY <4>1, <4>2 DEF Required
    <3> QED
      BY <3>2, <3>3
  <2>5. \A z \in goal'[h].from .. goal'[h].to : \E y \in goal[h].from .. goal[h].to :
          \A x \in Required(members, h, y) :
            \E a \in Required(members', h, z) : a.measure = x.measure
    BY <2>4
  <2>6. /\ goal[h].rule \in Rules /\ goal[h].from \in Years /\ goal[h].to \in Years
        /\ goal'[h].from \in Nat /\ goal'[h].to \in Nat
    BY <1>1, <1>3, <2>2 DEF GoalRows
  <2>7. Satisfiable(goal[h].rule, members, h, goal[h].from, goal[h].to)
    BY <1>2 DEF ThresholdReachable
  <2>8. Satisfiable(goal[h].rule, members', h, goal'[h].from, goal'[h].to)
    BY <2>5, <2>6, <2>7, SatisfiableCarriedOver
  <2> QED
    BY <2>2, <2>8
<1> QED
  BY <1>5, <1>6

LEMMA ReachStep ==
  ASSUME ~Narrowing
  PROVE  IInv /\ ThresholdReachable /\ [Next]_vars => ThresholdReachable'
<1> SUFFICES ASSUME IInv, ThresholdReachable, [Next]_vars PROVE ThresholdReachable'
  OBVIOUS
<1>1. IInv'
  BY CountStep
<1>2. CASE ArchiveOrRestorePriority \/ (\E r \in results : DeleteResult(r)) \/ UNCHANGED vars
  <2>1. goal' = goal /\ members' = members
    BY <1>2 DEF ArchiveOrRestorePriority, DeleteResult, vars
  <2> QED
    BY <2>1 DEF ThresholdReachable, Satisfiable, Required, Existing
<1> QED
  BY <1>1, <1>2, GoalKeepsReach, MemberKeepsReach, MeasureKeepsReach, RangeKeepsReach DEF Next

(* In a plan that only grows, every version of the Goal asks for a count of *)
(* required Measures that each of its years can reach, although only the    *)
(* operations on the rule and on a membership ask (assertThreshold-         *)
(* CountSatisfiable): versioning the Goal, creating a Measure, archiving    *)
(* and restoring, and moving the plan's years cannot take one away.         *)
THEOREM ThresholdStaysReachable ==
  ASSUME ~Narrowing
  PROVE  Spec => []ThresholdReachable
<1>1. Init => IInv /\ ThresholdReachable
  BY CountInit, ReachInit
<1>2. IInv /\ ThresholdReachable /\ [Next]_vars => IInv' /\ ThresholdReachable'
  BY CountStep, ReachStep
<1> QED
  BY <1>1, <1>2, PTL DEF Spec

-----------------------------------------------------------------------------
(* What a reported year was judged by, and by which Measures, stands.       *)

(* A membership a Measure m counts by in year y.                            *)
Counts(x, m, y) == x.measure = m /\ Covers(x, y) /\ x.goal \in Judging(y)

KeepsRule ==
  \A y \in Years :
    (\E m \in Measures : <<m, y>> \in results /\ RolesOf(m, y) \ {0} # {}) =>
      /\ RulesOf(y)' = RulesOf(y)
      /\ \A g \in Judging(y) : goal[g].status = "ready" => goal'[g].status = "ready"

KeepsRole ==
  \A r \in results :
    RolesOf(r[1], r[2]) # {} => RolesOf(r[1], r[2])' = RolesOf(r[1], r[2])

LEMMA RolesCounted ==
  ASSUME NEW m, NEW y
  PROVE  RolesOf(m, y) = {x.role : x \in {x \in members : Counts(x, m, y)}}
BY DEF RolesOf, Counts

(* No year is judged by two versions.                                       *)
LEMMA OneJudge ==
  ASSUME IInv, NEW y \in Nat, NEW g \in Judging(y), NEW h \in Judging(y)
  PROVE  g = h
<1>1. /\ g \in Existing /\ h \in Existing /\ Covers(goal[g], y) /\ Covers(goal[h], y)
      /\ goal[g].from \in Nat /\ goal[g].to \in Nat
      /\ goal[h].from \in Nat /\ goal[h].to \in Nat
  BY ExistingRows, RowNat DEF IInv, Judging, Existing
<1>2. Meets(goal[g], goal[h].from, goal[h].to)
  BY <1>1 DEF Meets, Covers
<1> QED
  BY <1>1, <1>2 DEF IInv, VersionsApart

(* A result of a Measure that counts is history of the version that judges. *)
LEMMA CountedIsHistory ==
  ASSUME IInv, NEW y \in Years, NEW m \in Measures, <<m, y>> \in results,
         RolesOf(m, y) \ {0} # {}, NEW g \in Judging(y)
  PROVE  /\ HasHistory(g, goal[g].from, goal[g].to)
         /\ \A start \in Nat : start <= y => HasHistory(g, start, goal[g].to)
<1>1. y \in Nat
  BY YearsAreNatural
<1>2. PICK x \in members : Counts(x, m, y) /\ x.role # 0
  BY RolesCounted
<1>3. /\ x.goal = g /\ x.measure = m /\ x.from <= y /\ y <= x.to
      /\ x.from \in Nat /\ x.to \in Nat /\ x.role > 0
  <2>1. x.goal = g /\ x.measure = m /\ x.from <= y /\ y <= x.to
    BY <1>1, <1>2, OneJudge DEF Counts, Covers
  <2>2. x \in MemberRows
    BY DEF IInv, TypeOK
  <2>3. x.role \in Nat
    BY <2>2, GoalAssumption DEF MemberRows
  <2> QED
    BY <1>2, <2>1, <2>2, <2>3, RowNat
<1>4. /\ goal[g].from <= y /\ y <= goal[g].to
      /\ goal[g].from \in Nat /\ goal[g].to \in Nat
  BY ExistingRows, RowNat DEF IInv, Judging, Existing, Covers
<1>5. ASSUME NEW from \in Nat, from <= y
      PROVE  HasHistory(g, from, goal[g].to)
  <2>1. /\ Higher(Higher(goal[g].from, from), x.from) <= y
        /\ y <= Lower(Lower(goal[g].to, goal[g].to), x.to)
    BY <1>1, <1>3, <1>4, <1>5 DEF Higher, Lower
  <2>2. HasResults(m, Higher(Higher(goal[g].from, from), x.from),
                      Lower(Lower(goal[g].to, goal[g].to), x.to))
    BY <2>1 DEF HasResults
  <2> QED
    BY <1>3, <2>2 DEF HasHistory
<1> QED
  BY <1>4, <1>5

LEMMA RuleKept ==
  ASSUME NEW y, Judging(y)' = Judging(y),
         \A h \in Judging(y) : /\ goal'[h].rule = goal[h].rule
                               /\ goal[h].status = "ready" => goal'[h].status = "ready"
  PROVE  /\ RulesOf(y)' = RulesOf(y)
         /\ \A h \in Judging(y) : goal[h].status = "ready" => goal'[h].status = "ready"
BY DEF RulesOf

LEMMA RolesKept ==
  ASSUME NEW m, NEW y,
         \A x \in members : Counts(x, m, y) =>
            \E a \in members' : Counts(a, m, y)' /\ a.role = x.role,
         \A a \in members' : Counts(a, m, y)' =>
            \E x \in members : Counts(x, m, y) /\ a.role = x.role
  PROVE  RolesOf(m, y)' = RolesOf(m, y)
<1>1. RolesOf(m, y)' = {a.role : a \in {a \in members' : Counts(a, m, y)'}}
  BY RolesCounted DEF RolesOf, Counts
<1> QED
  BY <1>1, RolesCounted

(* What a successor version changes: which version judges the years from    *)
(* its own on.                                                              *)
LEMMA SuccessorJudges ==
  ASSUME IInv, NEW g \in Existing, NEW rule \in Rules, NEW status \in Statuses,
         NEW new \in Versions, NEW start \in Years, NEW y \in Nat,
         CreateSuccessorGoal(g, new, start, rule, status)
  PROVE  /\ new # g /\ new \notin Existing /\ start \in Nat
         /\ goal[g].from < start /\ start <= goal[g].to
         /\ goal[g].from \in Nat /\ goal[g].to \in Nat
         /\ goal'[g].rule = goal[g].rule /\ goal'[g].status = goal[g].status
         /\ \A h \in Existing \ {g} : goal'[h] = goal[h]
         /\ \A h \in Existing \ {g} : h \in Judging(y)' <=> h \in Judging(y)
         /\ g \in Judging(y)' <=> g \in Judging(y) /\ y < start
         /\ new \in Judging(y)' <=> g \in Judging(y) /\ start <= y
         /\ Judging(y)' \subseteq Existing \cup {new}
<1>1. /\ goal[new] = Absent /\ new \notin Existing /\ new # g
      /\ goal[g].from < start /\ start <= goal[g].to
  BY DEF CreateSuccessorGoal, Existing
<1>2. /\ g \in Versions /\ goal[g] \in GoalRows /\ start \in Nat
      /\ goal[g].from \in Nat /\ goal[g].to \in Nat
      /\ goal \in [Versions -> GoalRows \cup {Absent}]
  BY ExistingRows, RowNat, YearsAreNatural DEF IInv, TypeOK, Existing
<1>3. /\ goal'[g] = [goal[g] EXCEPT !.to = start - 1]
      /\ goal'[new] = Version(start, goal[g].to, rule, status)
      /\ \A h \in Versions \ {g, new} : goal'[h] = goal[h]
  <2>1. goal' = [[goal EXCEPT ![g] = [goal[g] EXCEPT !.to = start - 1]]
                   EXCEPT ![new] = Version(start, goal[g].to, rule, status)]
    BY <1>1, <1>2 DEF CreateSuccessorGoal, PredecessorEnd
  <2> QED
    BY <1>1, <1>2, <2>1
<1>4. /\ goal'[g].from = goal[g].from /\ goal'[g].to = start - 1
      /\ goal'[g].rule = goal[g].rule /\ goal'[g].status = goal[g].status
      /\ goal'[new].from = start /\ goal'[new].to = goal[g].to
      /\ goal'[g] # Absent /\ goal'[new] # Absent
  BY <1>2, <1>3 DEF GoalRows, Version, Absent
<1>5. Existing' = Existing \cup {new}
  BY <1>2, <1>3, <1>4 DEF Existing
<1>6. \A h \in Existing \ {g} : goal'[h] = goal[h]
  BY <1>1, <1>3 DEF Existing
<1>7. \A h \in Existing \ {g} : h \in Judging(y)' <=> h \in Judging(y)
  BY <1>5, <1>6 DEF Judging
<1>8. g \in Judging(y)' <=> g \in Judging(y) /\ y < start
  BY <1>1, <1>2, <1>4, <1>5 DEF Judging, Covers
<1>9. new \in Judging(y)' <=> g \in Judging(y) /\ start <= y
  BY <1>1, <1>2, <1>4, <1>5 DEF Judging, Covers
<1>10. Judging(y)' \subseteq Existing \cup {new}
  BY <1>5 DEF Judging
<1> QED
  BY <1>1, <1>2, <1>4, <1>6, <1>7, <1>8, <1>9, <1>10

(* Versioning the Goal: the memberships that count in a year are those of   *)
(* before, as rows of the version that judges the year now.                 *)
LEMMA SuccessorKeepsRoles ==
  ASSUME IInv, NEW g \in Existing, NEW rule \in Rules, NEW status \in Statuses,
         NEW new \in Versions, NEW start \in Years, NEW y \in Nat, NEW m,
         CreateSuccessorGoal(g, new, start, rule, status)
  PROVE  RolesOf(m, y)' = RolesOf(m, y)
<1>1. /\ new # g /\ new \notin Existing /\ start \in Nat
      /\ goal[g].from < start /\ start <= goal[g].to
      /\ goal[g].from \in Nat /\ goal[g].to \in Nat
      /\ \A h \in Existing \ {g} : h \in Judging(y)' <=> h \in Judging(y)
      /\ g \in Judging(y)' <=> g \in Judging(y) /\ y < start
      /\ new \in Judging(y)' <=> g \in Judging(y) /\ start <= y
  BY SuccessorJudges
<1>2. members' = Cut(g, start) \cup Inherited(g, new, start)
  BY DEF CreateSuccessorGoal
<1>3. \A x \in members : x \in MemberRows /\ x.from \in Nat /\ x.to \in Nat
                         /\ x.from <= x.to /\ x.goal \in Existing
  BY RowNat DEF IInv, TypeOK, RowsInPlan, InPlan, MembersKnown
<1>4. \A x \in members :
        LET a == CutRow(g, start, x)
        IN  /\ a.goal = x.goal /\ a.measure = x.measure /\ a.role = x.role
            /\ a.from = x.from
            /\ a.to = IF x \in Carried(g, start) /\ x.from < start THEN start - 1 ELSE x.to
  BY <1>3 DEF CutRow, MemberRows
<1>5. \A x \in members :
        LET a == CarriedRow(g, new, start, x)
        IN  /\ a.goal = new /\ a.measure = x.measure /\ a.role = x.role
            /\ a.from = Higher(start, x.from) /\ a.to = Lower(goal[g].to, x.to)
  BY <1>3 DEF CarriedRow, MemberRows
<1>6. g \in Judging(y) => y <= goal[g].to
  BY DEF Judging, Covers
<1>7. ASSUME NEW x \in members, Counts(x, m, y)
      PROVE  \E a \in members' : Counts(a, m, y)' /\ a.role = x.role
  <2>1. /\ x.measure = m /\ x.from <= y /\ y <= x.to /\ x.goal \in Judging(y)
        /\ x.goal \in Existing
    BY <1>3, <1>7 DEF Counts, Covers
  <2>2. CASE x.goal # g \/ y < start
    <3>1. PICK a \in members' : a = CutRow(g, start, x)
      BY <1>2 DEF Cut, CutRow
    <3>2. /\ a.goal = x.goal /\ a.measure = x.measure /\ a.role = x.role
          /\ a.from = x.from
          /\ a.to = IF x \in Carried(g, start) /\ x.from < start THEN start - 1 ELSE x.to
      BY <1>4, <3>1
    <3>3. a.goal \in Judging(y)'
      BY <1>1, <2>1, <2>2, <3>2
    <3>4. y <= a.to
      BY <1>1, <1>3, <2>1, <2>2, <3>2 DEF Carried
    <3>5. Counts(a, m, y)'
      BY <2>1, <3>2, <3>3, <3>4 DEF Counts, Covers
    <3> QED
      BY <3>1, <3>2, <3>5
  <2>3. CASE x.goal = g /\ start <= y
    <3>1. x \in Carried(g, start)
      BY <1>1, <1>3, <1>6, <2>1, <2>3 DEF Carried, Meets
    <3>2. PICK a \in members' : a = CarriedRow(g, new, start, x)
      BY <1>2, <3>1 DEF Inherited, CarriedRow
    <3>3. /\ a.goal = new /\ a.measure = x.measure /\ a.role = x.role
          /\ a.from = Higher(start, x.from) /\ a.to = Lower(goal[g].to, x.to)
      BY <1>5, <3>2
    <3>4. a.from <= y /\ y <= a.to
      BY <1>1, <1>3, <1>6, <2>1, <2>3, <3>3 DEF Higher, Lower
    <3>5. a.goal \in Judging(y)'
      BY <1>1, <2>1, <2>3, <3>3
    <3>6. Counts(a, m, y)'
      BY <2>1, <3>3, <3>4, <3>5 DEF Counts, Covers
    <3> QED
      BY <3>2, <3>3, <3>6
  <2> QED
    BY <1>1, <2>2, <2>3
<1>8. ASSUME NEW a \in members', Counts(a, m, y)'
      PROVE  \E x \in members : Counts(x, m, y) /\ a.role = x.role
  <2>1. a.measure = m /\ a.from <= y /\ y <= a.to /\ a.goal \in Judging(y)'
    BY <1>8 DEF Counts, Covers
  <2>2. CASE a \in Cut(g, start)
    <3>1. PICK x \in members : a = CutRow(g, start, x)
      BY <2>2 DEF Cut, CutRow
    <3>2. /\ a.goal = x.goal /\ a.measure = x.measure /\ a.role = x.role
          /\ a.from = x.from
          /\ a.to = IF x \in Carried(g, start) /\ x.from < start THEN start - 1 ELSE x.to
      BY <1>4, <3>1
    <3>3. x.goal \in Judging(y)
      BY <1>1, <1>3, <2>1, <3>2
    <3>4. a.to <= x.to
      BY <1>1, <1>3, <3>2 DEF Carried, Meets
    <3>5. a.to \in Int /\ x.to \in Nat /\ x.from <= y /\ y <= x.to
      BY <1>1, <1>3, <2>1, <3>2, <3>4
    <3> QED
      BY <2>1, <3>2, <3>3, <3>5 DEF Counts, Covers
  <2>3. CASE a \in Inherited(g, new, start)
    <3>1. PICK x \in Carried(g, start) : a = CarriedRow(g, new, start, x)
      BY <2>3 DEF Inherited, CarriedRow
    <3>2. x \in members /\ x.goal = g
      BY DEF Carried
    <3>3. /\ a.goal = new /\ a.measure = x.measure /\ a.role = x.role
          /\ a.from = Higher(start, x.from) /\ a.to = Lower(goal[g].to, x.to)
      BY <1>5, <3>1, <3>2
    <3>4. x.from <= y /\ y <= x.to
      BY <1>1, <1>3, <2>1, <3>2, <3>3 DEF Higher, Lower
    <3>5. x.goal \in Judging(y)
      BY <1>1, <2>1, <3>2, <3>3
    <3> QED
      BY <2>1, <3>2, <3>3, <3>4, <3>5 DEF Counts, Covers
  <2> QED
    BY <1>2, <2>2, <2>3
<1> QED
  BY <1>7, <1>8, RolesKept

(* What is outside of the plan's new years is judged by what it was.        *)
LEMMA MovedCovers ==
  ASSUME NEW row, NEW new, NEW start \in Nat, NEW end \in Nat, NEW y \in Nat, InPlan(row),
         {row.from, row.to, plan.start, plan.end} \subseteq Nat,
         start <= plan.start, plan.end <= end, plan.start <= y, y <= plan.end,
         Moved(new, row, start, end)
  PROVE  Covers(new, y) <=> Covers(row, y)
BY DEF InPlan, Moved, Covers

LEMMA RangeKeepsJudging ==
  ASSUME ~Narrowing, IInv, NEW start \in Years, NEW end \in Years, NEW y \in Nat,
         Judging(y) # {}, ChangePlanRange(start, end)
  PROVE  /\ plan.start <= y /\ y <= plan.end
         /\ Judging(y)' = Judging(y)
         /\ \A h \in Existing : /\ goal'[h].rule = goal[h].rule
                                /\ goal'[h].status = goal[h].status
<1>1. /\ TypeOK /\ start \in Nat /\ end \in Nat
      /\ start <= plan.start /\ plan.end <= end
      /\ plan.start \in Nat /\ plan.end \in Nat
  BY YearsAreNatural, RowNat DEF IInv, TypeOK, ChangePlanRange
<1>2. \A h \in Existing : /\ h \in Versions /\ goal[h] \in GoalRows
                          /\ goal[h].from \in Nat /\ goal[h].to \in Nat /\ InPlan(goal[h])
  BY <1>1, ExistingRows, RowNat DEF IInv, RowsInPlan, Existing
<1>3. plan.start <= y /\ y <= plan.end
  <2>1. PICK h \in Existing : Covers(goal[h], y)
    BY DEF Judging
  <2> QED
    BY <1>1, <1>2, <2>1 DEF InPlan, Covers
<1>4. \A h \in Existing :
        goal'[h] = IF Live(h) THEN Stretched(goal[h], start, end) ELSE goal[h]
  BY <1>2 DEF ChangePlanRange
<1>5. \A h \in Existing : /\ goal'[h].rule = goal[h].rule
                          /\ goal'[h].status = goal[h].status
                          /\ Moved(goal'[h], goal[h], start, end)
  <2>1. \A row \in GoalRows : /\ Stretched(row, start, end).rule = row.rule
                              /\ Stretched(row, start, end).status = row.status
    BY DEF Stretched, GoalRows
  <2>2. \A row \in GoalRows : Moved(Stretched(row, start, end), row, start, end)
    BY <1>1, StretchMoves
  <2> QED
    BY <1>2, <1>4, <2>1, <2>2 DEF Moved
<1>6. Existing' = Existing
  <2>1. \A h \in Existing : goal'[h] # Absent
    BY <1>2, <1>4, StretchedTyped DEF GoalRows, Absent
  <2>2. \A h \in Versions \ Existing : goal'[h] = Absent
    BY <1>1, ExistingRows DEF ChangePlanRange, Existing
  <2> QED
    BY <2>1, <2>2 DEF Existing
<1>7. \A h \in Existing : Covers(goal'[h], y) <=> Covers(goal[h], y)
  BY <1>1, <1>2, <1>3, <1>5, MovedCovers
<1>8. Judging(y)' = Judging(y)
  BY <1>6, <1>7 DEF Judging
<1> QED
  BY <1>3, <1>5, <1>8

LEMMA RangeKeepsRoles ==
  ASSUME ~Narrowing, IInv, NEW start \in Years, NEW end \in Years, NEW y \in Nat, NEW m,
         Judging(y) # {}, ChangePlanRange(start, end)
  PROVE  RolesOf(m, y)' = RolesOf(m, y)
<1>1. /\ TypeOK /\ start \in Nat /\ end \in Nat
      /\ start <= plan.start /\ plan.end <= end
      /\ plan.start \in Nat /\ plan.end \in Nat
  BY YearsAreNatural, RowNat DEF IInv, TypeOK, ChangePlanRange
<1>2. plan.start <= y /\ y <= plan.end /\ Judging(y)' = Judging(y)
  BY RangeKeepsJudging
<1>3. \A x \in members :
        LET a == StretchedMember(x, start, end)
        IN  /\ a.goal = x.goal /\ a.measure = x.measure /\ a.role = x.role
            /\ Covers(a, y) <=> Covers(x, y)
  <2> SUFFICES ASSUME NEW x \in members
               PROVE  LET a == StretchedMember(x, start, end)
                      IN  /\ a.goal = x.goal /\ a.measure = x.measure /\ a.role = x.role
                          /\ Covers(a, y) <=> Covers(x, y)
    OBVIOUS
  <2> DEFINE a == StretchedMember(x, start, end)
  <2>1. x \in MemberRows /\ x.from \in Nat /\ x.to \in Nat /\ InPlan(x)
    BY <1>1, RowNat DEF TypeOK, IInv, RowsInPlan
  <2>2. a.goal = x.goal /\ a.measure = x.measure /\ a.role = x.role
    BY <2>1 DEF StretchedMember, MemberRows
  <2>3. Moved(a, x, start, end)
    BY <1>1, StretchMoves
  <2> HIDE DEF a
  <2>4. Covers(a, y) <=> Covers(x, y)
    BY <1>1, <1>2, <2>1, <2>3, MovedCovers
  <2> QED
    BY <2>2, <2>4 DEF a
<1>4. members' = {StretchedMember(x, start, end) : x \in members}
  BY StretchedMembers DEF ChangePlanRange
<1>5. \A x \in members : Counts(x, m, y) =>
        \E a \in members' : Counts(a, m, y)' /\ a.role = x.role
  <2> SUFFICES ASSUME NEW x \in members, Counts(x, m, y)
               PROVE  \E a \in members' : Counts(a, m, y)' /\ a.role = x.role
    OBVIOUS
  <2>1. PICK a \in members' : a = StretchedMember(x, start, end)
    BY <1>4
  <2>2. Counts(a, m, y)' /\ a.role = x.role
    BY <1>2, <1>3, <2>1 DEF Counts, Covers
  <2> QED
    BY <2>2
<1>6. \A a \in members' : Counts(a, m, y)' =>
        \E x \in members : Counts(x, m, y) /\ a.role = x.role
  <2> SUFFICES ASSUME NEW a \in members', Counts(a, m, y)'
               PROVE  \E x \in members : Counts(x, m, y) /\ a.role = x.role
    OBVIOUS
  <2>1. PICK x \in members : a = StretchedMember(x, start, end)
    BY <1>4
  <2>2. Counts(x, m, y) /\ a.role = x.role
    BY <1>2, <1>3, <2>1 DEF Counts, Covers
  <2> QED
    BY <2>2
<1> QED
  BY <1>5, <1>6, RolesKept

(* Who judges a year changes by the versions only.                          *)
LEMMA JudgingKept ==
  ASSUME NEW y, Existing' = Existing,
         \A h \in Existing : goal'[h].from = goal[h].from /\ goal'[h].to = goal[h].to
  PROVE  Judging(y)' = Judging(y)
BY DEF Judging, Covers

(* Where the memberships stay, so do the roles.                             *)
LEMMA SameRowsSameRoles ==
  ASSUME NEW m, NEW y, members' = members, Judging(y)' = Judging(y)
  PROVE  RolesOf(m, y)' = RolesOf(m, y)
BY DEF RolesOf

(* The Goal's own changes, other than a successor.                          *)
LEMMA GoalRowChanged ==
  ASSUME IInv, NEW g \in Existing, NEW y,
         \/ \E rule \in Rules, status \in Statuses : UpdateGoal(g, rule, status)
         \/ ArchiveGoal(g)
         \/ RestoreGoal(g)
  PROVE  /\ Judging(y)' = Judging(y) /\ members' = members
         /\ \A h \in Existing \ {g} : goal'[h] = goal[h]
         /\ ArchiveGoal(g) \/ RestoreGoal(g) =>
              goal'[g].rule = goal[g].rule /\ goal'[g].status = goal[g].status
<1>1. /\ g \in Versions /\ goal[g] \in GoalRows
      /\ goal \in [Versions -> GoalRows \cup {Absent}]
  BY ExistingRows DEF IInv, TypeOK, Existing
<1>2. /\ \A h \in Versions \ {g} : goal'[h] = goal[h]
      /\ goal'[g].from = goal[g].from /\ goal'[g].to = goal[g].to
      /\ goal'[g] # Absent
  <2>2. CASE \E rule \in Rules, status \in Statuses : UpdateGoal(g, rule, status)
    <3>1. PICK rule \in Rules, status \in Statuses : UpdateGoal(g, rule, status)
      BY <2>2
    <3>2. goal' = [goal EXCEPT ![g] = [goal[g] EXCEPT !.rule = rule, !.status = status]]
      BY <1>1, <3>1 DEF UpdateGoal
    <3> QED
      BY <1>1, <3>2 DEF GoalRows, Absent
  <2>3. CASE ArchiveGoal(g) \/ RestoreGoal(g)
    BY <1>1, <2>3 DEF ArchiveGoal, RestoreGoal, GoalRows, Absent
  <2> QED
    BY <2>2, <2>3
<1>3. Existing' = Existing
  BY <1>1, <1>2 DEF Existing
<1>4. Judging(y)' = Judging(y)
  BY <1>2, <1>3, JudgingKept DEF Existing
<1>5. ArchiveGoal(g) \/ RestoreGoal(g) =>
        goal'[g].rule = goal[g].rule /\ goal'[g].status = goal[g].status
  BY <1>1 DEF ArchiveGoal, RestoreGoal, GoalRows
<1> QED
  BY <1>2, <1>4, <1>5 DEF Existing, UpdateGoal, ArchiveGoal, RestoreGoal

-----------------------------------------------------------------------------
(* The rules of reported years.                                             *)

LEMMA GoalKeepsRule ==
  ASSUME IInv, GoalStep
  PROVE  KeepsRule
<1>1. PICK g \in Existing :
        \/ \E rule \in Rules, status \in Statuses :
             \/ UpdateGoal(g, rule, status)
             \/ \E new \in Versions, start \in Years :
                  CreateSuccessorGoal(g, new, start, rule, status)
        \/ ArchiveGoal(g)
        \/ RestoreGoal(g)
  BY DEF GoalStep
<1>2. g \in Versions /\ goal[g] \in GoalRows /\ goal \in [Versions -> GoalRows \cup {Absent}]
  BY ExistingRows DEF IInv, TypeOK, Existing
<1> SUFFICES ASSUME NEW y \in Years, NEW m \in Measures, <<m, y>> \in results,
                    RolesOf(m, y) \ {0} # {}
             PROVE  /\ RulesOf(y)' = RulesOf(y)
                    /\ \A h \in Judging(y) :
                         goal[h].status = "ready" => goal'[h].status = "ready"
  BY DEF KeepsRule
<1>3. y \in Nat /\ Judging(y) \subseteq Existing
  BY YearsAreNatural DEF Judging
<1>4. g \in Judging(y) => /\ HasHistory(g, goal[g].from, goal[g].to)
                          /\ \A start \in Nat : start <= y => HasHistory(g, start, goal[g].to)
  BY CountedIsHistory
<1>5. ASSUME NEW rule \in Rules, NEW status \in Statuses, UpdateGoal(g, rule, status)
      PROVE  /\ RulesOf(y)' = RulesOf(y)
             /\ \A h \in Judging(y) : goal[h].status = "ready" => goal'[h].status = "ready"
  <2>1. Judging(y)' = Judging(y) /\ \A h \in Existing \ {g} : goal'[h] = goal[h]
    BY <1>5, GoalRowChanged
  <2>2. goal' = [goal EXCEPT ![g] = [goal[g] EXCEPT !.rule = rule, !.status = status]]
    BY <1>2, <1>5 DEF UpdateGoal
  <2>3. goal'[g].rule = rule /\ goal'[g].status = status
    BY <1>2, <2>2 DEF GoalRows
  <2>4. g \in Judging(y) => /\ goal[g].rule = rule
                            /\ goal[g].status = "ready" => status = "ready"
    BY <1>4, <1>5 DEF UpdateGoal, Reinterprets
  <2>5. \A h \in Judging(y) : /\ goal'[h].rule = goal[h].rule
                              /\ goal[h].status = "ready" => goal'[h].status = "ready"
    BY <1>3, <2>1, <2>3, <2>4
  <2> QED
    BY <2>1, <2>5, RuleKept
<1>6. ASSUME NEW rule \in Rules, NEW status \in Statuses, NEW new \in Versions,
             NEW start \in Years, CreateSuccessorGoal(g, new, start, rule, status)
      PROVE  /\ RulesOf(y)' = RulesOf(y)
             /\ \A h \in Judging(y) : goal[h].status = "ready" => goal'[h].status = "ready"
  <2>1. /\ new \notin Existing /\ start \in Nat
        /\ goal'[g].rule = goal[g].rule /\ goal'[g].status = goal[g].status
        /\ \A h \in Existing \ {g} : goal'[h] = goal[h]
        /\ \A h \in Existing \ {g} : h \in Judging(y)' <=> h \in Judging(y)
        /\ g \in Judging(y)' <=> g \in Judging(y) /\ y < start
        /\ new \in Judging(y)' <=> g \in Judging(y) /\ start <= y
        /\ Judging(y)' \subseteq Existing \cup {new}
    BY <1>3, <1>6, SuccessorJudges
  <2>2. ~HasHistory(g, start, goal[g].to)
    BY <1>6 DEF CreateSuccessorGoal
  <2>3. g \in Judging(y) => y < start
    BY <1>3, <1>4, <2>1, <2>2
  <2>4. Judging(y)' = Judging(y)
    BY <1>3, <2>1, <2>3
  <2>5. \A h \in Judging(y) : /\ goal'[h].rule = goal[h].rule
                              /\ goal[h].status = "ready" => goal'[h].status = "ready"
    BY <1>3, <2>1
  <2> QED
    BY <2>4, <2>5, RuleKept
<1>7. CASE ArchiveGoal(g) \/ RestoreGoal(g)
  <2>1. Judging(y)' = Judging(y)
        /\ \A h \in Existing : goal'[h].rule = goal[h].rule /\ goal'[h].status = goal[h].status
    BY <1>7, GoalRowChanged
  <2>2. \A h \in Judging(y) : /\ goal'[h].rule = goal[h].rule
                              /\ goal[h].status = "ready" => goal'[h].status = "ready"
    BY <1>3, <2>1
  <2> QED
    BY <2>1, <2>2, RuleKept
<1> QED
  BY <1>1, <1>5, <1>6, <1>7

LEMMA RangeKeepsRule ==
  ASSUME ~Narrowing, IInv, NEW start \in Years, NEW end \in Years, ChangePlanRange(start, end)
  PROVE  KeepsRule
<1> SUFFICES ASSUME NEW y \in Years, NEW m \in Measures, RolesOf(m, y) \ {0} # {}
             PROVE  /\ RulesOf(y)' = RulesOf(y)
                    /\ \A h \in Judging(y) :
                         goal[h].status = "ready" => goal'[h].status = "ready"
  BY DEF KeepsRule
<1>1. y \in Nat /\ Judging(y) # {}
  BY YearsAreNatural DEF RolesOf
<1>2. /\ Judging(y)' = Judging(y)
      /\ \A h \in Existing : /\ goal'[h].rule = goal[h].rule
                             /\ goal'[h].status = goal[h].status
  BY <1>1, RangeKeepsJudging
<1>3. \A h \in Judging(y) : /\ goal'[h].rule = goal[h].rule
                            /\ goal[h].status = "ready" => goal'[h].status = "ready"
  BY <1>2 DEF Judging
<1> QED
  BY <1>2, <1>3, RuleKept

LEMMA SameGoalsSameRules ==
  ASSUME goal' = goal
  PROVE  KeepsRule
<1>1. \A y : Judging(y)' = Judging(y)
  BY DEF Judging, Existing
<1> QED
  BY <1>1 DEF KeepsRule, RulesOf

LEMMA RuleStep ==
  ASSUME ~Narrowing, IInv, [Next]_vars
  PROVE  KeepsRule
<1>1. MemberStep => goal' = goal
  BY DEF MemberStep, UpdateMembership, CreateSuccessorMembership
<1>2. MeasureStep => goal' = goal
  BY DEF MeasureStep, CreateMeasure, ArchiveOrRestoreMeasure, EnterResult
<1>3. ArchiveOrRestorePriority \/ (\E r \in results : DeleteResult(r)) \/ UNCHANGED vars
        => goal' = goal
  BY DEF ArchiveOrRestorePriority, DeleteResult, vars
<1> QED
  BY <1>1, <1>2, <1>3, GoalKeepsRule, RangeKeepsRule, SameGoalsSameRules DEF Next

-----------------------------------------------------------------------------
(* What the Measures of a reported year count for.                          *)

LEMMA GoalKeepsRole ==
  ASSUME IInv, GoalStep, NEW m \in Measures, NEW y \in Years
  PROVE  RolesOf(m, y)' = RolesOf(m, y)
<1>1. PICK g \in Existing :
        \/ \E rule \in Rules, status \in Statuses :
             \/ UpdateGoal(g, rule, status)
             \/ \E new \in Versions, start \in Years :
                  CreateSuccessorGoal(g, new, start, rule, status)
        \/ ArchiveGoal(g)
        \/ RestoreGoal(g)
  BY DEF GoalStep
<1>2. ASSUME NEW rule \in Rules, NEW status \in Statuses, NEW new \in Versions,
             NEW start \in Years, CreateSuccessorGoal(g, new, start, rule, status)
      PROVE  RolesOf(m, y)' = RolesOf(m, y)
  BY <1>2, YearsAreNatural, SuccessorKeepsRoles
<1>3. CASE \/ \E rule \in Rules, status \in Statuses : UpdateGoal(g, rule, status)
           \/ ArchiveGoal(g)
           \/ RestoreGoal(g)
  BY <1>3, GoalRowChanged, SameRowsSameRoles
<1> QED
  BY <1>1, <1>2, <1>3

(* A membership that counts in a reported year is not the one that changes. *)
LEMMA CountedIsMemberHistory ==
  ASSUME IInv, NEW m \in Measures, NEW y \in Years, <<m, y>> \in results,
         NEW x \in members, Counts(x, m, y)
  PROVE  \A from \in Nat : from <= y => MemberHasHistory(x, from)
<1>1. /\ x.measure = m /\ x.from <= y /\ y <= x.to /\ x.goal \in Existing
      /\ goal[x.goal].from <= y /\ y <= goal[x.goal].to
  BY DEF Counts, Covers, Judging
<1>2. /\ y \in Nat /\ x.from \in Nat /\ x.to \in Nat
      /\ goal[x.goal].from \in Nat /\ goal[x.goal].to \in Nat
  BY <1>1, YearsAreNatural, ExistingRows, RowNat DEF IInv, TypeOK, Existing
<1>3. ASSUME NEW from \in Nat, from <= y PROVE MemberHasHistory(x, from)
  <2>1. /\ Higher(from, goal[x.goal].from) <= y
        /\ y <= Lower(x.to, goal[x.goal].to)
    BY <1>1, <1>2, <1>3 DEF Higher, Lower
  <2> QED
    BY <1>1, <2>1 DEF MemberHasHistory, HasResults
<1> QED
  BY <1>3

LEMMA MemberKeepsRole ==
  ASSUME IInv, MemberStep, NEW m \in Measures, NEW y \in Years, <<m, y>> \in results
  PROVE  RolesOf(m, y)' = RolesOf(m, y)
<1>1. PICK x \in members, role \in Roles :
        \/ UpdateMembership(x, role)
        \/ \E start \in Years : CreateSuccessorMembership(x, start, role)
  BY DEF MemberStep
<1>2. goal' = goal /\ Judging(y)' = Judging(y)
  BY <1>1 DEF UpdateMembership, CreateSuccessorMembership, Judging, Existing
<1>3. x \in MemberRows /\ x.from \in Nat /\ x.to \in Nat /\ y \in Nat
  BY YearsAreNatural, RowNat DEF IInv, TypeOK
<1>4. \A a : Counts(a, m, y)' <=> Counts(a, m, y)
  BY <1>2 DEF Counts, Covers
<1>5. CASE UpdateMembership(x, role)
  <2>1. PICK a : a = [x EXCEPT !.role = role]
    OBVIOUS
  <2>2. a.measure = x.measure /\ a.goal = x.goal /\ a.from = x.from /\ a.to = x.to
    BY <1>3, <2>1 DEF MemberRows
  <2>3. members' = (members \ {x}) \cup {a}
    BY <1>5, <2>1 DEF UpdateMembership
  <2>4. ~Counts(x, m, y)
    <3>1. ~MemberHasHistory(x, x.from)
      BY <1>5 DEF UpdateMembership
    <3> QED
      BY <1>3, <3>1, CountedIsMemberHistory DEF Counts, Covers
  <2>5. ~Counts(a, m, y)
    BY <2>2, <2>4 DEF Counts, Covers
  <2> QED
    BY <1>4, <2>3, <2>4, <2>5, RolesKept
<1>6. ASSUME NEW start \in Years, CreateSuccessorMembership(x, start, role)
      PROVE  RolesOf(m, y)' = RolesOf(m, y)
  <2>1. PICK a, b : a = [x EXCEPT !.to = start - 1]
                    /\ b = [x EXCEPT !.from = start, !.role = role]
    OBVIOUS
  <2>2. /\ a.measure = x.measure /\ a.goal = x.goal /\ a.role = x.role
        /\ a.from = x.from /\ a.to = start - 1
        /\ b.measure = x.measure /\ b.goal = x.goal /\ b.from = start /\ b.to = x.to
    BY <1>3, <2>1 DEF MemberRows
  <2>3. members' = (members \ {x}) \cup {a, b}
    BY <1>6, <2>1 DEF CreateSuccessorMembership, Split
  <2>4. start \in Nat /\ x.from < start /\ start <= x.to
    BY <1>6, YearsAreNatural DEF CreateSuccessorMembership
  <2>5. Counts(x, m, y) => y < start
    <3>1. ~MemberHasHistory(x, start)
      BY <1>6 DEF CreateSuccessorMembership
    <3> QED
      BY <1>3, <2>4, <3>1, CountedIsMemberHistory
  <2>6. Counts(a, m, y) <=> Counts(x, m, y)
    BY <1>3, <2>2, <2>4, <2>5 DEF Counts, Covers
  <2>7. ~Counts(b, m, y)
    BY <1>3, <2>2, <2>4, <2>5 DEF Counts, Covers
  <2>8. \A z \in members : Counts(z, m, y) =>
          \E c \in members' : Counts(c, m, y)' /\ c.role = z.role
    BY <1>4, <2>2, <2>3, <2>6
  <2>9. \A c \in members' : Counts(c, m, y)' =>
          \E z \in members : Counts(z, m, y) /\ c.role = z.role
    BY <1>4, <2>2, <2>3, <2>6, <2>7
  <2> QED
    BY <2>8, <2>9, RolesKept
<1> QED
  BY <1>1, <1>5, <1>6

LEMMA MeasureKeepsRole ==
  ASSUME IInv, MeasureStep, NEW m \in Measures, NEW y \in Years, RolesOf(m, y) # {}
  PROVE  RolesOf(m, y)' = RolesOf(m, y)
<1>1. PICK k \in Measures :
        \/ \E g \in Existing, from \in Years : CreateMeasure(k, g, from)
        \/ ArchiveOrRestoreMeasure(k)
        \/ \E z \in Years : EnterResult(k, z)
  BY DEF MeasureStep
<1>2. goal' = goal /\ Judging(y)' = Judging(y)
  BY <1>1 DEF CreateMeasure, ArchiveOrRestoreMeasure, EnterResult, Judging, Existing
<1>3. ASSUME NEW g \in Existing, NEW from \in Years, CreateMeasure(k, g, from)
      PROVE  RolesOf(m, y)' = RolesOf(m, y)
  <2>1. PICK x \in members : x.measure = m
    BY DEF RolesOf
  <2>2. measure[m] # "absent"
    BY <2>1 DEF IInv, MembersKnown
  <2>3. k # m
    BY <1>3, <2>2 DEF CreateMeasure
  <2>4. PICK a : a = Member(g, k, from, goal[g].to, 1)
    OBVIOUS
  <2>5. members' = members \cup {a} /\ a.measure = k
    BY <1>3, <2>4 DEF CreateMeasure, Member
  <2>6. \A b : Counts(b, m, y)' <=> Counts(b, m, y)
    BY <1>2 DEF Counts, Covers
  <2>7. ~Counts(a, m, y)
    BY <2>3, <2>5 DEF Counts
  <2> QED
    BY <2>5, <2>6, <2>7, RolesKept
<1>4. CASE ArchiveOrRestoreMeasure(k) \/ \E z \in Years : EnterResult(k, z)
  <2>1. members' = members
    BY <1>4 DEF ArchiveOrRestoreMeasure, EnterResult
  <2> QED
    BY <1>2, <2>1, SameRowsSameRoles
<1> QED
  BY <1>1, <1>3, <1>4

LEMMA RoleStep ==
  ASSUME ~Narrowing, IInv, [Next]_vars
  PROVE  KeepsRole
<1> SUFFICES ASSUME NEW m \in Measures, NEW y \in Years, <<m, y>> \in results,
                    RolesOf(m, y) # {}
             PROVE  RolesOf(m, y)' = RolesOf(m, y)
  <2>1. \A r \in results : r = <<r[1], r[2]>> /\ r[1] \in Measures /\ r[2] \in Years
    BY DEF IInv, TypeOK
  <2> QED
    BY <2>1 DEF KeepsRole
<1>1. CASE ArchiveOrRestorePriority \/ (\E r \in results : DeleteResult(r)) \/ UNCHANGED vars
  <2>1. goal' = goal /\ members' = members
    BY <1>1 DEF ArchiveOrRestorePriority, DeleteResult, vars
  <2>2. Judging(y)' = Judging(y)
    BY <2>1 DEF Judging, Existing
  <2> QED
    BY <2>1, <2>2, SameRowsSameRoles
<1>2. ASSUME NEW start \in Years, NEW end \in Years, ChangePlanRange(start, end)
      PROVE  RolesOf(m, y)' = RolesOf(m, y)
  <2>1. y \in Nat /\ Judging(y) # {}
    BY YearsAreNatural DEF RolesOf
  <2> QED
    BY <1>2, <2>1, RangeKeepsRoles
<1> QED
  BY <1>1, <1>2, GoalKeepsRole, MemberKeepsRole, MeasureKeepsRole DEF Next

(* A year with results stays judged by the rule they were recorded under,   *)
(* a rule in use stays in use, and every Measure with a result in a year    *)
(* keeps what it counts for in it - through revisions, successors,          *)
(* archived versions that come back and years added to the plan             *)
(* (configuration-editing.ts, hasPriorityGoalHistoryInRange).               *)
THEOREM ReportedYearsAlwaysStand ==
  ASSUME ~Narrowing
  PROVE  Spec => ReportedYearsStand
<1>1. IInv /\ [Next]_vars => [KeepsRule]_vars
  BY RuleStep
<1>2. IInv /\ [Next]_vars => [KeepsRole]_vars
  BY RoleStep
<1>3. IInv /\ [Next]_vars => IInv'
  BY CountStep
<1> QED
  BY <1>1, <1>2, <1>3, CountInit, PTL
     DEF Spec, ReportedYearsStand, ReportedYearsKeepRule, ReportedMeasuresKeepRole,
         KeepsRule, KeepsRole

(* Versioning the Goal takes its memberships along: in every year of the    *)
(* plan the same Measures count for the same before and after, whichever    *)
(* version has the year (createSuccessorStrategicGoal).                     *)
THEOREM MembersAlwaysFollow ==
  ASSUME ~Narrowing
  PROVE  Spec => MembersFollow
<1> DEFINE Follow == Existing' # Existing =>
             \A m \in Measures, y \in plan.start .. plan.end :
               RolesOf(m, y)' = RolesOf(m, y)
<1>1. IInv /\ [Next]_vars => [Follow]_vars
  <2> SUFFICES ASSUME IInv, [Next]_vars, Existing' # Existing,
                      NEW m \in Measures, NEW y \in plan.start .. plan.end
               PROVE  RolesOf(m, y)' = RolesOf(m, y)
    OBVIOUS
  <2>1. y \in Years
    <3>1. plan.start \in Years /\ plan.end \in Years
      BY DEF IInv, TypeOK, PlanRanges
    <3> QED
      BY <3>1, YearsAreNatural, GoalAssumption DEF Years
  <2>2. CASE GoalStep
    BY <2>1, <2>2, GoalKeepsRole
  <2>3. CASE \E start, end \in Years : ChangePlanRange(start, end)
    <3>1. PICK start \in Years, end \in Years : ChangePlanRange(start, end)
      BY <2>3
    <3>2. \A h \in Existing : goal'[h] # Absent
      BY <3>1, ExistingRows, StretchedTyped
         DEF IInv, ChangePlanRange, Existing, GoalRows, Absent
    <3>3. \A h \in Versions \ Existing : goal'[h] = Absent
      BY <3>1, ExistingRows DEF IInv, ChangePlanRange, Existing
    <3> QED
      BY <3>2, <3>3 DEF Existing
  <2>4. CASE \/ MemberStep \/ MeasureStep \/ ArchiveOrRestorePriority
             \/ (\E r \in results : DeleteResult(r)) \/ UNCHANGED vars
    BY <2>4 DEF MemberStep, UpdateMembership, CreateSuccessorMembership, MeasureStep,
                CreateMeasure, ArchiveOrRestoreMeasure, EnterResult,
                ArchiveOrRestorePriority, DeleteResult, vars, Existing
  <2> QED
    BY <2>2, <2>3, <2>4 DEF Next
<1>2. IInv /\ [Next]_vars => IInv'
  BY CountStep
<1> QED
  BY <1>1, <1>2, CountInit, PTL DEF Spec, MembersFollow
=============================================================================
