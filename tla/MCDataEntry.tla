---------------------------- MODULE MCDataEntry ----------------------------
(* Small instances of Data Entry: Measures of every type that takes one     *)
(* input, Measures of two components under each aggregation, with and       *)
(* without targets, the Goals of a Measure and its peers, and a distribution *)
(* over two bands.                                                          *)
EXTENDS DataEntryLaws

MCNumbers ==
  [count |-> {Null, -1, 0, 1, 3}, cumulative |-> {0, 1, 3}, currency |-> {-1, 2, 9000},
   percentage |-> {Null, 0, 1, 3}, ratio |-> {Null, 0, 1, 3}, average |-> {Null, 0, 2, 3},
   year_over_year |-> {-1, 0, 2}, binary |-> {Null, 0, 1}, milestone |-> {-1, 0, 50, 100},
   multi_component |-> {}]

MCMaxStored ==
  [t \in DOMAIN MCNumbers |->
     CASE t = "average" -> 1 [] t \in {"count", "multi_component"} -> 3 [] OTHER -> 2]

MCPlanYears == {2, 3}
MCEntryIndexes == {1, 4}
MCViewedMonths == {1, 12}

Target(id, scope, year, value) ==
  [id |-> id, scope |-> scope, year |-> year, targetYear |-> year, archived |-> FALSE,
   status |-> "active", value |-> value, structured |-> Null, completed |-> Null,
   described |-> TRUE, baseline |-> Null]

Plain(type, frequency) ==
  [type |-> type, frequency |-> frequency, fixed |-> Null, allowOver |-> FALSE,
   percents |-> FALSE, status |-> "active", baseline |-> Null, direction |-> "higher",
   targets |-> {}, method |-> Null, components |-> <<>>, unit |-> Null]

Targeted(m, from, to, direction) ==
  [m EXCEPT !.baseline = from, !.direction = direction,
            !.targets = {Target(1, "annual", 2, to), Target(2, "full_plan", 3, to)}]

Component(id, type, frequency, goal) ==
  [id |-> id, type |-> type, unit |-> "count", role |-> "value", weight |-> 1,
   frequency |-> frequency, fixed |-> Null, allowOver |-> FALSE, percents |-> FALSE,
   status |-> "active", baseline |-> Null, previous |-> Null,
   targets |-> IF goal = Null THEN {} ELSE {Target(id, "annual", 2, goal)}]

Parts(method, goal) ==
  [Plain("multi_component", "monthly") EXCEPT !.method = method,
     !.components = <<Component(1, "count", "monthly", goal),
                      Component(2, "count", "monthly", goal)>>]

Singles ==
  {Targeted(Plain("count", "monthly"), 1, 3, "higher"),
   Targeted(Plain("count", "monthly"), 3, 1, "lower"),
   Targeted(Plain("count", "quarterly"), Null, 3, "higher"),
   [Plain("count", "monthly") EXCEPT !.status = "needs_target"],
   Plain("currency", "flexible"),
   Targeted(Plain("cumulative", "annual"), Null, 3, "higher"),
   Targeted(Plain("milestone", "annual"), Null, 100, "higher"),
   Targeted(Plain("binary", "one_time"), Null, 1, "higher"),
   [Plain("percentage", "annual") EXCEPT !.percents = TRUE],
   [Plain("percentage", "quarterly") EXCEPT !.percents = TRUE, !.fixed = 1],
   Targeted(Plain("ratio", "annual"), Null, 2, "higher"),
   Plain("average", "annual"),
   Targeted([Plain("average", "one_time") EXCEPT !.allowOver = TRUE], Null, 90, "higher"),
   [Plain("year_over_year", "annual") EXCEPT !.baseline = 1]}

MCMeasures ==
  {Plain("distribution", "annual")} \cup Singles
    \cup {Parts(method, 3) : method \in {"none", "sum", "average", "all_complete"}}
    \cup {Parts("sum", Null), Parts("all_complete", Null)}

Rule(type, percentage, count, manual) ==
  [type |-> type, percentage |-> percentage, count |-> count, manual |-> manual]

MCRules ==
  {Rule("all_required_kpis", Null, Null, Null), Rule("threshold_count", 100, Null, Null),
   Rule("threshold_count", Null, 1, Null), Rule("weighted_average", 80, Null, Null),
   Rule("manual_status", Null, Null, Null), Rule("manual_status", Null, Null, FALSE)}

Peer(current, target, status) ==
  [informational |-> FALSE, status |-> status, weight |-> 1,
   asked |-> [current |-> current, target |-> target, baseline |-> Null,
              direction |-> "higher", status |-> status]]

(* None, one that is done, one behind, one without a result; one without a  *)
(* target, one behind for information only, an archived one.                *)
MCPeers ==
  {<<>>, <<Peer(3, 3, "active")>>, <<Peer(2, 3, "active")>>, <<Peer(Null, 3, "active")>>,
   <<Peer(2, Null, "needs_target"), Peer(3, 3, "active")>>,
   <<[Peer(2, 3, "active") EXCEPT !.informational = TRUE]>>,
   <<[Peer(2, 3, "archived") EXCEPT !.asked = Null]>>}

(* Definitions of two slugs, each under a label of its own.                 *)
BandDefinitions(labels, orders, classes) ==
  {[slug |-> l[1], label |-> l[2], order |-> o, class |-> c, from |-> y, to |-> z] :
     l \in labels, o \in orders, c \in classes, y \in PlanYears, z \in {3, Onward}}

OwnLabels ==
  BandDefinitions({<<1, 1>>}, {0}, {"non_white", "other"})
    \cup BandDefinitions({<<2, 2>>}, {0}, {"other"})

MCBandSymmetry == Permutations(Bands)

=============================================================================
