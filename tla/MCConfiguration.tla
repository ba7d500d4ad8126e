---------------------------- MODULE MCConfiguration ----------------------------
(***************************************************************************)
(* Instances of MeasureHistory and of BoardEditor for TLC.  The two share  *)
(* no state (Catalog keeps whether a Measure has definitions, not which),  *)
(* so a behaviour is one of either part while the other stands still.      *)
(***************************************************************************)
EXTENDS MeasureHistory, BoardEditor, TLC

CONSTANTS p1, p2, q, k1, k2

VARIABLE part

\* "share" can be read as a percentage or as a count, "amount" as a count only.
MCReadable == {<<"share", "percent">>, <<"share", "spread">>, <<"amount", "percent">>}

MCPlanOf == [p \in {p1, p2, q} |-> IF p = q THEN 2 ELSE 1]
MCDefaultBoard == [p \in {p1} |-> {k1}]

Measure(p, parent, entries) ==
  [priority |-> p, parent |-> parent, active |-> TRUE, archived |-> FALSE, was |-> TRUE,
   strategic |-> FALSE, entries |-> entries]

\* A legacy Measure alone, or with one below it in another Priority that has
\* values of its own.
MCCatalogsFound ==
  {[priority |-> [p \in {p1, p2, q} |-> [archived |-> FALSE, goals |-> p = p2]],
    kpi |-> [k \in K |->
       IF k = k1 THEN Measure(p1, NoKpi, FALSE) ELSE Measure(p2, k1, TRUE)]] :
     K \in {{k1}, {k1, k2}}}

MCSymmetry == Permutations(Versions) \cup Permutations(Targets) \cup Permutations(Admins)

-----------------------------------------------------------------------------
MeasureStill ==
  /\ plan = [start |-> 1, end |-> MaxYear]
  /\ lineage = TRUE
  /\ config = [v \in Versions |-> NoConfig]
  /\ target = [t \in Targets |-> NoTarget]
  /\ results = {}

BoardStill ==
  /\ activePlan = 1 /\ changes = 0 /\ initialized = FALSE /\ overwritten = FALSE
  /\ priority = Empty /\ kpi = Empty
  /\ board = [n \in {1, 2} |-> [revision |-> 0, rows |-> Empty]]
  /\ saved = [n \in {1, 2} |-> Empty]
  /\ page = [a \in Admins |-> NoPage]

ConfigurationInit ==
  \/ part = "measure" /\ Init /\ BoardStill
  \/ part = "board" /\ BoardEditorInit /\ MeasureStill

ConfigurationNext ==
  /\ UNCHANGED part
  /\ \/ part = "measure" /\ Next /\ UNCHANGED boardEditorVars
     \/ part = "board" /\ BoardEditorNext /\ UNCHANGED vars

ConfigurationSpec ==
  ConfigurationInit /\ [][ConfigurationNext]_<<part, vars, boardEditorVars>>
=============================================================================
