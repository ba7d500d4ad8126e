CONSTANTS
  Null = Null
  NaN = NaN
  Factor = 1
  GoalFactor = 10
  MaxNum = 10000
  FirstYear = 1
  LastYear = 9
  Measures <- MCMeasures
  Numbers <- MCNumbers
  PlanYears <- MCPlanYears
  EntryIndexes <- MCEntryIndexes
  ViewedMonths <- MCViewedMonths
  Rules <- MCRules
  Peers <- MCPeers
  MaxStored <- MCMaxStored
  Bands = {b1, b2}
  Definitions <- OwnLabels
  Totals = {0, 1}
  MaxEntered = 1
SYMMETRY MCBandSymmetry
SPECIFICATION EntrySpec
INVARIANTS
  EntriesCompute
  HeadlineIsYearToDate
  
  GoalIsEarned
PROPERTIES
  EntriesStand
