SPECIFICATION Spec
CONSTANTS
  MaxYear = 3
  Versions = {g1, g2}
  Measures = {m1, m2}
  Roles = {0, 1}
  Rules <- MCRules
  MaxResults = 1
  MaxMembers = 3
  Narrowing = FALSE
SYMMETRY MCSymmetry
INVARIANTS  ThresholdReachable
PROPERTIES ReportedYearsStand MembersFollow
