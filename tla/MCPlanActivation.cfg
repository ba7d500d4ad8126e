CONSTANTS
    Plans = {p1, p2, p3}
    First = p1
    NoPlan = NoPlan
    Ids = {i1, i2}
    NoId = NoId
    Requests = {r1, r2}
    NoRequest = NoRequest
    Writers = {w1}
    NoBackup = NoBackup
    MaxWrites = 2
SYMMETRY Symmetry
SPECIFICATION Spec
INVARIANTS
    SingleLine
    NothingLost
    
    TruthfulAnswers
PROPERTIES
    ClosedPlansFrozen
    ImplementsPlanSwitch
