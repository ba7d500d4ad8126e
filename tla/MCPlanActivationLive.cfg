CONSTANTS
    Plans = {p1, p2}
    First = p1
    NoPlan = NoPlan
    Ids = {i1, i2}
    NoId = NoId
    Requests = {r1}
    NoRequest = NoRequest
    Writers = {w1}
    NoBackup = NoBackup
    MaxWrites = 2
SPECIFICATION FairSpec
PROPERTIES
    PauseResolves
