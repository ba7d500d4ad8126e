SPECIFICATION Spec
CONSTANTS
    MaxId = 3
    Emails = {e1, e2}
    Browsers = {b1}
    Requests = {r1, r2}
    Times = {2}
    MaxVersion = 3
SYMMETRY Perms
INVARIANTS
    AdminRemains
    
PROPERTIES
    RotationReplacesWhatWasProved
    
CHECK_DEADLOCK FALSE
