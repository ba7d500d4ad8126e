SPECIFICATION Spec
CONSTANTS
    Accounts = {a1, a2}
    Sources = {s1}
    Rotating = {a1}
    Attempts = {r1, r2}
    Threshold = 2
    Window = 1
    Lockout = 2
    MaxEntries = 2
    Budget = 1
    PruneBatch = 1
    MaxTime = 6
SYMMETRY Perms
INVARIANTS
    StoreSound
PROPERTIES
    LocksHold
CHECK_DEADLOCK FALSE
