CONSTANTS
    Admins = {a1, a2}
    Bundles = {b1}
    Sources = {}
    MaxDrafts = 2
    MaxRev = 4
    MaxSource = 1
    Overridable = {}
    Editors = TRUE
    Openers = FALSE
SPECIFICATION Spec
INVARIANTS
    NoStaleSave
CHECK_DEADLOCK FALSE
