CONSTANTS
    Admins = {a1}
    Bundles = {b1, b2}
    Sources = {s1, s2}
    MaxDrafts = 1
    MaxRev = 3
    MaxSource = 0
    Overridable = {}
    Editors = FALSE
    Openers = TRUE
SYMMETRY Symmetry
SPECIFICATION Spec
INVARIANTS
    LineageCoherent
    BoardScopeHonest
CHECK_DEADLOCK FALSE
