CONSTANTS
    Admins = {a1}
    Bundles = {b1}
    Sources = {s1}
    MaxDrafts = 1
    MaxRev = 6
    MaxSource = 1
    Overridable = {"source_changed_since_clone"}
    Editors = FALSE
    Openers = FALSE
SPECIFICATION Spec
INVARIANTS
    ApprovalCoversContent
    
    ReadyMeansReviewed
CHECK_DEADLOCK FALSE
