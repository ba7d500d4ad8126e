SPECIFICATION ConfigurationSpec
CONSTANTS
    MaxYear = 3
    Versions = {v1, v2}
    Targets = {t1, t2}
    Meanings = {"percent", "spread"}
    Distributions = {"spread"}
    TargetValues = {"amount"}
    Readable <- MCReadable
    LegacyYears = {3}
    MinYears = 2
    p1 = p1
    p2 = p2
    q = q
    k1 = k1
    k2 = k2
    Priorities = {p1, p2, q}
    PlanOf <- MCPlanOf
    Kpis = {k1, k2}
    NoKpi = none
    MaxChanges = 2
    Admins = {a1, a2}
    NoPage = noPage
    CatalogsFound <- MCCatalogsFound
    DefaultBoard <- MCDefaultBoard
    MaxRevision = 1
SYMMETRY MCSymmetry
INVARIANTS ResultsUnderOneVersion ResultsKeepMeaning BoardStands
PROPERTIES LegacyReadOnce TargetsKeepMeaning CatalogStands
CHECK_DEADLOCK FALSE
