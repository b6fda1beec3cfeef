SPECIFICATION Spec
CONSTANTS
    d1 = d1
    d2 = d2
    i1 = i1
    i2 = i2
    a1 = a1
    None = None
    Direct = Direct
    Disputes <- MCDisputes
    Items <- MCItems
    Authorities <- MCAuthorities
    Contested <- MCContested
    AutoFreeze = TRUE
    MaxCalls = 6
    MaxRestarts = 1
    MaxPosts = 2
    MaxClarifications = 1
    MaxStatements = 1
    MaxPackages = 1
INVARIANTS
    OneOutcomePerDispute
    OutcomeReachesDispute
    ReleasedByItsDispute
    CompletePackageIsDocumented
CHECK_DEADLOCK FALSE
