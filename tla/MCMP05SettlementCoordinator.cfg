SPECIFICATION Spec
CONSTANTS
    p1 = p1
    p2 = p2
    x1 = x1
    None = None
    Parties <- MCParties
    Tracked <- MCTracked
    LicenseTerms <- MCLicenseTerms
    DelegationTerms <- MCDelegationTerms
    SettlementTerms <- MCSettlementTerms
    MaxTime = 1
    MaxFailedSaves = 1
    MaxLicenses = 1
    MaxDelegations = 2
    MaxDelegationDepth = 1
    MaxSettlements = 1
    MaxEvents = 1
    AutoExpireCheck = TRUE
    EnableRiskTracking = TRUE
    MaxCalls = 6
    MaxRestarts = 1
INVARIANTS
    HashIsCurrent
    ValueRestsOnFinalized
    AuthorityIsHandedDown
PROPERTIES
    FinalizedNeverChanges
    WrittenEndIsFinal
CHECK_DEADLOCK FALSE
