SPECIFICATION Spec
CONSTANTS
    s1 = s1
    s2 = s2
    p1 = p1
    A = A
    B = B
    None = None
    Settlements <- MCSettlements
    Parties <- MCParties
    Passes <- MCPasses
    Window = 0
    RetryAttempts = 1
    MaxClock = 1
    MaxCrashes = 1
    PartialSearch = FALSE
VIEW MCSingleView
SYMMETRY MCSymmetry
INVARIANTS
    ClaimedOnce
    ProposedOnce
    UpheldFirstForfeits
PROPERTIES
    ImplementsLifecycle
