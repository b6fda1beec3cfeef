SPECIFICATION FairSpec
CONSTANTS
    s1 = s1
    s2 = s2
    p1 = p1
    A = A
    B = B
    None = None
    Settlements = {s1}
    Parties = {A, B}
    Passes = {p1, p2}
    Window = 0
    RetryAttempts = 2
    MaxClock = 1
    MaxCrashes = 0
    PartialSearch = TRUE
VIEW MCOverlapView
INVARIANTS
    TypeOK
    TrackedIsOnChain
    ClaimNeedsBothParties
    ClosedIsPaid
PROPERTY
    TrackedIsResolved
