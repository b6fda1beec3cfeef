SPECIFICATION Spec
CONSTANTS
    None = None
    Settlements = {s1}
    Parties = {A, B}
    Passes = {p1, p2}
    Window = 1
    RetryAttempts = 1
    MaxClock = 2
    MaxCrashes = 0
    PartialSearch = FALSE
INVARIANT
    AgreedInTimeIsNotRejected
