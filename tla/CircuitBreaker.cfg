SPECIFICATION FairSpec
CONSTANTS
    Never = Never
    Calls = {c1, c2, c3}
    FailureThreshold = 2
    SuccessThreshold = 2
    ResetTimeout = 2
    RetryAttempts = 2
    MaxManual = 2
INVARIANTS
    CountersAgreeWithState
PROPERTIES
    CoolsDown
    RecoveryIsTested
    AdmitsAgain
