SPECIFICATION MCSpec
CONSTANTS
    MaxTime = 4
    MaxSignals = 3
    MaxHistory = 1
    TimeWindow = 4
    ActivityGap = 2
    Strategies = {"time_window", "activity_boundary", "hybrid"}
    AutoAnchor = TRUE
    MarkedRange = 1
    Retention = 2
    MaxPasses = 2
    MaxRuns = 2
    MaxAnchored = 1
    MaxAnchoredTime = 3
INVARIANTS
    ReceiptsAgree
    AnchoredIsOnLedger
PROPERTIES
    EverySignalIsAttested
CHECK_DEADLOCK FALSE
