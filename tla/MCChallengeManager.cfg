SPECIFICATION Spec
CONSTANTS
    t1 = t1
    c1 = c1
    c2 = c2
    x1 = x1
    x2 = x2
    p1 = p1
    p2 = p2
    None = None
    Targets <- MCTargets
    Challenges <- MCChallenges
    Scans <- MCScans
    Passes <- MCPasses
    CheckInterval = 1
    MaxClock = 2
    MaxCrashes = 1
SYMMETRY MCSymmetry
INVARIANTS
    FailuresCountedOnce
    NoLeakedResolution
    DuplicatesAreRaced
