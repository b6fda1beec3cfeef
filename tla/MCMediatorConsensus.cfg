SPECIFICATION Spec
CONSTANTS
    r1 = r1
    r2 = r2
    v1 = v1
    v2 = v2
    v3 = v3
    e1 = e1
    e2 = e2
    e3 = e3
    e4 = e4
    c1 = c1
    s1 = s1
    s2 = s2
    s3 = s3
    None = None
    Requests <- MCRequests
    Verifiers <- MCVerifiers
    Entries <- MCEntries
    Meanings <- MCMeanings
    Similar <- MCSimilar
    Calls <- MCCalls
    RequiredVerifiers = 3
    RequiredConsensus = 3
    Deadline = 1
    MaxNow = 2
    Places <- MCPlaces
    Amounts = {1, 2}
    Totals = {0, 1}
    Configured = 1
SYMMETRY MCSymmetry
INVARIANTS
    ConsensusIsSupported
    EffectiveStakeIsBacked
PROPERTIES
    ConsensusIsStable
CHECK_DEADLOCK FALSE
