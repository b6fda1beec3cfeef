SPECIFICATION Spec
CONSTANTS
    Ids = {me, other}
    Me = me
    Stakes = {1,2}
    MinStake = 2
    ActiveSlots = 2
    JailThreshold = 2
    Cooldown = 2
    EpochLen = 2
    SlotLen = 1
    MaxClock = 4
    Never = Never
INVARIANTS
    ActiveMatchesEpoch
    NextSlotIsMine
PROPERTIES
    CooldownIsServed
CHECK_DEADLOCK FALSE
