SPECIFICATION FairMSpec
CONSTANTS
    Words = 64
    Hz = 5
    Second = 10
    Status = {"MODULE_READY", "NETWORK_CONNECTED"}
    Limits <- MCLimits
    AtWaitTicks = 3
    Extras = {"username"}
    CommandMs = 4
INVARIANTS
    MTypeOK
    LimitKept
    ShortWaitBlocks
    CarefulUseSafe
    WillFollowsConfig
PROPERTIES
    NoLimitNoTimeout
    NoFalseTimeout
    SilenceFails
    WaitReturns
    InitReturns
