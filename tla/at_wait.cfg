SPECIFICATION Spec
CONSTANTS
    Words = 64
    Hz = 5
    Second = 10
    Status = {"MODULE_READY"}
    Limits = {4}
    AtWaitTicks = 4
INVARIANT ConfiguredWait
