SPECIFICATION MSpec
CONSTANTS
    Words = 64
    Hz = 5
    Second = 10
    Status = {"MODULE_READY"}
    Limits = {4}
    AtWaitTicks = 3
    Extras = {"username"}
    CommandMs = 4
INVARIANT WillDocumented
