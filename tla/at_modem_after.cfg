SPECIFICATION MSpec
CONSTANTS
    c1 = c1
    c2 = c2
    cpin = cpin
    csq = csq
    NoOne = NoOne
    NoLine = NoLine
    Callers = {c1}
    Preempting = {}
    Buffered = {}
    Roomy = {}
    Cmds <- MCCmds
    WaitStr <- MCWaitStr
    ErrStr <- MCErrStr
    Lines <- MCLines
    Has <- MCHas
    After <- MCOkAfter
PROPERTY WaitsForResponse
