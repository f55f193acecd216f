SPECIFICATION FairSpec
CONSTANTS
    c1 = c1
    c2 = c2
    cpin = cpin
    csq = csq
    NoOne = NoOne
    NoLine = NoLine
    Callers <- MCCallers
    Preempting = {c2}
    Buffered = {}
    Roomy = {}
    Cmds = {csq}
    WaitStr <- MCWaitStr
    ErrStr <- MCErrStr
    Lines = {"OK", "ERROR"}
    Has <- MCHas
INVARIANTS SendingFlagExact AnswerTracked
PROPERTY HolderReturns
