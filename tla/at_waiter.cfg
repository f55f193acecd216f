SPECIFICATION Spec
CONSTANTS
    c1 = c1
    c2 = c2
    cpin = cpin
    csq = csq
    NoOne = NoOne
    NoLine = NoLine
    Callers <- MCCallers
    Preempting = {}
    Buffered = {}
    Roomy = {}
    Cmds <- MCCmds
    WaitStr <- MCWaitStr
    ErrStr <- MCErrStr
    Lines <- MCLines
    Has <- MCHas
INVARIANTS TypeOK SendingFlagExact AnswerWakes ResponseFresh
PROPERTY SignalOnlyWhileSending
SYMMETRY CallerSymmetry
