SPECIFICATION FairMSpec
CONSTANTS
    c1 = c1
    c2 = c2
    cpin = cpin
    csq = csq
    NoOne = NoOne
    NoLine = NoLine
    Callers = {c1}
    Preempting = {}
    Buffered = {c1}
    Roomy = {c1}
    Cmds <- MCCmds
    WaitStr <- MCWaitStr
    ErrStr <- MCErrStr
    Lines <- MCLines
    Has <- MCHas
    After <- MCMessageAfter
INVARIANTS ResultIsReply AnswerDelivered
PROPERTIES WaitsForResponse ImplementsExchange AnsweredReturns
