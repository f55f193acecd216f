SPECIFICATION Spec
CONSTANTS
    MaxTime = 3
    AtTime = 1
    MaxWait = 4
    MaxInit = 2
INVARIANT ConnectedConfirmed
