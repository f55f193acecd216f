SPECIFICATION FairSpec
CONSTANTS
    MaxTime = 3
    AtTime = 1
    MaxWait = 4
    MaxInit = 2
INVARIANTS TypeOK StepsInOrder CommandsAccepted EarlyStepsConfirmed BringUpBounded
PROPERTY BringUpEnds
