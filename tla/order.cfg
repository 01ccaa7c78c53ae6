SPECIFICATION FairSpec
CONSTANTS
    Size = 2
    Cancellers = {a1, a2}
    MaxAttempts = 3
    MaxFaults = 1
INVARIANTS
    FilledIsSumOfFills
    LinkedExists
    FilledIsDone
    CanceledKnownIsGone
PROPERTIES
    OrderLeavesBook
    RowSettles
