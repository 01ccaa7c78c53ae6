SPECIFICATION Spec
CONSTANTS
    Size = 3
    Cancellers = {}
    MaxAttempts = 3
    MaxFaults = 1
INVARIANTS
    CanceledIsGone
