CONSTANTS
    Users = {A}
    FirstUser = A
    MaxWrites = 4
    MaxPending = 4
    Overtaking = TRUE
    MaxFaults = 0
SPECIFICATION Spec
INVARIANT RejectedWasRefused
CHECK_DEADLOCK FALSE
