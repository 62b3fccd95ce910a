SPECIFICATION Spec
CONSTANTS
    ann = ann
    bob = bob
    Users = {ann, bob}
    Transfers = {1, 2}
    InitBalance <- MCInitBalance
    Amounts = {2}
    MaxSignIns = 1
    MaxCrashes = 0
    Failures = {}
INVARIANT CreditedOnce
CHECK_DEADLOCK FALSE
