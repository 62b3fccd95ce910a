SPECIFICATION Spec
CONSTANTS
    ann = ann
    bob = bob
    Users = {ann, bob}
    Transfers = {1, 2}
    InitBalance <- MCInitBalance
    Amounts = {2}
    MaxSignIns = 1
    MaxCrashes = 1
    Failures = {"keyFetch", "newDevice", "listener"}
INVARIANTS TypeOK  NoOverdraft OnlySentReceived  SettledAfterReceipt
 
CHECK_DEADLOCK FALSE
