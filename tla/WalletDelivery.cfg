SPECIFICATION FairSpec
CONSTANTS
    ann = ann
    bob = bob
    Users = {ann, bob}
    Transfers = {1, 2}
    InitBalance <- AnnPays
    Amounts = {2}
    MaxSignIns = 1
    MaxCrashes = 1
    Failures = {}
PROPERTIES Posted Delivered
CHECK_DEADLOCK FALSE
