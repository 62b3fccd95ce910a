SPECIFICATION SerialSpec
CONSTANTS
    ann = ann
    bob = bob
    cat = cat
    Users = {ann, bob, cat}
    Transfers = {1, 2}
    InitBalance <- AnnPaysTwo
    Amounts = {0, 2}
    MaxSignIns = 1
    MaxCrashes = 1
    Failures = {"keyFetch"}
SYMMETRY Payees
INVARIANTS  BooksAgree
 
CHECK_DEADLOCK FALSE
