CONSTANTS
    A = A
    B = B
    p = p
    q = q
    Users = {A, B}
    Payments = {p, q}
    To <- MCTo
    MaxSignIns = 2
    MaxStops = 1
    Events = {"secondPress", "earlySignOut", "signOutThrows", "readFails"}
SPECIFICATION FairSpec
INVARIANTS TypeOK  OwnAccountInCalm NothingLeftBehind
PROPERTY TakenIn
CHECK_DEADLOCK FALSE
