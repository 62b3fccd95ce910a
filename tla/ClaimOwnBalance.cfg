CONSTANTS
    A = A
    B = B
    p = p
    q = q
    Users = {A, B}
    Payments = {p, q}
    To <- MCTo
    MaxSignIns = 2
    MaxStops = 0
    Events = {"earlySignOut"}
SPECIFICATION Spec
INVARIANT OwnBalance
CHECK_DEADLOCK FALSE
