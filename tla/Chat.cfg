CONSTANTS
    A = A
    B = B
    Users = {A, B}
    Screens = {1}
    MaxPresses = 2
    MaxTexts = 2
    MaxSignOuts = 1
    Events = {"lookupFails", "listenerFails", "busySend", "busySignOut"}
SPECIFICATION FairSpec
INVARIANTS TypeOK SecretBetweenFriends TextsKept TableInStep
PROPERTY SentIsShown
CHECK_DEADLOCK FALSE
