SPECIFICATION FairSpec
CONSTANTS
    TopUps = {1, 2}
    Entries <- AnyEntry
    InitBalance = 3
    Updates <- PayAndReceive
    MaxUpdates = 2
    MaxStops = 2
    Events = {"secretFails", "declined", "answerLost", "readFails"}
INVARIANTS TypeOK AddedOnce BooksAgreeInCalm
PROPERTY ChargeAdded
CHECK_DEADLOCK FALSE
