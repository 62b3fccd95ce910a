SPECIFICATION Spec
CONSTANTS
    TopUps = {1, 2}
    Entries <- Fives
    InitBalance = 3
    Updates <- PayAndReceive
    MaxUpdates = 1
    MaxStops = 0
    Events = {}
INVARIANT BooksAgree
