SPECIFICATION FairSpec
CONSTANTS
    ann = ann
    bob = bob
    Users = {ann, bob}
    Requests = {1}
    Searches <- AnnAsks
    MaxStops = 2
    Events = {"withdraw", "lookupFails", "friendsFail", "killedInAccept", "newDevice"}
INVARIANTS TypeOK Consent KeysAgree
  
