SPECIFICATION FairSpec
CONSTANTS
    Versions = {v1, v2}
    Seed = v1
    NoVersion = none
    Callers = {c1, c2}
    Monitor = monitor
    NoOne = noone
    Ops = {"selfmod", "rollback", "rollback_to", "monitor"}
    Verifier = TRUE
    MaxHistory = 1
    MaxInFlight = 3
    MaxCrashes = 0
PROPERTIES RequestsEnd
CHECK_DEADLOCK FALSE
