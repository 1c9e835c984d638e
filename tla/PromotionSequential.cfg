SPECIFICATION Spec
CONSTANTS
    Versions = {v1, v2, v3}
    Seed = v1
    NoVersion = none
    Callers = {c1}
    Monitor = monitor
    NoOne = noone
    Ops = {"selfmod", "rollback", "rollback_to", "monitor"}
    Verifier = FALSE
    MaxHistory = 2
    MaxInFlight = 1
    MaxCrashes = 0
PROPERTIES StepsBack
CHECK_DEADLOCK FALSE
