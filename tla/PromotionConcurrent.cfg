SPECIFICATION Spec
CONSTANTS
    Versions = {v1, v2, v3}
    Seed = v1
    NoVersion = none
    Callers = {c1, c2}
    Monitor = monitor
    NoOne = noone
    Ops = {"selfmod", "rollback_to", "monitor"}
    Verifier = TRUE
    MaxHistory = 1
    MaxInFlight = 2
    MaxCrashes = 0
SYMMETRY Symmetry
INVARIANTS MainIsServed FollowersAgree InactiveSlotIsFree
CHECK_DEADLOCK FALSE
