SPECIFICATION Spec
CONSTANTS
    Versions = {v1, v2}
    Seed = v1
    NoVersion = none
    Callers = {c1, c2}
    Monitor = monitor
    NoOne = noone
    Ops = {"selfmod", "approve", "reject", "rollback", "rollback_to", "monitor", "reconfigure", "toggle"}
    Verifier = TRUE
    MaxHistory = 2
    MaxInFlight = 2
    MaxCrashes = 1
SYMMETRY Symmetry
INVARIANTS TypeOK BrokenNeverAdvances RestartServesTheSame PromotedIsOnLine
PROPERTIES HeldUntilDecided OperatorDisableSticks
CHECK_DEADLOCK FALSE
