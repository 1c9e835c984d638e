SPECIFICATION FairSpec
CONSTANTS
    Changes = {t1}
    Autonomous = {t2}
    GitOps = {t3}
    KernelChanges = {}
    NoTask = none
    Cancellers = {c1}
    MaxEvents = 2
    MaxCrashes = 1
INVARIANTS TypeOK BacklogIsDrained QueueMatchesRun CancelledCommitsNothing SteerReachesItsTask
PROPERTIES CallersAreAnswered

CHECK_DEADLOCK FALSE
