SPECIFICATION FairSpec
CONSTANTS
    Mine = {t1}
    Others = {t2}
    NoTask = none
    MaxSteps = 1
    MaxLag = 1
    MaxFaults = 1
INVARIANTS TypeOK TraceIsOfTask ViewAgrees
PROPERTIES RunIsSeenToEnd
CHECK_DEADLOCK FALSE
