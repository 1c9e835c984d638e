SPECIFICATION FairSpec
CONSTANTS
    a = a
    b = b
    NoConvo = none
    Convos <- MCConvos
    Sizes <- MCSizes
    MaxParts = 1
    MaxLag = 2
INVARIANTS RunInv PageAgrees
PROPERTIES RunsEnd
CHECK_DEADLOCK FALSE
