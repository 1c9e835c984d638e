\* The settings panels, their calls overlapping, refused, lost and left, with
\* other clients and the clock.
SPECIFICATION Spec
CONSTANTS
    Errors <- NoErrors
    Proposals <- SomeProposals
    Starts <- MCStarts
    MaxMade = 2
    MaxCalls = 2
    MaxSteps = 3
INVARIANTS TypeOK PanelsAgree OneSelfHeal
CHECK_DEADLOCK FALSE
