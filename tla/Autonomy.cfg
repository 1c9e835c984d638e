\* The clock of triggers, the changes it files and the Advisor's proposals,
\* with the plugin's requests overlapping and processes killed.
SPECIFICATION FairSpec
CONSTANTS
    Errors <- SomeErrors
    Proposals <- SomeProposals
    StartsOn = {"enabled", "auto"}
    MaxPerDay = 1
    MaxTriggers = 2
    MaxCalls = 2
    MaxDays = 2
    MaxSteps = 3
INVARIANTS TypeOK CapHolds ArmedIsScheduled HeldUnlessVerified
PROPERTY DueIsFiled
CHECK_DEADLOCK FALSE
