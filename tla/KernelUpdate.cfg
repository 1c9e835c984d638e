\* Two versions that serve and one that does not, with the firmware and the
\* kernel killed at any write.
SPECIFICATION FairSpec
CONSTANTS
    Versions = {s, g, b}
    Shipped = s
    NoVersion = none
    Broken = {b}
    MaxActiveFailures = 2
    MaxFaults = 3
INVARIANTS TypeOK OnlyApprovedRuns ProvenIsKept FailedIsNotPromoted
PROPERTY KernelServes
CHECK_DEADLOCK FALSE
