\* A promoted kernel that exits as often as the firmware allows.
SPECIFICATION Spec
CONSTANTS
    Versions = {s, g}
    Shipped = s
    NoVersion = none
    Broken = {}
    MaxActiveFailures = 2
    MaxFaults = 2
INVARIANT FloorIsShipped
CHECK_DEADLOCK FALSE
