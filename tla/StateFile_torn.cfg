\* The process may be killed at any point.
SPECIFICATION Spec
CONSTANTS
    SavePeriod = 3
    Ticks = {1, 2, 4}
    Faults = {"crash"}
    MaxClock = 9
INVARIANT StartsAgain
CHECK_DEADLOCK FALSE
