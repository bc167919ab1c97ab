\* The server is stopped by signals, and may also die twice, at any time.
SPECIFICATION Spec
CONSTANTS
    Maps = {town}
    Tokens = {t1, t2, t3}
    NIL = NIL
    RetirementTime = 2
    MaxCrashes = 2
    MaxDogs = 2
    MaxLives = 3
    MaxTime = 3
INVARIANTS TokenNamesItsPlayer RecordedOnce
SYMMETRY Interchangeable
PROPERTY RowsTellTimeInProcess
