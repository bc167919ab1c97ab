\* Two players of one name who stand idle together; the database is sound.
SPECIFICATION Spec
CONSTANTS
    Maps = {town}
    Names = {rex}
    TooLong = {}
    Tokens = {t1, t2}
    NIL = NIL
    RetirementTime = 2
    Ticks = {1}
    Faults = {"same_name"}
    MaxDogs = 2
    MaxJoins = 2
    MaxRetiring = 2
    IntMax = 4
    PlayCap = 4
    ScoreCap = 0
INVARIANT NeverCrashes
CHECK_DEADLOCK FALSE
