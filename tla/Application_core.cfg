\* One map, two dogs, a database that never fails, a ticker that keeps ticking.
SPECIFICATION FairSpec
CONSTANTS
    Maps = {town}
    Names = {rex, bim}
    TooLong = {}
    Tokens = {t1, t2}
    NIL = NIL
    RetirementTime = 2
    Ticks = {1, 2}
    Faults = {}
    MaxDogs = 2
    MaxJoins = 2
    MaxRetiring = 0
    IntMax = 3
    PlayCap = 3
    ScoreCap = 1
INVARIANT TypeOK
PROPERTY AbandonedIsRecorded
