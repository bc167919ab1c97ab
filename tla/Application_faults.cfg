\* Two maps, two dogs on one or one on each, every fault of the database and players that share a name.
SPECIFICATION Spec
CONSTANTS
    Maps = {town, park}
    Names = {rex, long}
    TooLong = {long}
    Tokens = {t1, t2}
    NIL = NIL
    RetirementTime = 2
    Ticks = {1}
    Faults = {"connection", "in_doubt", "same_name"}
    MaxDogs = 2
    MaxJoins = 2
    MaxRetiring = 2
    IntMax = 3
    PlayCap = 4
    ScoreCap = 0
SYMMETRY Interchangeable
INVARIANTS RegistryConsistent PlayTimeCoversRetirement RecordedOnce NoLeftoverRetirees CrashesOnlyOnLeftovers
PROPERTIES ImplementsRetirement RetiresOnlySilent
CHECK_DEADLOCK FALSE
