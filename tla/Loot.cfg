\* Two dogs, one office, bags of one object; the retirement of a dog may throw.
SPECIFICATION FairSpec
CONSTANTS
    Dogs = {rex, bim}
    Offices = {office}
    Worths = {1, 3}
    Capacity = 1
    Ticks = {2}
    Chance <- ChanceOfHalf
    MayThrow = TRUE
    MaxLoot = 4
    MaxQuiet = 8
INVARIANTS LootInOnePlace ScoreIsWorthOfBanked
PROPERTY SpawnFillsUpToLooters ShortageEnds
CHECK_DEADLOCK FALSE
