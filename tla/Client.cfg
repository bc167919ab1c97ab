CONSTANTS
    Players = {"rex", "bob"}
    me = "rex"
    Loot = {1}
    Keys = {"L", "R"}
    STOP = ""
    Assets = {"actor", "loot"}
    NIL = NIL
    ASKED = ASKED
    REFUSED = REFUSED
    Half = 12
    MaxEvents = 3
    MaxMixed = 0
    MaxAlike = 2
    MaxGets = 3
SPECIFICATION Spec
INVARIANTS TypeOK NeverHalts OneOwner SceneIsKept FollowsKeys
PROPERTIES EndsInSync
CHECK_DEADLOCK FALSE
