\* Everything may go wrong.
SPECIFICATION Spec
CONSTANTS
    SavePeriod = 3
    Ticks = {1, 2, 4}
    Faults = {"crash", "tick", "write", "late_write"}
    MaxClock = 9
INVARIANTS AutosaveKeepsPace FailedSaveHarmsNothing
PROPERTY RestoresLastSave
