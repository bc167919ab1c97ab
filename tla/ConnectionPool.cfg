SPECIFICATION Spec
CONSTANTS
    Threads = {a, b, c, d}
    Capacity = 2
    NULL = NULL
INVARIANTS EachConnectionInOnePlace NoLostWakeup
PROPERTIES ImplementsLending
