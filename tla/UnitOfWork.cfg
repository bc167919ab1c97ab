SPECIFICATION FairSpec
CONSTANTS
    Threads = {a, b, c}
    Capacity = 3
    NULL = NULL
INVARIANTS OneWorkPerConnection StrandNeverBlocks
PROPERTY HandlersEnd
