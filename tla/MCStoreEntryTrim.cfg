CONSTANTS
    Clients = {c1, c2}
    Eager = {c2}
    PageSize = 2
    MaxObject = 5
    MaxObjSize = 4
    RamLimit = 1
    ReadAheadGap = 2
    BufSize = 2
SPECIFICATION StoreSpec
CHECK_DEADLOCK FALSE
INVARIANTS
    LowestOffsetFreed
