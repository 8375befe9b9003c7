SPECIFICATION DSpec
CONSTANTS
    k1 = k1
    k2 = k2
    v1 = v1
    v2 = v2
    Key = {k1, k2}
    Val = {v1, v2}
    NoVal = NoVal
    ItemLen <- TwoSizes
    ITEM_MAX_LEN = 3
    BLK_NUMS = 2
    BLK_SIZE = 9
    Caller = {c1}
    Prefix <- AllKeys
    MaxSignal = 1
    MaxSem = 1
    NoOne = NoOne
    NoCall = NoCall
INVARIANTS
    TypeOK
    OneLiveCopy
    RamMirrorsFlash
    
    RestartKeepsKeys
PROPERTIES
    ImplementsMap
CHECK_DEADLOCK FALSE
SYMMETRY SymKey
