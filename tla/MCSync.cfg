SPECIFICATION MCSpec
CONSTANTS
    Task = {a, b, c}
    Mutex = {m1, m2}
    Sem = {s}
    NULL = NULL
    Counts = {0, 1}
    MaxNested = 2
    MaxCount = 1
INVARIANTS
    STypeOK
    NoLostWakeup
    GrantedIsOwner
