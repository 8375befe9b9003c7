SPECIFICATION LifeSpec
CONSTANTS
    a = a
    b = b
    c = c
    x = x
    y = y
    Idle = Idle
    NULL = NULL
    WAIT_FOREVER = WAIT_FOREVER
    Task = {a, b, c}
    InitOrder <- OrderABC
    InitObj <- Obj
    IdlePri = 3
    Mutex = {m1}
    Sem = {}
    MaxChain = 4
    InitPrio <- ThreePrios
    MaxLock = 0
    MaxIntr = 1
    Slice = 1
    LockTicks = {WAIT_FOREVER}
    MaxNested = 2
    SleepTicks = {1}
    NewPris = {1}
    Slices = {}
    MaxSuspend = 1
    TakeTicks = {}
    Counts = {}
    MaxCount = 0
    Queue = {}
    BufQueue = {}
    Event = {}
    Msg = {}
    MsgLen <- NoLengths
    Base = 4
    NoCell = NoCell
    LEN = LEN
    QueueSize = 1
    BufSize = 1
    RecvTicks = {}
    max_msg_size = 4
    Wants = {}
    SetFlags = {}
    GetTicks = {}
INVARIANTS
    LockedOnce
