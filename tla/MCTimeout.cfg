SPECIFICATION FairSpec
CONSTANTS
    a = a
    b = b
    c = c
    x = x
    y = y
    Idle = Idle
    NULL = NULL
    WAIT_FOREVER = WAIT_FOREVER
    Task = {a, b}
    InitOrder <- OrderAB
    InitObj <- Obj
    IdlePri = 3
    Mutex = {m1}
    Sem = {s1}
    MaxChain = 4
    InitPrio <- TwoTasks
    MaxLock = 0
    MaxIntr = 1
    Slice = 1
    LockTicks = {1, 2}
    MaxNested = 2
    SleepTicks = {1, 2}
    NewPris = {}
    Slices = {}
    MaxSuspend = 1
    TakeTicks = {1, 2}
    Counts = {0, 1}
    MaxCount = 1
    Queue = {}
    BufQueue = {}
    Event = {}
    Msg = {}
    MsgLen <- NoLengths
    Base = 4
    NoCell = NoCell
    LEN = LEN
    QueueSize = 1
    BufSize = 1
    RecvTicks = {}
    max_msg_size = 4
    Wants = {}
    SetFlags = {}
    GetTicks = {}
INVARIANTS
    LockedOnce
    InheritanceExact
    NoUnitWithheld
PROPERTIES
    ImplementsSync
    TimedCallsReturn
