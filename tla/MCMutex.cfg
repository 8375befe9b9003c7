SPECIFICATION MutexSpec
CONSTANTS
    a = a
    b = b
    c = c
    x = x
    y = y
    Idle = Idle
    NULL = NULL
    WAIT_FOREVER = WAIT_FOREVER
    Task = {a, b, c}
    InitOrder <- OrderABC
    InitObj <- Obj
    IdlePri = 3
    Mutex = {m1, m2}
    Sem = {}
    MaxChain = 4
    InitPrio <- ThreePrios
    MaxLock = 0
    MaxIntr = 1
    Slice = 1
    LockTicks = {2}
    MaxNested = 1
    SleepTicks = {1}
    NewPris = {2}
    Slices = {}
    MaxSuspend = 1
    TakeTicks = {}
    Counts = {}
    MaxCount = 0
    Queue = {}
    BufQueue = {}
    Event = {}
    Msg = {}
    MsgLen <- NoLengths
    Base = 4
    NoCell = NoCell
    LEN = LEN
    QueueSize = 1
    BufSize = 1
    RecvTicks = {}
    max_msg_size = 4
    Wants = {}
    SetFlags = {}
    GetTicks = {}
INVARIANTS
    NoFatalError
    BlkListsSorted
    InheritanceExact
    RunsTheBestTask
PROPERTIES
    WakesTheMostUrgent
