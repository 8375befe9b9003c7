SPECIFICATION TaskSpec
CONSTANTS
    a = a
    b = b
    c = c
    x = x
    y = y
    Idle = Idle
    NULL = NULL
    WAIT_FOREVER = WAIT_FOREVER
    Task = {a, b}
    InitOrder <- OrderAB
    InitObj <- Obj
    IdlePri = 3
    Mutex = {}
    Sem = {s1}
    MaxChain = 4
    InitPrio <- EqualTasks
    MaxLock = 1
    MaxIntr = 1
    Slice = 1
    LockTicks = {}
    MaxNested = 1
    SleepTicks = {2}
    NewPris = {}
    Slices = {0}
    MaxSuspend = 2
    TakeTicks = {1}
    Counts = {}
    MaxCount = 1
    Queue = {}
    BufQueue = {}
    Event = {}
    Msg = {}
    MsgLen <- NoLengths
    Base = 4
    NoCell = NoCell
    LEN = LEN
    QueueSize = 1
    BufSize = 1
    RecvTicks = {}
    max_msg_size = 4
    Wants = {}
    SetFlags = {}
    GetTicks = {}
INVARIANTS
    TypeOK
    ListsMatchState
    RunsTheBestTask
    RunningIsReady
    TickListSorted
