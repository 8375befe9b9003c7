SPECIFICATION IpcSpec
CONSTANTS
    a = a
    b = b
    c = c
    x = x
    y = y
    Idle = Idle
    NULL = NULL
    WAIT_FOREVER = WAIT_FOREVER
    Task = {a, b}
    InitOrder <- OrderAB
    InitObj = {q1}
    IdlePri = 3
    Mutex = {}
    Sem = {}
    MaxChain = 4
    InitPrio <- TwoTasks
    MaxLock = 0
    MaxIntr = 2
    Slice = 1
    LockTicks = {}
    MaxNested = 1
    SleepTicks = {}
    NewPris = {}
    Slices = {}
    MaxSuspend = 1
    TakeTicks = {}
    Counts = {}
    MaxCount = 0
    Queue = {q2}
    BufQueue = {q1}
    Event = {e1}
    Msg = {x, y}
    MsgLen <- ShortAndLong
    Base = 4
    NoCell = NoCell
    LEN = LEN
    QueueSize = 2
    BufSize = 9
    RecvTicks = {1}
    max_msg_size = 4
    Wants <- EventWants
    SetFlags = {{1}, {2}}
    GetTicks = {1}
INVARIANTS
    QueueBooksAgree
    NoEventMissed
PROPERTIES
    ImplementsFifo
    FlagsConsumed
