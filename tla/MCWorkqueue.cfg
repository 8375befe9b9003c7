SPECIFICATION FairSpec
CONSTANTS
    Queue = {q1, q2}
    Default = q1
    Work = {w1, w2}
    Delayed = {w2}
    Caller = {c1, c2}
    TimerTask = timer
    MsgNum = 1
    NULL = NULL
INVARIANTS
    TypeOK
    WorkerFindsWork
    LinkedOnce
    RunningNotQueued
PROPERTIES
    QueuedWorkRuns
