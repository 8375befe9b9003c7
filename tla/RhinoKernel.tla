----------------------------- MODULE RhinoKernel -----------------------------
(***************************************************************************)
(* The kernel as a whole: tasks, interrupts, and every object tasks block   *)
(* on: mutexes, semaphores, queues and event groups.                        *)
(***************************************************************************)
EXTENDS RhinoTask, RhinoMutex, RhinoSem, RhinoQueue, RhinoEvent

vars == <<k>>

Next ==
    \/ SchedNext \/ LockNext
    \/ SleepNext \/ SuspendNext \/ AbortNext \/ PriNext \/ LifeNext \/ RoundRobinNext
    \/ MutexNext \/ MutexDelNext
    \/ SemNext \/ SemDelNext
    \/ QueueNext \/ QueueDelNext
    \/ EventNext \/ EventDelNext

Spec == Init /\ [][Next]_vars

-----------------------------------------------------------------------------
(* What the blocking services promise: RhinoKernel implements RhinoSync.    *)

Existing(r) == {t \in Task : r.state[t] # "DELETED"}

LiveOf(r, Kind) == {o \in Kind : r.live[o]}

\* the objects of kind Kind the tasks are blocked on
WaitsFor(r, Kind) ==
    [t \in Task |-> IF r.state[t] \in {"PEND", "PEND_SUSPENDED"} /\ r.blkobj[t] \in Kind
                    THEN r.blkobj[t] ELSE NULL]

\* the objects of kind Kind that tasks were woken with (BLK_FINISH), in calls that
\* have still to return
GrantedOf(r, Kind) ==
    [t \in Task |-> IF /\ r.state[t] \in {"RDY", "SUSPENDED"}
                       /\ r.pc[t] \in {"sched_pend", "pend"}
                       /\ r.blkst[t] = "FINISH" /\ r.wait[t] \in Kind
                    THEN r.wait[t] ELSE NULL]

Sync == INSTANCE RhinoSync WITH
    exists  <- Existing(k),
    live    <- LiveOf(k, Mutex \cup Sem),
    owner   <- k.owner,
    nested  <- k.nested,
    count   <- k.count,
    waits   <- WaitsFor(k, Mutex \cup Sem),
    granted <- GrantedOf(k, Mutex \cup Sem)

\* Every step of the blocking services, the interrupts that cut into them and
\* the ticks that end them is a step RhinoSync allows.
ImplementsSync == Sync!SSpec
=============================================================================
