----------------------------- MODULE RhinoSched ------------------------------
(***************************************************************************)
(* The state of a running Rhino kernel, how the processor moves from task   *)
(* to task, and how interrupts cut in: k_sys.c, the scheduling half of      *)
(* k_sched.c, k_time.c and the critical section macros of k_critical.h.     *)
(*                                                                          *)
(* A service runs with interrupts disabled and is one step.  It may end in  *)
(* RHINO_CRITICAL_EXIT_SCHED, which first enables interrupts and then calls *)
(* core_sched: in between the caller is still g_active_task although it may *)
(* already be blocked, suspended or deleted, and an interrupt may come.     *)
(* k.pc[t] says where task t is:                                            *)
(*   "user"       in application code                                       *)
(*   "sched"      between the two halves of RHINO_CRITICAL_EXIT_SCHED       *)
(*   "sched_pend" the same, in a service that blocked                       *)
(*   "pend"       resumed, about to read blk_state (pend_state_end_proc),   *)
(*                or about to return from a receive that did not block      *)
(*   "prichg"     in krhino_task_pri_change, between its checks of the      *)
(*                target and its critical section                           *)
(* k.wait[t] is the object of the blocking call t is in, k.arg[t] the       *)
(* arguments of the krhino_task_pri_change call t is in.                    *)
(***************************************************************************)
EXTENDS RhinoCore, RhinoRingbuf

CONSTANTS
    InitPrio,    \* the priority each task is created with before krhino_start
    InitOrder,   \* the order in which the tasks are created
    InitObj,     \* the objects that exist when the kernel starts
    MaxLock,     \* SCHED_MAX_LOCK_COUNT
    MaxIntr,     \* bound on the interrupt nesting
    Slice,       \* RHINO_CONFIG_TIME_SLICE_DEFAULT
    QueueSize,   \* the messages a kqueue_t holds
    BufSize      \* the bytes of a kbuf_queue_t

VARIABLE k

ASSUME SchedAssumption ==
    /\ InitPrio \in [Task -> UserPri]
    /\ InitOrder \in Seq(Task) /\ IsInjective(InitOrder) /\ ToSet(InitOrder) = Task
    /\ InitObj \subseteq Obj
    /\ MaxLock \in Nat /\ MaxIntr \in Nat /\ Slice \in Nat \ {0}
    /\ QueueSize \in Nat \ {0} /\ BufSize \in Nat \ {0}
    /\ NULL \notin Msg

PC == {"user", "sched", "sched_pend", "pend", "prichg"}

\* krhino_init empties the lists of the kernel; the tasks and objects are as their
\* create functions leave them
krhino_init ==
    LET prio == [t \in All |-> IF t = Idle THEN IdlePri ELSE InitPrio[t]]
        all(v) == [t \in All |-> v]
    IN  [active |-> NULL, lock |-> 0, intr |-> 0,
         hi |-> IdlePri + 1, rdy |-> [p \in Prio |-> <<>>], prio |-> prio, bprio |-> prio,
         state |-> all("RDY"), susp |-> all(0), blkst |-> all("FINISH"),
         blkobj |-> all(NULL), tick |-> all(0), tickl |-> <<>>,
         slice |-> all(Slice), total |-> all(Slice), policy |-> all("RR"),
         blk |-> [o \in Obj |-> <<>>], live |-> [o \in Obj |-> o \in InitObj],
         owner |-> [m \in Mutex |-> NULL], nested |-> [m \in Mutex |-> 0],
         mlist |-> all(<<>>), count |-> [s \in Sem |-> 0],
         ring |-> [q \in Queue |-> ringbuf_init("FIX", QueueSize)]
                  @@ [q \in BufQueue |-> ringbuf_init("DYN", BufSize)],
         num |-> [q \in Queue \cup BufQueue |-> 0], msg |-> all(NULL),
         flags |-> [e \in Event |-> {}], want |-> all(NULL), actl |-> all({}),
         pc |-> all("user"), wait |-> all(NULL), arg |-> all(NULL),
         err |-> "none"]

\* krhino_task_create makes the idle task and the application's tasks ready, one
\* after the other, and krhino_start chooses the first to run
Init ==
    LET ready == FoldLeft(ready_list_add_tail, krhino_init, <<Idle>> \o InitOrder)
    IN  k = [ready EXCEPT !.active = preferred_cpu_ready_task_get(ready)]

\* task t executes application code and calls a service
Calls(t) == k.intr = 0 /\ k.active = t /\ k.pc[t] = "user"

\* an interrupt handler calls a service
InIsr == k.intr > 0

\* the caller's RHINO_CRITICAL_EXIT_SCHED: core_sched comes next; in an
\* interrupt core_sched returns at once
exit_sched(r) == IF r.intr > 0 THEN r ELSE [r EXCEPT !.pc[r.active] = "sched"]

\* the same for a service that has blocked its caller on o (NULL: a sleep)
exit_sched_pend(r, o) ==
    [r EXCEPT !.pc[r.active] = "sched_pend", !.wait[r.active] = o]

-----------------------------------------------------------------------------
core_sched(t) ==
    /\ k.intr = 0 /\ k.active = t /\ k.pc[t] \in {"sched", "sched_pend"}
    /\ k' = [k EXCEPT
               !.active = IF k.lock > 0 THEN t ELSE preferred_cpu_ready_task_get(k),
               !.pc[t] = IF @ = "sched" THEN "user" ELSE "pend"]

\* the call returns: the status that blk_state stands for, the message or the
\* flags, which are the caller's from now on
pend_state_end_proc(t) ==
    /\ k.intr = 0 /\ k.active = t /\ k.pc[t] = "pend"
    /\ k' = [k EXCEPT !.pc[t] = "user", !.wait[t] = NULL,
                      !.msg[t] = NULL, !.want[t] = NULL, !.actl[t] = {}]

krhino_sched_disable(t) ==
    /\ Calls(t)
    /\ k.lock < MaxLock
    /\ k' = [k EXCEPT !.lock = @ + 1]

\* faulty variant: no rescheduling when the last lock goes
sched_enable_no_sched(t) ==
    /\ Calls(t) /\ k.lock > 0
    /\ k' = [k EXCEPT !.lock = @ - 1]

krhino_sched_enable(t) ==
    /\ Calls(t)
    /\ k.lock > 0
    /\ LET k1 == [k EXCEPT !.lock = @ - 1]
       IN  k' = IF k1.lock > 0 THEN k1 ELSE exit_sched(k1)

krhino_intrpt_enter ==
    /\ k.intr < MaxIntr
    /\ k' = [k EXCEPT !.intr = @ + 1]

krhino_intrpt_exit ==
    /\ k.intr > 0
    /\ k' = [k EXCEPT !.intr = @ - 1,
                      !.active = IF k.intr > 1 \/ k.lock > 0 THEN @
                                 ELSE preferred_cpu_ready_task_get(k)]

krhino_tick_proc ==
    /\ InIsr
    /\ k' = time_slice_update(tick_list_update(k, 1))

SchedNext ==
    \/ \E t \in All : core_sched(t) \/ pend_state_end_proc(t)
    \/ krhino_intrpt_enter \/ krhino_intrpt_exit \/ krhino_tick_proc

LockNext ==
    \E t \in Task : krhino_sched_disable(t) \/ krhino_sched_enable(t)

-----------------------------------------------------------------------------
\* The kernel globals and task control blocks keep their types: in particular no
\* delay, count or priority leaves its range (they are unsigned in the code, and
\* a tick that is counted down once too often would wrap).
TypeOK ==
    /\ k.active \in All /\ k.lock \in 0..MaxLock /\ k.intr \in 0..MaxIntr
    /\ k.hi \in Prio
    /\ \A p \in Prio : k.rdy[p] \in Seq(All)
    /\ k.tickl \in Seq(All)
    /\ \A o \in Obj : k.blk[o] \in Seq(Task) /\ k.live[o] \in BOOLEAN
    /\ \A m \in Mutex : k.owner[m] \in Task \cup {NULL} /\ k.nested[m] \in Nat
    /\ \A s \in Sem : k.count[s] \in Nat
    /\ \A t \in All :
         /\ k.state[t] \in TaskState /\ k.blkst[t] \in BlkState
         /\ k.prio[t] \in Prio /\ k.bprio[t] \in Prio
         /\ k.susp[t] \in Nat /\ k.tick[t] \in Nat
         /\ k.slice[t] \in Nat /\ k.total[t] \in Nat /\ k.policy[t] \in {"RR", "FIFO"}
         /\ k.blkobj[t] \in Obj \cup {NULL} /\ k.wait[t] \in Obj \cup {NULL}
         /\ k.mlist[t] \in Seq(Mutex) /\ k.pc[t] \in PC

\* The kernel never meets a state it has no code for: no k_err_proc in the
\* default branches of k_pend.c, k_tick.c and task_pri_change, and the loop of
\* task_pri_change follows no chain of owners longer than there are tasks.
NoFatalError == k.err = "none"

\* Each task is in exactly the lists its task_state says: the ready list of its
\* own priority when K_RDY, the block list of blk_obj when K_PEND or
\* K_PEND_SUSPENDED, the tick list when it sleeps and only when it waits; never
\* twice, never in a list of another priority (klist_rm and ready_list_rm trust
\* this blindly).
ListsMatchState ==
    /\ \A p \in Prio : /\ ToSet(k.rdy[p]) = {t \in All : k.state[t] = "RDY" /\ k.prio[t] = p}
                       /\ Cardinality(ToSet(k.rdy[p])) = Len(k.rdy[p])
    /\ \A o \in Obj :
         /\ ToSet(k.blk[o]) = {t \in All : /\ k.state[t] \in {"PEND", "PEND_SUSPENDED"}
                                           /\ k.blkobj[t] = o}
         /\ Cardinality(ToSet(k.blk[o])) = Len(k.blk[o])
    /\ \A t \in All :
         /\ k.state[t] \in {"PEND", "PEND_SUSPENDED"} => k.blkobj[t] \in Obj /\ k.live[k.blkobj[t]]
         /\ k.state[t] \in {"SLEEP", "SLEEP_SUSPENDED"} => Contains(k.tickl, t)
         /\ Contains(k.tickl, t) => k.state[t] \notin {"RDY", "SUSPENDED", "DELETED"}
    /\ Cardinality(ToSet(k.tickl)) = Len(k.tickl)

\* Whenever a task executes application code outside a scheduler lock it is the
\* first of the ready tasks of the highest priority: highest_pri, which is only
\* updated in ready_list_init and when its own list runs empty, is never stale
\* when the scheduler reads it, and no service forgets to reschedule, not even
\* the early returns that skip core_sched (krhino_mutex_unlock and
\* krhino_sem_give without waiters, a send to a queue nobody waits for).
RunsTheBestTask ==
    k.intr = 0 /\ k.lock = 0 /\ k.pc[k.active] \in {"user", "pend"}
        => k.active = Head(k.rdy[find_first_bit(k.rdy)])

\* A task that executes is ready, scheduler lock or not: it left
\* RHINO_CRITICAL_EXIT_SCHED only after the processor was taken away and it was
\* made ready again.
RunningIsReady ==
    k.intr = 0 /\ k.pc[k.active] \in {"user", "pend", "prichg"}
        => k.state[k.active] = "RDY"

\* The tick list stays sorted by the ticks left, so that the walk of
\* tick_list_update, which stops at the first task that is not due, misses none.
TickListSorted ==
    /\ IsSorted(k.tickl, LAMBDA x, y : k.tick[x] <= k.tick[y])
    /\ \A i \in 1..Len(k.tickl) : k.tick[k.tickl[i]] > 0

\* Block lists stay in priority order while priorities change under the waiters.
BlkListsSorted ==
    \A o \in Obj : IsSorted(k.blk[o], LAMBDA x, y : k.prio[x] <= k.prio[y])

\* An object goes to the most urgent of the tasks that wait for it, although
\* their priorities may have changed since they were queued.  (Events are not
\* handed to one task.)
WakesTheMostUrgent ==
    [][\A o \in Obj \ Event : \A t \in ToSet(k.blk[o]) \ ToSet(k'.blk[o]) :
          k'.state[t] \in {"RDY", "SUSPENDED"} /\ k'.blkst[t] = "FINISH"
            => \A u \in ToSet(k'.blk[o]) : k.prio[t] <= k.prio[u]]_k
=============================================================================
