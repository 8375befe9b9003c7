--------------------------- MODULE RhinoWorkqueue ----------------------------
(***************************************************************************)
(* The work queues of k_workqueue.c: a worker task per queue that takes     *)
(* works off an intrusive list, a semaphore that counts them, callers that  *)
(* put a work on the list in a critical section and give the semaphore only *)
(* after it, and delayed works that the timer task queues when their timer  *)
(* fires.  The timers are reduced to what this component sees of them: the  *)
(* commands in g_timer_queue, and an armed timer that fires at any moment.  *)
(* Calls that return an error and change nothing are no steps.              *)
(***************************************************************************)
EXTENDS Naturals, Sequences, FiniteSets

CONSTANTS
    Queue,         \* the kworkqueue_t objects
    Default,       \* g_workqueue_default
    Work,          \* the kwork_t objects
    Delayed,       \* the works initialised with dly > 0
    Caller,        \* the tasks that use work queues
    TimerTask,     \* g_timer_task
    MsgNum,        \* RHINO_CONFIG_TIMER_MSG_NUM
    NULL

ASSUME WorkqueueAssumption ==
    /\ Default \in Queue /\ Delayed \subseteq Work
    /\ IsFiniteSet(Caller) /\ TimerTask \notin Caller
    /\ MsgNum \in Nat \ {0}
    /\ NULL \notin Queue \cup Work

VARIABLES
    created,   \* the queues on g_workqueue_list_head
    list,      \* work_list of each queue
    current,   \* work_current
    sem,       \* the count of the queue's semaphore
    wpc,       \* the worker: "take", "deq" (semaphore taken) or "run"
    exit,      \* work_exit of each work
    wq,        \* wq of each work
    armed,     \* the queue the work's timer is running for, or NULL
    cmds,      \* the commands in g_timer_queue
    pc,        \* where each task is in krhino_work_run, work_timer_cb, cancel
    cwork, target   \* the work and the queue of that call

wvars == <<created, list, current, sem, wpc, exit, wq, armed, cmds, pc, cwork, target>>

Doer == Caller \cup {TimerTask}

\* workqueue_init, and krhino_work_init of every work
Init ==
    /\ created = {Default}
    /\ list = [q \in Queue |-> <<>>] /\ current = [q \in Queue |-> NULL]
    /\ sem = [q \in Queue |-> 0] /\ wpc = [q \in Queue |-> "take"]
    /\ exit = [w \in Work |-> FALSE] /\ wq = [w \in Work |-> NULL]
    /\ armed = [w \in Work |-> NULL] /\ cmds = <<>>
    /\ pc = [c \in Doer |-> "idle"]
    /\ cwork = [c \in Doer |-> NULL] /\ target = [c \in Doer |-> NULL]

\* w is on the list s
Listed(s, w) == \E i \in 1..Len(s) : s[i] = w

\* klist_rm_init(&work->work_node), wherever the node is linked
klist_rm_init(l, w) ==
    [q \in Queue |-> IF Listed(l[q], w)
                     THEN SelectSeq(l[q], LAMBDA x : x # w) ELSE l[q]]

-----------------------------------------------------------------------------
(* Callers.                                                                 *)

\* on storage that is not a work queue yet
krhino_workqueue_create(q) ==
    /\ q \notin created
    /\ created' = created \cup {q}
    /\ list' = [list EXCEPT ![q] = <<>>] /\ current' = [current EXCEPT ![q] = NULL]
    /\ sem' = [sem EXCEPT ![q] = 0] /\ wpc' = [wpc EXCEPT ![q] = "take"]
    /\ UNCHANGED <<exit, wq, armed, cmds, pc, cwork, target>>

\* w is initialised again while nothing in progress refers to it
krhino_work_init(w) ==
    /\ ~ exit[w] /\ armed[w] = NULL
    /\ \A q \in Queue : current[q] # w
    /\ \A c \in Doer : cwork[c] # w
    /\ \A i \in 1..Len(cmds) : cmds[i].work # w
    /\ wq' = [wq EXCEPT ![w] = NULL]
    /\ UNCHANGED <<created, list, current, sem, wpc, exit, armed, cmds, pc, cwork, target>>

\* faulty variant: work_exit is not looked at
free_if_idle(q, w) == current[q] # w

\* faulty variant: work_current is not looked at
free_if_unlinked(q, w) == ~ exit[w]

\* w may be queued on q
free_for(q, w) == current[q] # w /\ ~ exit[w]

\* the critical section that puts w on q; c gives the semaphore afterwards
enqueue(c, q, w) ==
    /\ list' = [klist_rm_init(list, w) EXCEPT ![q] = Append(@, w)]
    /\ wq' = [wq EXCEPT ![w] = q] /\ exit' = [exit EXCEPT ![w] = TRUE]
    /\ pc' = [pc EXCEPT ![c] = "give"] /\ target' = [target EXCEPT ![c] = q]

work_run(c, q, w) ==
    /\ pc[c] = "idle" /\ q \in created
    /\ w \notin Delayed /\ free_for(q, w)
    /\ enqueue(c, q, w)
    /\ UNCHANGED <<created, current, sem, wpc, armed, cmds, cwork>>

\* a work with a delay: krhino_timer_arg_change_auto
work_run_delayed(c, q, w) ==
    /\ pc[c] = "idle" /\ q \in created
    /\ w \in Delayed /\ Len(cmds) < MsgNum
    /\ cmds' = Append(cmds, [cmd |-> "AUTO", work |-> w, arg |-> q])
    /\ UNCHANGED <<created, list, current, sem, wpc, exit, wq, armed, pc, cwork, target>>

krhino_work_run(c, q, w) == work_run(c, q, w) \/ work_run_delayed(c, q, w)

\* faulty variant: the give is lost
sem_give_lost(c) ==
    /\ pc[c] = "give"
    /\ pc' = [pc EXCEPT ![c] = "idle"] /\ target' = [target EXCEPT ![c] = NULL]
    /\ UNCHANGED <<created, list, current, sem, wpc, exit, wq, armed, cmds, cwork>>

\* krhino_sem_give(&workqueue->sem), the end of krhino_work_run and of
\* work_timer_cb
sem_give(c) ==
    /\ pc[c] = "give"
    /\ sem' = [sem EXCEPT ![target[c]] = @ + 1]
    /\ pc' = [pc EXCEPT ![c] = "idle"] /\ target' = [target EXCEPT ![c] = NULL]
    /\ UNCHANGED <<created, list, current, wpc, exit, wq, armed, cmds, cwork>>

\* krhino_work_cancel reads work->wq before its critical section
work_cancel_read(c, w) ==
    /\ pc[c] = "idle"
    /\ pc' = [pc EXCEPT ![c] = "cancel"]
    /\ cwork' = [cwork EXCEPT ![c] = w] /\ target' = [target EXCEPT ![c] = wq[w]]
    /\ UNCHANGED <<created, list, current, sem, wpc, exit, wq, armed, cmds>>

cancel_end(c) ==
    /\ pc' = [pc EXCEPT ![c] = "idle"]
    /\ cwork' = [cwork EXCEPT ![c] = NULL] /\ target' = [target EXCEPT ![c] = NULL]

\* wq was NULL: stop the timer of a delayed work (the status of
\* krhino_timer_stop is ignored) and return RHINO_SUCCESS
work_cancel_stop(c) ==
    /\ pc[c] = "cancel" /\ target[c] = NULL
    /\ cmds' = IF cwork[c] \in Delayed /\ Len(cmds) < MsgNum
               THEN Append(cmds, [cmd |-> "STOP", work |-> cwork[c], arg |-> NULL])
               ELSE cmds
    /\ cancel_end(c)
    /\ UNCHANGED <<created, list, current, sem, wpc, exit, wq, armed>>

\* the critical section; RHINO_SUCCESS
work_cancel_off(c) ==
    /\ pc[c] = "cancel" /\ target[c] # NULL
    /\ free_for(target[c], cwork[c])
    /\ list' = klist_rm_init(list, cwork[c]) /\ wq' = [wq EXCEPT ![cwork[c]] = NULL]
    /\ cancel_end(c)
    /\ UNCHANGED <<created, current, sem, wpc, exit, armed, cmds>>

\* RHINO_WORKQUEUE_WORK_RUNNING or RHINO_WORKQUEUE_WORK_EXIST
work_cancel_busy(c) ==
    /\ pc[c] = "cancel" /\ target[c] # NULL
    /\ ~ free_for(target[c], cwork[c])
    /\ cancel_end(c)
    /\ UNCHANGED <<created, list, current, sem, wpc, exit, wq, armed, cmds>>

-----------------------------------------------------------------------------
(* The timer task, as the work queues see it.                               *)

\* TIMER_ARG_CHG_AUTO stops the timer, gives it the queue and starts it
timer_cmd_proc ==
    /\ pc[TimerTask] = "idle" /\ cmds # <<>>
    /\ armed' = [armed EXCEPT ![Head(cmds).work] = Head(cmds).arg]
    /\ cmds' = Tail(cmds)
    /\ UNCHANGED <<created, list, current, sem, wpc, exit, wq, pc, cwork, target>>

work_timer_cb(w) ==
    /\ pc[TimerTask] = "idle" /\ armed[w] # NULL
    /\ armed' = [armed EXCEPT ![w] = NULL]
    /\ \/ free_for(armed[w], w) /\ enqueue(TimerTask, armed[w], w)
       \/ ~ free_for(armed[w], w) /\ UNCHANGED <<list, wq, exit, pc, target>>
    /\ UNCHANGED <<created, current, sem, wpc, cmds, cwork>>

-----------------------------------------------------------------------------
(* worker_task.                                                             *)

\* faulty variant: the worker does not wait
worker_take_unchecked(q) ==
    /\ q \in created /\ wpc[q] = "take"
    /\ sem' = [sem EXCEPT ![q] = @ - 1] /\ wpc' = [wpc EXCEPT ![q] = "deq"]
    /\ UNCHANGED <<created, list, current, exit, wq, armed, cmds, pc, cwork, target>>

worker_take(q) ==
    /\ q \in created /\ wpc[q] = "take" /\ sem[q] > 0
    /\ sem' = [sem EXCEPT ![q] = @ - 1] /\ wpc' = [wpc EXCEPT ![q] = "deq"]
    /\ UNCHANGED <<created, list, current, exit, wq, armed, cmds, pc, cwork, target>>

\* faulty variant: work_exit stays set
worker_deq_exit(q) ==
    /\ wpc[q] = "deq" /\ list[q] # <<>>
    /\ list' = [list EXCEPT ![q] = Tail(@)]
    /\ current' = [current EXCEPT ![q] = Head(list[q])]
    /\ wpc' = [wpc EXCEPT ![q] = "run"]
    /\ UNCHANGED <<created, sem, exit, wq, armed, cmds, pc, cwork, target>>

\* the code does not look whether the list is empty
worker_deq(q) ==
    /\ wpc[q] = "deq" /\ list[q] # <<>>
    /\ list' = [list EXCEPT ![q] = Tail(@)]
    /\ current' = [current EXCEPT ![q] = Head(list[q])]
    /\ exit' = [exit EXCEPT ![Head(list[q])] = FALSE]
    /\ wpc' = [wpc EXCEPT ![q] = "run"]
    /\ UNCHANGED <<created, sem, wq, armed, cmds, pc, cwork, target>>

\* work->handle has returned
worker_clean(q) ==
    /\ wpc[q] = "run"
    /\ current' = [current EXCEPT ![q] = NULL] /\ wpc' = [wpc EXCEPT ![q] = "take"]
    /\ UNCHANGED <<created, list, sem, exit, wq, armed, cmds, pc, cwork, target>>

-----------------------------------------------------------------------------
CallerNext ==
    \E c \in Caller :
        \/ \E q \in Queue, w \in Work : krhino_work_run(c, q, w)
        \/ sem_give(c)
        \/ \E w \in Work : work_cancel_read(c, w)
        \/ work_cancel_stop(c) \/ work_cancel_off(c) \/ work_cancel_busy(c)

WorkerNext(q) == worker_take(q) \/ worker_deq(q) \/ worker_clean(q)

TimerNext == sem_give(TimerTask) \/ timer_cmd_proc \/ \E w \in Work : work_timer_cb(w)

Next ==
    \/ CallerNext \/ TimerNext
    \/ \E q \in Queue : WorkerNext(q) \/ krhino_workqueue_create(q)
    \/ \E w \in Work : krhino_work_init(w)

Spec == Init /\ [][Next]_wvars

\* Tasks inside a service go on with it, the workers are scheduled and the
\* handlers return.
Fairness ==
    /\ \A q \in Queue : WF_wvars(WorkerNext(q))
    /\ \A c \in Doer : WF_wvars(sem_give(c))

FairSpec == Spec /\ Fairness

-----------------------------------------------------------------------------
Cmds == [cmd : {"AUTO"}, work : Delayed, arg : Queue]
        \cup [cmd : {"STOP"}, work : Delayed, arg : {NULL}]

\* The work queues keep their types: no semaphore count goes below zero, and a
\* task in krhino_work_run, work_timer_cb or krhino_work_cancel has the queue and
\* the work that the rest of the call uses.
TypeOK ==
    /\ created \subseteq Queue
    /\ list \in [Queue -> Seq(Work)] /\ current \in [Queue -> Work \cup {NULL}]
    /\ sem \in [Queue -> Nat] /\ wpc \in [Queue -> {"take", "deq", "run"}]
    /\ exit \in [Work -> BOOLEAN] /\ wq \in [Work -> Queue \cup {NULL}]
    /\ armed \in [Work -> Queue \cup {NULL}] /\ cmds \in Seq(Cmds)
    /\ pc \in [Doer -> {"idle", "give", "cancel"}]
    /\ cwork \in [Doer -> Work \cup {NULL}] /\ target \in [Doer -> Queue \cup {NULL}]
    /\ \A c \in Doer : /\ pc[c] = "give" => target[c] \in Queue
                       /\ pc[c] = "cancel" => cwork[c] \in Work

\* A worker that has taken the semaphore finds a work on its list: it takes the
\* entry after the list head without looking, although the callers count the
\* work in only after their critical section and cancellation takes works off.
WorkerFindsWork == \A q \in Queue : wpc[q] = "deq" => list[q] # <<>>

\* work_exit and wq tell exactly where the work is linked: on the list of wq,
\* once, while work_exit is set, and nowhere else.  klist_rm_init and
\* klist_insert corrupt both lists otherwise.
LinkedOnce ==
    /\ \A q \in Queue, w \in Work : Listed(list[q], w) <=> (exit[w] /\ wq[w] = q)
    /\ \A q \in Queue : \A i, j \in 1..Len(list[q]) : list[q][i] = list[q][j] => i = j

\* The work a queue is running is not waiting on the same queue.
RunningNotQueued ==
    \A q \in Queue : current[q] # NULL => ~ Listed(list[q], current[q])

\* Every queued work is run, by the queue it was put on.
QueuedWorkRuns ==
    \A q \in Queue, w \in Work : Listed(list[q], w) ~> current[q] = w
=============================================================================
