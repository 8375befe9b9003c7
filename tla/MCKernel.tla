------------------------------ MODULE MCKernel -------------------------------
(***************************************************************************)
(* The instances of the kernel that TLC checks.  Each run takes the         *)
(* scheduler with its interrupts and the services its question is about.    *)
(***************************************************************************)
EXTENDS RhinoKernel
CONSTANTS a, b, c, x, y

\* The queues implement RhinoFifo: the messages are those the ring would yield.
Fifo == INSTANCE RhinoFifo WITH
    msgs  <- [q \in AnyQueue |-> Contents(k.ring[q])],
    waits <- WaitsFor(k, AnyQueue),
    got   <- [t \in Task |-> k.msg[t]]

\* Messages arrive in the order they were sent, unchanged and once: through the
\* ring, whose buffer ends in the middle of lengths and of payloads, and past it
\* when a receiver waits, whatever timeouts, aborts, flushes and interrupts do
\* in between.
ImplementsFifo == Fifo!FSpec

\* three tasks of three priorities; two of two, two of one
ThreePrios == (a :> 0) @@ (b :> 1) @@ (c :> 2)
TwoTasks == (a :> 0) @@ (b :> 1)
EqualTasks == (a :> 0) @@ (b :> 0)
OrderABC == <<a, b, c>>
OrderAB == <<a, b>>

\* messages with one and with three length bytes (Base = 4)
NoLengths == [m \in Msg |-> 1]
ShortAndLong == (x :> 1) @@ (y :> 4)

\* both flags, at least one of them to be cleared, and the second to be cleared
EventWants == {[flags |-> {1, 2}, all |-> TRUE, clear |-> FALSE],
               [flags |-> {1, 2}, all |-> FALSE, clear |-> TRUE],
               [flags |-> {2}, all |-> TRUE, clear |-> TRUE]}

\* chains of mutexes with timeouts, base priorities that change along them
MutexSpec == Init /\ [][SchedNext \/ SleepNext \/ MutexNext \/ PriNext]_vars

\* mutexes and tasks are deleted and created again
LifeSpec ==
    Init /\ [][SchedNext \/ SleepNext \/ MutexNext \/ MutexDelNext \/ LifeNext]_vars

\* scheduler locks, yields and time slices; tasks that sleep or wait for a
\* semaphore are suspended, resumed and aborted
TaskSpec ==
    Init /\ [][\/ SchedNext \/ LockNext \/ SleepNext \/ SuspendNext \/ AbortNext
              \/ RoundRobinNext \/ SemNext]_vars

\* An application that keeps at most one queue or event group at a time.
OneLive == LET live == k'.live IN Cardinality({o \in Obj : live[o]}) <= 1

\* queues and event groups, used by tasks and interrupts
IpcSpec ==
    Init /\ [][\/ SchedNext \/ AbortNext \/ QueueNext \/ EventNext
              \/ ((QueueDelNext \/ EventDelNext) /\ OneLive)]_vars

\* The processor goes on executing the running task's kernel code between the
\* interrupts, handlers return, and the timer of the board keeps interrupting.
\* (Strong fairness of core_sched and krhino_tick_proc, their ENABLED predicates
\* written out.)
InKernel == k.intr = 0 /\ k.pc[k.active] \in {"sched", "sched_pend", "pend"}
Fairness ==
    /\ []<>InKernel => []<><<\E t \in All : core_sched(t) \/ pend_state_end_proc(t)>>_vars
    /\ []<>(InIsr /\ k.tickl # <<>>) => []<><<krhino_tick_proc>>_vars
    /\ WF_vars(krhino_intrpt_enter) /\ WF_vars(krhino_intrpt_exit)

FairSpec ==
    /\ Init
    /\ [][SchedNext \/ SleepNext \/ AbortNext \/ MutexNext \/ SemNext \/ SemDelNext]_vars
    /\ Fairness

\* A call with a timeout made by the most urgent task returns, whatever the
\* others hold and however long they keep it.
TimedCallsReturn == k.pc[a] \in {"sched_pend", "pend"} ~> k.pc[a] = "user"
=============================================================================
