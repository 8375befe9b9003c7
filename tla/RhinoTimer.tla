----------------------------- MODULE RhinoTimer ------------------------------
(***************************************************************************)
(* The software timers of k_timer.c.  The services only put commands into   *)
(* the buffer queue g_timer_queue; the timer task takes them out, keeps the *)
(* list of active timers and runs the callbacks that are due.               *)
(*                                                                          *)
(* Time is relative: left[t] is timer->match - g_tick_count, which is       *)
(* negative when timer t is overdue, and late is g_tick_count -             *)
(* g_timer_count, the ticks since the timer task last read the clock.       *)
(* sys_time_t is unsigned: a negative difference wraps to a huge one.       *)
(* Calls that return an error (queue full, wrong argument) are no steps.    *)
(***************************************************************************)
EXTENDS Integers, Sequences, SequencesExt

CONSTANTS
    Timer,       \* the ktimer_t objects
    NULL,
    First,       \* the init_count each timer is created with
    Round,       \* the round_ticks each timer is created with
    NewTimes,    \* the <<first, round>> pairs timers are changed to
    MsgNum,      \* RHINO_CONFIG_TIMER_MSG_NUM
    MaxLag       \* how many ticks the timer task may be kept from running

ASSUME TimerAssumption ==
    /\ NULL \notin Timer
    /\ First \in [Timer -> Nat \ {0}] /\ Round \in [Timer -> Nat]
    /\ NewTimes \subseteq (Nat \ {0}) \X Nat
    /\ MsgNum \in Nat \ {0} /\ MaxLag \in Nat

VARIABLES
    live,      \* obj_type = RHINO_TIMER_OBJ_TYPE
    active,    \* timer_state = TIMER_ACTIVE
    init,      \* init_count
    round,     \* round_ticks
    left, late,
    list,      \* g_timer_head
    cmds,      \* g_timer_queue
    pc,        \* where the timer task is
    msg,       \* the command it has taken
    cur,       \* q of timer_cb_proc
    delay,     \* the timeout of its krhino_buf_queue_recv
    lag        \* ticks since it could have run

tvars == <<live, active, init, round, left, late, list, cmds, pc, msg, cur, delay, lag>>

Cmd == {"START", "STOP", "CHG", "ARG_CHG_AUTO", "DEL"}

Init ==
    /\ live = [t \in Timer |-> TRUE] /\ active = [t \in Timer |-> FALSE]
    /\ init = First /\ round = Round
    /\ left = [t \in Timer |-> 0] /\ late = 0
    /\ list = <<>> /\ cmds = <<>>
    /\ pc = "outer" /\ msg = NULL /\ cur = NULL /\ delay = 0 /\ lag = 0

-----------------------------------------------------------------------------
(* The services: krhino_buf_queue_send fails when the queue is full.        *)

\* faulty variant: the queue has no limit
send_unbounded(t, cmd, times) ==
    /\ cmds' = Append(cmds, [timer |-> t, cmd |-> cmd, times |-> times])
    /\ UNCHANGED <<live, active, init, round, left, late, list, pc, msg, cur, delay, lag>>

send(t, cmd, times) ==
    /\ Len(cmds) < MsgNum
    /\ cmds' = Append(cmds, [timer |-> t, cmd |-> cmd, times |-> times])
    /\ UNCHANGED <<live, active, init, round, left, late, list, pc, msg, cur, delay, lag>>

krhino_timer_start(t) == send(t, "START", <<0, 0>>)
krhino_timer_stop(t) == send(t, "STOP", <<0, 0>>)
krhino_timer_del(t) == send(t, "DEL", <<0, 0>>)
krhino_timer_arg_change_auto(t) == send(t, "ARG_CHG_AUTO", <<0, 0>>)
krhino_timer_change(t) == \E times \in NewTimes : send(t, "CHG", times)

\* a deleted timer is created again, once no command in progress names it
krhino_timer_create(t) ==
    /\ ~ live[t] /\ \A i \in 1..Len(cmds) : cmds[i].timer # t
    /\ (msg # NULL => msg.timer # t)
    /\ live' = [live EXCEPT ![t] = TRUE] /\ active' = [active EXCEPT ![t] = FALSE]
    /\ init' = [init EXCEPT ![t] = First[t]] /\ round' = [round EXCEPT ![t] = Round[t]]
    /\ UNCHANGED <<left, late, list, cmds, pc, msg, cur, delay, lag>>

-----------------------------------------------------------------------------
(* The timer list.  s holds list, left and active.                          *)

\* match - g_timer_count > val on unsigned numbers: true of an overdue timer
unsigned_greater(d, val) == d < 0 \/ d > val

\* faulty variant: at the end of the list
timer_list_append(s, t, val) ==
    [s EXCEPT !.left[t] = val - late, !.list = Append(@, t)]

\* before the first timer with more time left; match is counted from
\* g_timer_count
timer_list_pri_insert(s, t, val) ==
    LET i == SelectInSeq(s.list, LAMBDA x : unsigned_greater(s.left[x] + late, val))
    IN  [s EXCEPT !.left[t] = val - late,
                  !.list = InsertAt(@, IF i = 0 THEN Len(@) + 1 ELSE i, t)]

timer_list_rm(s, t) == [s EXCEPT !.list = RemoveFirst(@, t), !.left[t] = 0]

timers == [list |-> list, left |-> left, active |-> active]

set_timers(s) == list' = s.list /\ left' = s.left /\ active' = s.active

\* faulty variant: an active timer is started again
cmd_start_again(s, t) ==
    IF ~ live[t] THEN s
    ELSE [timer_list_pri_insert(s, t, init[t]) EXCEPT !.active[t] = TRUE]

cmd_start(s, t) ==
    IF ~ live[t] \/ s.active[t] THEN s
    ELSE [timer_list_pri_insert(s, t, init[t]) EXCEPT !.active[t] = TRUE]

cmd_stop(s, t) ==
    IF ~ live[t] \/ ~ s.active[t] THEN s
    ELSE [timer_list_rm(s, t) EXCEPT !.active[t] = FALSE]

\* timer_cmd_proc on the command taken; TIMER_CMD_CHG and TIMER_CMD_DEL are
\* dropped without a word when the timer is active
timer_cmd_proc ==
    LET t == msg.timer
        idle == live[t] /\ ~ active[t]
    IN  /\ set_timers(CASE msg.cmd = "START" -> cmd_start(timers, t)
                        [] msg.cmd = "STOP" -> cmd_stop(timers, t)
                        [] msg.cmd = "ARG_CHG_AUTO" -> cmd_start(cmd_stop(timers, t), t)
                        [] OTHER -> timers)
        /\ live' = IF msg.cmd = "DEL" /\ idle THEN [live EXCEPT ![t] = FALSE] ELSE live
        /\ IF msg.cmd = "CHG" /\ idle
           THEN init' = [init EXCEPT ![t] = msg.times[1]] /\ round' = [round EXCEPT ![t] = msg.times[2]]
           ELSE UNCHANGED <<init, round>>
        /\ msg' = NULL

-----------------------------------------------------------------------------
(* The timer task.  pc: "outer" and "timed" are its two calls of            *)
(* krhino_buf_queue_recv, "call" is on its way to the second one.           *)

\* the task has nothing to do until a command or a tick comes
Blocked == cmds = <<>> /\ (pc = "outer" \/ (pc = "timed" /\ delay > 0))

\* krhino_buf_queue_recv returns a command; g_timer_count is set to the tick
timer_task_recv ==
    /\ pc = "outer" \/ (pc = "timed" /\ delay > 0)
    /\ cmds # <<>>
    /\ msg' = Head(cmds) /\ cmds' = Tail(cmds)
    /\ pc' = IF pc = "outer" THEN "cmd" ELSE "cmd_cb"
    /\ late' = 0 /\ delay' = 0
    /\ UNCHANGED <<live, active, init, round, left, list, cur, lag>>

timer_task_cmd ==
    /\ pc \in {"cmd", "cmd_cb"}
    /\ timer_cmd_proc
    /\ IF pc = "cmd" THEN pc' = "inner" /\ cur' = cur
       ELSE pc' = "cb" /\ cur' = IF list' = <<>> THEN NULL ELSE Head(list')
    /\ UNCHANGED <<late, cmds, delay, lag>>

\* the condition of the inner loop and the time to the first timer
timer_task_inner ==
    /\ pc = "inner"
    /\ \/ /\ list = <<>>
          /\ pc' = "outer" /\ UNCHANGED <<late, cur, delay>>
       \/ /\ list # <<>> /\ left[Head(list)] > 0
          /\ pc' = "call" /\ delay' = left[Head(list)] /\ UNCHANGED <<late, cur>>
       \/ /\ list # <<>> /\ left[Head(list)] <= 0
          /\ pc' = "cb" /\ cur' = Head(list) /\ late' = 0 /\ UNCHANGED delay
    /\ UNCHANGED <<live, active, init, round, left, list, cmds, msg, lag>>

\* ticks that come before this are not counted by the timeout
timer_task_call ==
    /\ pc = "call"
    /\ pc' = "timed"
    /\ UNCHANGED <<live, active, init, round, left, late, list, cmds, msg, cur, delay, lag>>

\* RHINO_BLK_TIMEOUT
timer_task_timeout ==
    /\ pc = "timed" /\ delay = 0
    /\ pc' = "cb" /\ cur' = Head(list) /\ late' = 0
    /\ UNCHANGED <<live, active, init, round, left, list, cmds, msg, delay, lag>>

\* the timer at cur is due: its callback runs and it is queued again or not
fires(t) == pc = "cb" /\ cur = t /\ left[t] + late <= 0

\* q->next: a timer that was taken off still points to its old successor, one
\* that was queued again to the successor at its new place
next_of(l, t) ==
    LET i == SelectInSeq(l, LAMBDA x : x = t)
    IN  IF i = Len(l) THEN NULL ELSE l[i + 1]

\* faulty variant: a periodic timer that has fired is not queued again
timer_cb_proc_once ==
    /\ pc = "cb"
    /\ \/ /\ cur # NULL /\ fires(cur)
          /\ set_timers(timer_list_rm(timers, cur))
          /\ cur' = next_of(list, cur) /\ pc' = "cb"
       \/ /\ (cur # NULL => ~ fires(cur))
          /\ pc' = "inner" /\ cur' = NULL
          /\ UNCHANGED <<list, left, active>>
    /\ UNCHANGED <<live, init, round, late, cmds, msg, delay, lag>>

\* one iteration of timer_cb_proc
timer_cb_proc ==
    /\ pc = "cb"
    /\ \/ /\ cur # NULL /\ fires(cur)
          /\ LET off == timer_list_rm(timers, cur)
                 again == timer_list_pri_insert(off, cur, round[cur])
             IN  IF round[cur] > 0
                 THEN set_timers(again) /\ cur' = next_of(again.list, cur)
                 ELSE /\ set_timers([off EXCEPT !.active[cur] = FALSE])
                      /\ cur' = next_of(list, cur)
          /\ pc' = "cb"
       \/ /\ (cur # NULL => ~ fires(cur))
          /\ pc' = "inner" /\ cur' = NULL
          /\ UNCHANGED <<list, left, active>>
    /\ UNCHANGED <<live, init, round, late, cmds, msg, delay, lag>>

\* krhino_tick_proc, seen from the timers
tick ==
    /\ Blocked \/ lag < MaxLag
    /\ left' = [t \in Timer |-> IF Contains(list, t) THEN left[t] - 1 ELSE left[t]]
    /\ IF Blocked THEN lag' = 0 /\ late' = 0 /\ delay' = IF pc = "timed" THEN delay - 1 ELSE delay
       ELSE lag' = lag + 1 /\ late' = late + 1 /\ UNCHANGED delay
    /\ UNCHANGED <<live, active, init, round, list, cmds, pc, msg, cur>>

TaskNext ==
    \/ timer_task_recv \/ timer_task_cmd \/ timer_task_inner \/ timer_task_call
    \/ timer_task_timeout \/ timer_cb_proc

Next ==
    \/ TaskNext \/ tick
    \/ \E t \in Timer :
         \/ krhino_timer_start(t) \/ krhino_timer_stop(t) \/ krhino_timer_change(t)
         \/ krhino_timer_arg_change_auto(t)
         \/ krhino_timer_del(t) \/ krhino_timer_create(t)

Spec == Init /\ [][Next]_tvars

\* the timer task is scheduled, and the tick interrupt comes whatever it does
FairSpec == Spec /\ WF_tvars(TaskNext) /\ SF_tvars(tick)

-----------------------------------------------------------------------------
\* The timers keep their types, the command queue its limit (k_timer.c sends with
\* krhino_buf_queue_send, which fails when the queue is full), and the timer task
\* always has a timer at hand when it walks the list.
TypeOK ==
    /\ live \in [Timer -> BOOLEAN] /\ active \in [Timer -> BOOLEAN]
    /\ init \in [Timer -> Nat] /\ round \in [Timer -> Nat] /\ left \in [Timer -> Int]
    /\ list \in Seq(Timer) /\ Len(cmds) <= MsgNum
    /\ pc \in {"outer", "cmd", "cmd_cb", "inner", "call", "timed", "cb"}
    /\ cur \in Timer \cup {NULL} /\ late \in Nat /\ delay \in Nat /\ lag \in 0..MaxLag

\* timer_state and the list agree: a timer is queued exactly once while it is
\* active and never after it was deleted (its memory may be reused).
ListedMeansActive ==
    /\ \A t \in Timer : (active[t] <=> Contains(list, t)) /\ (active[t] => live[t])
    /\ \A i, j \in 1..Len(list) : list[i] = list[j] => i = j

\* The timer task sleeps no longer than to the next timer: "sort by remain time"
\* (k_timer.c).  While it waits, no active timer is due earlier than the first.
SleepsToTheNextTimer ==
    pc \in {"call", "timed"} => \A i \in 1..Len(list) : left[Head(list)] <= left[list[i]]

\* Unless the callers keep the timer task busy forever, an active timer fires
\* or is itself the subject of a command, whatever the commands do to the other
\* timers.
TimersFire ==
    []<>Blocked => \A t \in Timer : active[t] ~> (fires(t) \/ (msg # NULL /\ msg.timer = t))
=============================================================================
