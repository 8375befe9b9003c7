--------------------------- MODULE RhinoTimerProofs ---------------------------
(***************************************************************************)
(* The software timers are safe for every number of timers, commands and    *)
(* ticks: the list of g_timer_head holds exactly the active timers, and as  *)
(* long as nothing keeps the timer task from running it sleeps to the next  *)
(* timer and no longer.                                                     *)
(*                                                                          *)
(* ListedMeansActive needs the walk of timer_cb_proc: the timer it has come *)
(* to is on the list (CurListed), and the task is in its timed wait only    *)
(* while the list has a first timer (WaitsForOne).  SleepsToTheNextTimer is *)
(* not inductive: it needs the order of the whole list at all times, that   *)
(* no timer on it is overdue, and that the timeout of the wait is the time  *)
(* of the first timer (Punctual).                                           *)
(***************************************************************************)
EXTENDS RhinoTimer, ListTheorems

\* what krhino_timer_* puts into g_timer_queue
CmdMsg == {m \in [timer : Timer, cmd : Cmd, times : Nat \X Nat] :
              m.cmd = "CHG" => m.times[1] > 0}

CmdsTyped ==
    /\ cmds \in Seq(CmdMsg)
    /\ IF pc \in {"cmd", "cmd_cb"} THEN msg \in CmdMsg ELSE msg = NULL

CurListed == IF pc = "cb" THEN cur # NULL => cur \in ToSet(list) ELSE cur = NULL

WaitsForOne ==
    /\ pc \in {"call", "timed"} => list # <<>>
    /\ pc = "outer" => list = <<>>

TInv == TypeOK /\ CmdsTyped /\ ListedMeansActive /\ CurListed /\ WaitsForOne

\* with a timer task that always runs at once
Punctual ==
    /\ late = 0
    /\ \A i \in 1..Len(list) : left[list[i]] >= 0
    /\ Ordered(list, left)
    /\ pc \in {"call", "timed"} => delay = left[Head(list)]

-----------------------------------------------------------------------------
(* The list operations of k_timer.c on a record s of the list, the times and *)
(* the states of the timers.                                                *)

TimersTyped(s) ==
    /\ s = [x \in {"list", "left", "active"} |-> s[x]]
    /\ s.list \in Seq(Timer) /\ IsInjective(s.list)
    /\ s.left \in [Timer -> Int] /\ s.active \in [Timer -> BOOLEAN]

\* the list holds the active timers
TimersOK(s) == TimersTyped(s) /\ \A t \in Timer : s.active[t] <=> t \in ToSet(s.list)

\* it is in order and no timer on it is overdue
OrderOK(s) == Ordered(s.list, s.left) /\ \A x \in ToSet(s.list) : s.left[x] >= 0

\* timer_list_pri_insert links the timer in, and in order if no timer is overdue
\* and g_timer_count is up to date.
LEMMA PriInsert ==
  ASSUME NEW s, TimersTyped(s), NEW t \in Timer, t \notin ToSet(s.list),
         NEW val \in Nat, late \in Nat
  PROVE  LET r == timer_list_pri_insert(s, t, val)
         IN  /\ TimersTyped(r) /\ ToSet(r.list) = ToSet(s.list) \cup {t}
             /\ r.active = s.active
             /\ late = 0 /\ OrderOK(s) => OrderOK(r)
<1> DEFINE l == s.list
           f == s.left
           I == {i \in 1..Len(l) : unsigned_greater(f[l[i]] + late, val)}
           n == IF I # {} THEN Min(I) ELSE 0
           p == IF n = 0 THEN Len(l) + 1 ELSE n
           g == [f EXCEPT ![t] = val - late]
           r == timer_list_pri_insert(s, t, val)
           q == InsertAt(l, p, t)
<1>0. /\ Len(l) \in Nat /\ \A i \in 1..Len(l) : l[i] \in Timer /\ l[i] \in ToSet(l)
      /\ l \in Seq(Timer) /\ IsInjective(l) /\ f \in [Timer -> Int]
  BY LenProperties, ElementOfSeq, ToSetDef DEF TimersTyped
<1>1. r = [s EXCEPT !.left[t] = val - late, !.list = InsertAt(@, p, t)]
  BY DEF timer_list_pri_insert, SelectInSeq
<1>2. r.list = q /\ r.left = g /\ r.active = s.active
  <2> HIDE DEF p, r
  <2> QED
    BY <1>1 DEF TimersTyped
<1>3. r = [x \in {"list", "left", "active"} |-> r[x]]
  <2> HIDE DEF p, r
  <2> QED
    BY <1>1 DEF TimersTyped
<1> HIDE DEF r, l, f
<1>4. I \in SUBSET Nat
  BY <1>0
<1> HIDE DEF I
<1>5. I # {} => Min(I) \in I
  BY <1>4, MinNat
<1>6. p \in 1..(Len(l) + 1)
  BY <1>0, <1>5 DEF I
<1>7. q \in Seq(Timer) /\ IsInjective(q) /\ ToSet(q) = ToSet(l) \cup {t}
  <2> HIDE DEF p
  <2> QED
    BY <1>0, <1>6, InsertedProperties DEF l
<1>8. g \in [Timer -> Int] /\ g[t] = val - late /\ \A x \in ToSet(l) : g[x] = f[x]
  BY <1>0, ToSetDef DEF l
<1>9. ASSUME late = 0, OrderOK(s) PROVE OrderOK(r)
  <2>0. Ordered(l, f) /\ \A x \in ToSet(l) : f[x] >= 0
    BY <1>9 DEF OrderOK, l, f
  <2>1. I = {i \in 1..Len(l) : f[l[i]] > val}
    <3>1. \A i \in 1..Len(l) :
             unsigned_greater(f[l[i]] + late, val) <=> f[l[i]] > val
      BY <1>0, <1>9, <2>0 DEF unsigned_greater
    <3> QED
      BY <3>1 DEF I
  <2>2. I # {} => Min(I) # 0
    BY <1>0, <1>5 DEF I
  <2>3. p = Place(l, f, val)
    BY <2>1, <2>2 DEF Place
  <2>4. g[t] = val
    BY <1>8, <1>9
  <2> HIDE DEF p, g
  <2>5. Ordered(q, g)
    <3>1. val \in Int
      OBVIOUS
    <3>2. \A e \in Timer, h \in [Timer -> Int] :
             (\A x \in ToSet(l) : h[x] = f[x]) /\ h[e] = val
               => Ordered(InsertAt(l, Place(l, f, val), e), h)
      BY SMTT(30), <1>0, <2>0, <3>1, PlaceProperties
    <3> QED
      BY <1>8, <2>3, <2>4, <3>2
  <2>6. \A x \in ToSet(q) : g[x] >= 0
    BY <1>7, <1>8, <2>0, <2>4
  <2> QED
    BY <1>2, <2>5, <2>6 DEF OrderOK
<1>10. TimersTyped(r)
  <2> HIDE DEF q, g
  <2> QED
    BY <1>2, <1>3, <1>7, <1>8 DEF TimersTyped
<1> QED
  BY <1>2, <1>7, <1>9, <1>10 DEF r, l

\* timer_list_rm takes the timer off.
LEMMA ListRm ==
  ASSUME NEW s, TimersTyped(s), NEW t \in Timer
  PROVE  LET r == timer_list_rm(s, t)
         IN  /\ TimersTyped(r) /\ ToSet(r.list) = ToSet(s.list) \ {t}
             /\ r.active = s.active
             /\ OrderOK(s) => OrderOK(r)
<1> DEFINE r == timer_list_rm(s, t)
<1>1. /\ r.list = RemoveFirst(s.list, t) /\ r.left = [s.left EXCEPT ![t] = 0]
      /\ r.active = s.active /\ r = [x \in {"list", "left", "active"} |-> r[x]]
  BY DEF timer_list_rm, TimersTyped
<1> HIDE DEF r
<1>2. /\ r.list \in Seq(Timer) /\ IsInjective(r.list)
      /\ ToSet(r.list) = ToSet(s.list) \ {t}
      /\ Ordered(s.list, s.left) => Ordered(r.list, s.left)
  BY <1>1, RemoveFirstProperties DEF TimersTyped
<1>3. TimersTyped(r)
  BY <1>1, <1>2 DEF TimersTyped
<1>4. ASSUME OrderOK(s) PROVE OrderOK(r)
  <2>1. \A x \in ToSet(r.list) : r.left[x] = s.left[x]
    BY <1>1, <1>2, ToSetDef DEF TimersTyped
  <2>2. \A i \in 1..Len(r.list) : r.left[r.list[i]] = s.left[r.list[i]]
    BY <1>2, <2>1, ToSetDef
  <2> QED
    BY <1>2, <1>4, <2>1, <2>2 DEF OrderOK, Ordered
<1> QED
  BY <1>1, <1>2, <1>3, <1>4 DEF r

\* TIMER_CMD_START keeps list and states in step; only a live timer is started.
LEMMA CmdStart ==
  ASSUME NEW s, TimersOK(s), NEW t \in Timer, init \in [Timer -> Nat], late \in Nat
  PROVE  LET r == cmd_start(s, t)
         IN  /\ TimersOK(r)
             /\ \A u \in Timer : r.active[u] => s.active[u] \/ live[u]
             /\ late = 0 /\ OrderOK(s) => OrderOK(r)
<1>1. CASE ~ live[t] \/ s.active[t]
  <2>1. cmd_start(s, t) = s
    BY <1>1 DEF cmd_start
  <2> QED
    BY <2>1 DEF TimersOK
<1>2. CASE ~ (~ live[t] \/ s.active[t])
  <2> DEFINE i == timer_list_pri_insert(s, t, init[t])
             r == cmd_start(s, t)
  <2>1. init[t] \in Nat /\ t \notin ToSet(s.list)
    BY <1>2 DEF TimersOK
  <2>2. /\ TimersTyped(i) /\ ToSet(i.list) = ToSet(s.list) \cup {t}
        /\ i.active = s.active
        /\ late = 0 /\ OrderOK(s) => OrderOK(i)
    BY <2>1, PriInsert DEF TimersOK
  <2> HIDE DEF i
  <2>3. r = [i EXCEPT !.active[t] = TRUE]
    BY <1>2 DEF cmd_start, i
  <2> HIDE DEF r
  <2>4. /\ r.list = i.list /\ r.left = i.left /\ r.active = [i.active EXCEPT ![t] = TRUE]
        /\ r = [x \in {"list", "left", "active"} |-> r[x]]
    BY <2>2, <2>3 DEF TimersTyped
  <2>5. TimersTyped(r)
    BY <2>2, <2>4 DEF TimersTyped
  <2>6. \A u \in Timer : r.active[u] <=> s.active[u] \/ u = t
    BY <2>2, <2>4 DEF TimersOK, TimersTyped
  <2> QED
    BY <1>2, <2>2, <2>4, <2>5, <2>6 DEF TimersOK, OrderOK, r
<1> QED
  BY <1>1, <1>2

\* TIMER_CMD_STOP does, too.
LEMMA CmdStop ==
  ASSUME NEW s, TimersOK(s), NEW t \in Timer
  PROVE  LET r == cmd_stop(s, t)
         IN  /\ TimersOK(r)
             /\ \A u \in Timer : r.active[u] => s.active[u]
             /\ OrderOK(s) => OrderOK(r)
<1>1. CASE ~ live[t] \/ ~ s.active[t]
  <2>1. cmd_stop(s, t) = s
    BY <1>1 DEF cmd_stop
  <2> QED
    BY <2>1
<1>2. CASE ~ (~ live[t] \/ ~ s.active[t])
  <2> DEFINE i == timer_list_rm(s, t)
             r == cmd_stop(s, t)
  <2>1. /\ TimersTyped(i) /\ ToSet(i.list) = ToSet(s.list) \ {t}
        /\ i.active = s.active
        /\ OrderOK(s) => OrderOK(i)
    BY ListRm DEF TimersOK
  <2> HIDE DEF i
  <2>2. r = [i EXCEPT !.active[t] = FALSE]
    BY <1>2 DEF cmd_stop, i
  <2> HIDE DEF r
  <2>3. /\ r.list = i.list /\ r.left = i.left /\ r.active = [i.active EXCEPT ![t] = FALSE]
        /\ r = [x \in {"list", "left", "active"} |-> r[x]]
    BY <2>1, <2>2 DEF TimersTyped
  <2>4. TimersTyped(r)
    BY <2>1, <2>3 DEF TimersTyped
  <2>5. \A u \in Timer : r.active[u] <=> s.active[u] /\ u # t
    BY <2>1, <2>3 DEF TimersOK, TimersTyped
  <2> QED
    BY <2>1, <2>3, <2>4, <2>5 DEF TimersOK, OrderOK, r
<1> QED
  BY <1>1, <1>2

-----------------------------------------------------------------------------
(* The steps.                                                               *)

\* What TInv says of the list, as a statement about the record timers.
LEMMA TimersRecord ==
  ASSUME TypeOK, ListedMeansActive
  PROVE  /\ TimersOK(timers) /\ timers.list = list /\ timers.left = left
         /\ timers.active = active
<1>1. /\ timers.list = list /\ timers.left = left /\ timers.active = active
      /\ timers = [x \in {"list", "left", "active"} |-> timers[x]]
  BY DEF timers
<1> HIDE DEF timers
<1>2. IsInjective(list)
  BY LenProperties DEF TypeOK, ListedMeansActive, IsInjective
<1>3. \A t \in Timer : active[t] <=> t \in ToSet(list)
  BY ToSetDef DEF TypeOK, ListedMeansActive
<1> QED
  BY <1>1, <1>2, <1>3 DEF TimersOK, TimersTyped, TypeOK

\* And back.
LEMMA RecordTimers ==
  ASSUME NEW s, TimersOK(s), set_timers(s), NEW lv,
         \A t \in Timer : s.active[t] => lv[t]
  PROVE  /\ list' \in Seq(Timer) /\ left' \in [Timer -> Int]
         /\ active' \in [Timer -> BOOLEAN]
         /\ \A t \in Timer : (active'[t] <=> Contains(list', t)) /\ (active'[t] => lv[t])
         /\ \A i, j \in 1..Len(list') : list'[i] = list'[j] => i = j
<1>1. \A i, j \in 1..Len(s.list) : s.list[i] = s.list[j] => i = j
  BY LenProperties DEF TimersOK, TimersTyped, IsInjective
<1>2. \A t \in Timer : t \in ToSet(s.list) <=> Contains(s.list, t)
  BY ToSetDef DEF TimersOK, TimersTyped
<1> QED
  BY <1>1, <1>2 DEF TimersOK, TimersTyped, set_timers

\* Initially there is no timer on the list.
LEMMA TInvInit == Init => TInv
<1> SUFFICES ASSUME Init PROVE TInv
  OBVIOUS
<1>1. <<>> \in Seq(Timer) /\ <<>> \in Seq(CmdMsg) /\ Len(<<>>) = 0
  OBVIOUS
<1>2. TypeOK
  BY <1>1, TimerAssumption DEF Init, TypeOK
<1>3. ListedMeansActive
  BY <1>1 DEF Init, ListedMeansActive, Contains
<1> QED
  BY <1>1, <1>2, <1>3 DEF Init, TInv, CmdsTyped, CurListed, WaitsForOne

\* A service only adds a command.
LEMMA SendTInv ==
  ASSUME TInv, NEW t \in Timer, NEW c \in Cmd, NEW times \in Nat \X Nat,
         c = "CHG" => times[1] > 0, send(t, c, times)
  PROVE  TInv'
<1> DEFINE m == [timer |-> t, cmd |-> c, times |-> times]
<1>1. m \in CmdMsg
  BY DEF CmdMsg
<1> HIDE DEF m
<1>2. cmds' = Append(cmds, m) /\ Len(cmds) < MsgNum
  BY DEF send, m
<1>3. cmds' \in Seq(CmdMsg) /\ Len(cmds') = Len(cmds) + 1 /\ Len(cmds) \in Nat
  BY <1>1, <1>2, AppendProperties, LenProperties DEF TInv, CmdsTyped
<1>4. Len(cmds') <= MsgNum
  BY <1>2, <1>3, TimerAssumption
<1> QED
  BY <1>3, <1>4 DEF TInv, TypeOK, CmdsTyped, ListedMeansActive, CurListed, WaitsForOne, send

\* A timer that is created again was not on the list.
LEMMA CreateTInv ==
  ASSUME TInv, NEW t \in Timer, krhino_timer_create(t)
  PROVE  TInv'
<1>1. ~ live[t] /\ ~ active[t]
  BY DEF TInv, TypeOK, ListedMeansActive, krhino_timer_create
<1>2. First[t] \in Nat /\ Round[t] \in Nat
  BY TimerAssumption
<1>3. TypeOK'
  BY <1>2 DEF TInv, TypeOK, krhino_timer_create
<1>4. ListedMeansActive'
  BY <1>1 DEF TInv, TypeOK, ListedMeansActive, krhino_timer_create
<1> QED
  BY <1>3, <1>4 DEF TInv, CmdsTyped, CurListed, WaitsForOne, krhino_timer_create

\* The timer task takes a command.
LEMMA RecvTInv ==
  ASSUME TInv, timer_task_recv
  PROVE  TInv'
<1>1. /\ Head(cmds) \in CmdMsg /\ Tail(cmds) \in Seq(CmdMsg)
      /\ Len(Tail(cmds)) = Len(cmds) - 1 /\ Len(cmds) \in Nat
  BY HeadTailProperties, LenProperties DEF TInv, CmdsTyped, timer_task_recv
<1>2. Len(cmds') <= MsgNum
  BY <1>1, TimerAssumption DEF TInv, TypeOK, timer_task_recv
<1>3. TypeOK'
  BY <1>2 DEF TInv, TypeOK, timer_task_recv
<1>4. CmdsTyped'
  BY <1>1 DEF TInv, CmdsTyped, timer_task_recv
<1> QED
  BY <1>3, <1>4 DEF TInv, ListedMeansActive, CurListed, WaitsForOne, timer_task_recv

\* what timer_cmd_proc makes of the timers
CmdResult ==
    CASE msg.cmd = "START" -> cmd_start(timers, msg.timer)
      [] msg.cmd = "STOP" -> cmd_stop(timers, msg.timer)
      [] msg.cmd = "ARG_CHG_AUTO" -> cmd_start(cmd_stop(timers, msg.timer), msg.timer)
      [] OTHER -> timers

\* A command leaves list and states in step.
LEMMA CmdResultOK ==
  ASSUME TInv, msg \in CmdMsg
  PROVE  /\ TimersOK(CmdResult)
         /\ \A u \in Timer : CmdResult.active[u] => active[u] \/ live[u]
         /\ late = 0 /\ OrderOK(timers) => OrderOK(CmdResult)
         /\ msg.cmd = "DEL" => CmdResult = timers
<1>0. msg.timer \in Timer /\ msg.cmd \in Cmd
  BY DEF CmdMsg
<1>1. TimersOK(timers) /\ timers.active = active
  BY TimersRecord DEF TInv
<1>2. init \in [Timer -> Nat] /\ late \in Nat
  BY DEF TInv, TypeOK
<1> HIDE DEF timers
<1>3. CASE msg.cmd = "START"
  <2>1. CmdResult = cmd_start(timers, msg.timer)
    BY <1>3 DEF CmdResult
  <2> QED
    BY <1>0, <1>1, <1>2, <1>3, <2>1, CmdStart
<1>4. CASE msg.cmd = "STOP"
  <2>1. CmdResult = cmd_stop(timers, msg.timer)
    BY <1>4 DEF CmdResult
  <2> QED
    BY <1>0, <1>1, <1>4, <2>1, CmdStop
<1>5. CASE msg.cmd = "ARG_CHG_AUTO"
  <2> DEFINE s == cmd_stop(timers, msg.timer)
  <2>1. CmdResult = cmd_start(s, msg.timer)
    BY <1>5 DEF CmdResult
  <2>2. /\ TimersOK(s) /\ \A u \in Timer : s.active[u] => active[u]
        /\ OrderOK(timers) => OrderOK(s)
    BY <1>0, <1>1, CmdStop
  <2> HIDE DEF s
  <2> QED
    BY <1>0, <1>1, <1>2, <1>5, <2>1, <2>2, CmdStart
<1>6. CASE msg.cmd \in {"CHG", "DEL"}
  <2>1. CmdResult = timers
    BY <1>6 DEF CmdResult
  <2> QED
    BY <1>1, <2>1
<1> QED
  BY <1>0, <1>3, <1>4, <1>5, <1>6 DEF Cmd

\* The timer task carries a command out.
LEMMA CmdTInv ==
  ASSUME TInv, timer_task_cmd
  PROVE  TInv'
<1>0. msg \in CmdMsg /\ pc \in {"cmd", "cmd_cb"}
  BY DEF TInv, CmdsTyped, timer_task_cmd
<1>1. /\ msg.timer \in Timer /\ msg.cmd \in Cmd /\ msg.times[1] \in Nat /\ msg.times[2] \in Nat
  BY <1>0 DEF CmdMsg
<1>2. set_timers(CmdResult)
  BY DEF timer_task_cmd, timer_cmd_proc, CmdResult
<1>3. /\ live' = IF msg.cmd = "DEL" /\ live[msg.timer] /\ ~ active[msg.timer]
                 THEN [live EXCEPT ![msg.timer] = FALSE] ELSE live
      /\ \/ /\ init' = [init EXCEPT ![msg.timer] = msg.times[1]]
            /\ round' = [round EXCEPT ![msg.timer] = msg.times[2]]
         \/ UNCHANGED <<init, round>>
      /\ msg' = NULL
  BY DEF timer_task_cmd, timer_cmd_proc
<1>4. /\ TimersOK(CmdResult)
      /\ \A u \in Timer : CmdResult.active[u] => active[u] \/ live[u]
      /\ msg.cmd = "DEL" => CmdResult.active = active
  BY <1>0, CmdResultOK, TimersRecord DEF TInv
<1>5. \A u \in Timer : CmdResult.active[u] => live'[u]
  BY <1>1, <1>3, <1>4 DEF TInv, TypeOK, ListedMeansActive
<1>6. /\ list' \in Seq(Timer) /\ left' \in [Timer -> Int] /\ active' \in [Timer -> BOOLEAN]
      /\ ListedMeansActive'
  BY <1>2, <1>4, <1>5, RecordTimers DEF ListedMeansActive
<1>7. init' \in [Timer -> Nat] /\ round' \in [Timer -> Nat] /\ live' \in [Timer -> BOOLEAN]
  BY <1>1, <1>3 DEF TInv, TypeOK
<1>8. /\ UNCHANGED <<late, cmds, delay, lag>>
      /\ \/ pc' = "inner" /\ cur' = cur /\ cur = NULL
         \/ pc' = "cb" /\ cur' = IF list' = <<>> THEN NULL ELSE Head(list')
  BY <1>0 DEF timer_task_cmd, TInv, CurListed
<1>9. list' # <<>> => Head(list') \in Timer /\ Head(list') \in ToSet(list')
  BY <1>6, HeadTailProperties, EmptySeq, LenProperties, ToSetDef
<1>10. TypeOK'
  BY <1>6, <1>7, <1>8, <1>9 DEF TInv, TypeOK
<1> QED
  BY <1>3, <1>6, <1>8, <1>9, <1>10 DEF TInv, CmdsTyped, CurListed, WaitsForOne

\* The condition of the inner loop.
LEMMA InnerTInv ==
  ASSUME TInv, timer_task_inner
  PROVE  TInv'
<1>1. list # <<>> => Head(list) \in Timer /\ Head(list) \in ToSet(list)
  BY SMTT(30), HeadTailProperties, EmptySeq, LenProperties, ToSetDef DEF TInv, TypeOK
<1>2. list # <<>> /\ left[Head(list)] > 0 => left[Head(list)] \in Nat
  BY <1>1 DEF TInv, TypeOK
<1>3. TypeOK'
  BY SMTT(30), <1>1, <1>2 DEF TInv, TypeOK, timer_task_inner
<1> QED
  BY <1>1, <1>3 DEF TInv, CmdsTyped, ListedMeansActive, CurListed, WaitsForOne, timer_task_inner

\* The calls of krhino_buf_queue_recv and its timeout.
LEMMA WaitTInv ==
  ASSUME TInv, timer_task_call \/ timer_task_timeout
  PROVE  TInv'
<1>1. list # <<>> => Head(list) \in Timer /\ Head(list) \in ToSet(list)
  BY SMTT(30), HeadTailProperties, EmptySeq, LenProperties, ToSetDef DEF TInv, TypeOK
<1>2. CASE timer_task_call
  BY <1>2 DEF TInv, TypeOK, CmdsTyped, ListedMeansActive, CurListed, WaitsForOne, timer_task_call
<1>3. CASE timer_task_timeout
  BY <1>1, <1>3 DEF TInv, TypeOK, CmdsTyped, ListedMeansActive, CurListed, WaitsForOne,
                    timer_task_timeout
<1> QED
  BY <1>2, <1>3

\* q->next is another timer of the list, or its end.
LEMMA NextOf ==
  ASSUME NEW l \in Seq(Timer), IsInjective(l), NEW t \in ToSet(l)
  PROVE  next_of(l, t) = NULL \/ next_of(l, t) \in ToSet(l) \ {t}
<1> DEFINE I == {i \in 1..Len(l) : l[i] = t}
           n == IF I # {} THEN Min(I) ELSE 0
<1>0. Len(l) \in Nat /\ DOMAIN l = 1..Len(l)
  BY LenProperties
<1>1. next_of(l, t) = IF n = Len(l) THEN NULL ELSE l[n + 1]
  BY DEF next_of, SelectInSeq
<1>2. I \in SUBSET Nat /\ I # {}
  BY <1>0, ToSetDef
<1> HIDE DEF I
<1>3. Min(I) \in I
  BY <1>2, MinNat
<1>4. n \in 1..Len(l) /\ l[n] = t
  BY <1>2, <1>3 DEF I
<1> HIDE DEF n
<1>5. CASE n = Len(l)
  BY <1>1, <1>5
<1>6. CASE n # Len(l)
  <2>0. n \in Nat /\ 1 <= n /\ n <= Len(l) /\ Len(l) \in Nat
    BY <1>0, <1>4
  <2>1. n + 1 \in 1..Len(l) /\ n + 1 # n
    BY <1>6, <2>0
  <2>2. l[n + 1] # t
    BY <1>0, <1>4, <2>1 DEF IsInjective
  <2> QED
    BY <1>1, <1>6, <2>1, <2>2, ToSetDef
<1> QED
  BY <1>5, <1>6

\* what an iteration of timer_cb_proc makes of the timers
FireResult(t) ==
    IF round[t] > 0 THEN timer_list_pri_insert(timer_list_rm(timers, t), t, round[t])
                    ELSE [timer_list_rm(timers, t) EXCEPT !.active[t] = FALSE]

\* A timer that has fired is off the list, or on it again at its new place.
LEMMA FireResultOK ==
  ASSUME TInv, NEW t \in Timer, t \in ToSet(list)
  PROVE  LET r == FireResult(t)
         IN  /\ TimersOK(r)
             /\ \A u \in Timer : r.active[u] => active[u]
             /\ late = 0 /\ OrderOK(timers) => OrderOK(r)
             /\ ToSet(list) \ {t} \subseteq ToSet(r.list)
             /\ round[t] > 0 => t \in ToSet(r.list)
<1> DEFINE off == timer_list_rm(timers, t)
           r == FireResult(t)
<1>1. /\ TimersOK(timers) /\ timers.active = active /\ timers.list = list
      /\ round[t] \in Nat /\ late \in Nat
  BY TimersRecord DEF TInv, TypeOK
<1>2. /\ TimersTyped(off) /\ ToSet(off.list) = ToSet(list) \ {t} /\ off.active = active
      /\ OrderOK(timers) => OrderOK(off)
  <2> HIDE DEF timers
  <2> QED
    BY <1>1, ListRm DEF TimersOK
<1>3. \A u \in Timer : active[u] <=> u \in ToSet(list)
  BY <1>1 DEF TimersOK
<1> HIDE DEF off
<1>4. CASE round[t] > 0
  <2>1. r = timer_list_pri_insert(off, t, round[t])
    BY <1>4 DEF FireResult, off
  <2> HIDE DEF r
  <2>2. t \notin ToSet(off.list)
    BY <1>2
  <2>3. /\ TimersTyped(r) /\ ToSet(r.list) = ToSet(off.list) \cup {t}
        /\ r.active = off.active
        /\ late = 0 /\ OrderOK(off) => OrderOK(r)
    BY ZenonT(60), <1>1, <1>2, <2>1, <2>2, PriInsert
  <2>4. TimersOK(r)
    BY <1>2, <1>3, <2>3 DEF TimersOK
  <2> QED
    BY <1>2, <2>3, <2>4 DEF r
<1>5. CASE ~ (round[t] > 0)
  <2>1. r = [off EXCEPT !.active[t] = FALSE]
    BY <1>5 DEF FireResult, off
  <2> HIDE DEF r
  <2>2. /\ r.list = off.list /\ r.left = off.left /\ r.active = [active EXCEPT ![t] = FALSE]
        /\ r = [x \in {"list", "left", "active"} |-> r[x]]
    BY <1>2, <2>1 DEF TimersTyped
  <2>3. TimersTyped(r)
    BY <1>2, <2>2 DEF TimersTyped
  <2>4. \A u \in Timer : r.active[u] <=> active[u] /\ u # t
    BY <1>1, <2>2 DEF TimersOK, TimersTyped
  <2>5. TimersOK(r)
    BY <1>2, <1>3, <2>2, <2>3, <2>4 DEF TimersOK
  <2> QED
    BY <1>2, <1>5, <2>2, <2>4, <2>5 DEF OrderOK, r
<1> QED
  BY <1>4, <1>5

\* An iteration of timer_cb_proc.
LEMMA CbTInv ==
  ASSUME TInv, timer_cb_proc
  PROVE  TInv'
<1>0. pc = "cb" /\ UNCHANGED <<live, init, round, late, cmds, msg, delay, lag>>
  BY DEF timer_cb_proc
<1>1. CASE cur # NULL /\ fires(cur)
  <2>0. cur \in Timer /\ cur \in ToSet(list) /\ list \in Seq(Timer) /\ IsInjective(list)
    BY <1>0, <1>1, TimersRecord DEF TInv, TypeOK, CurListed, TimersOK, TimersTyped
  <2> DEFINE r == FireResult(cur)
  <2>1. /\ TimersOK(r) /\ \A u \in Timer : r.active[u] => active[u]
        /\ ToSet(list) \ {cur} \subseteq ToSet(r.list)
        /\ round[cur] > 0 => cur \in ToSet(r.list)
    BY <2>0, FireResultOK
  <2>2. set_timers(r) /\ pc' = "cb"
    BY <1>1 DEF timer_cb_proc, FireResult
  <2>3. cur' = IF round[cur] > 0 THEN next_of(r.list, cur) ELSE next_of(list, cur)
    BY <1>1 DEF timer_cb_proc, FireResult
  <2> HIDE DEF r
  <2>4. /\ list' \in Seq(Timer) /\ left' \in [Timer -> Int] /\ active' \in [Timer -> BOOLEAN]
        /\ ListedMeansActive'
    <3>1. \A u \in Timer : r.active[u] => live'[u]
      BY <1>0, <2>1 DEF TInv, ListedMeansActive
    <3> QED
      BY <2>1, <2>2, <3>1, RecordTimers DEF ListedMeansActive
  <2>5. list' = r.list /\ r.list \in Seq(Timer) /\ IsInjective(r.list)
    BY <2>1, <2>2 DEF set_timers, TimersOK, TimersTyped
  <2>6. cur' = NULL \/ cur' \in ToSet(list')
    <3>1. CASE round[cur] > 0
      BY <2>0, <2>1, <2>3, <2>5, <3>1, NextOf
    <3>2. CASE ~ (round[cur] > 0)
      BY <2>0, <2>1, <2>3, <2>5, <3>2, NextOf
    <3> QED
      BY <3>1, <3>2
  <2>7. cur' \in Timer \cup {NULL}
    BY <2>4, <2>6, ToSetDef
  <2>8. TypeOK'
    BY <1>0, <2>2, <2>4, <2>7 DEF TInv, TypeOK
  <2> QED
    BY <1>0, <2>2, <2>4, <2>6, <2>8 DEF TInv, CmdsTyped, CurListed, WaitsForOne
<1>2. CASE pc' = "inner" /\ cur' = NULL /\ UNCHANGED <<list, left, active>>
  BY <1>0, <1>2 DEF TInv, TypeOK, CmdsTyped, ListedMeansActive, CurListed, WaitsForOne
<1> QED
  BY <1>1, <1>2 DEF timer_cb_proc

\* A tick.
LEMMA TickTInv ==
  ASSUME TInv, tick
  PROVE  TInv'
<1>1. left' \in [Timer -> Int]
  BY DEF TInv, TypeOK, tick
<1>2. late' \in Nat /\ delay' \in Nat /\ lag' \in 0..MaxLag
  BY SMTT(30), TimerAssumption DEF TInv, TypeOK, tick, Blocked
<1>3. TypeOK'
  BY <1>1, <1>2 DEF TInv, TypeOK, tick
<1> QED
  BY <1>3 DEF TInv, CmdsTyped, ListedMeansActive, CurListed, WaitsForOne, tick

\* Every step preserves the invariant.
LEMMA NextTInv ==
  ASSUME TInv, [Next]_tvars
  PROVE  TInv'
<1>1. <<0, 0>> \in Nat \X Nat /\ NewTimes \subseteq (Nat \ {0}) \X Nat
  BY TimerAssumption
<1>2. CASE \E t \in Timer :
             \/ krhino_timer_start(t) \/ krhino_timer_stop(t) \/ krhino_timer_change(t)
             \/ krhino_timer_arg_change_auto(t) \/ krhino_timer_del(t)
  <2>1. PICK t \in Timer, c \in Cmd, times \in Nat \X Nat :
           (c = "CHG" => times[1] > 0) /\ send(t, c, times)
    BY <1>1, <1>2 DEF krhino_timer_start, krhino_timer_stop, krhino_timer_change,
                      krhino_timer_arg_change_auto, krhino_timer_del, Cmd
  <2> QED
    BY <2>1, SendTInv
<1>3. CASE \E t \in Timer : krhino_timer_create(t)
  BY <1>3, CreateTInv
<1>4. CASE TaskNext
  BY <1>4, RecvTInv, CmdTInv, InnerTInv, WaitTInv, CbTInv DEF TaskNext
<1>5. CASE tick
  BY <1>5, TickTInv
<1>6. CASE UNCHANGED tvars
  BY <1>6 DEF TInv, TypeOK, CmdsTyped, ListedMeansActive, CurListed, WaitsForOne, tvars
<1> QED
  BY <1>2, <1>3, <1>4, <1>5, <1>6 DEF Next

\* The invariant holds in every reachable state.
LEMMA TimerInvariant == Spec => []TInv
<1>1. Init => TInv
  BY TInvInit
<1>2. TInv /\ [Next]_tvars => TInv'
  BY NextTInv
<1> QED
  BY <1>1, <1>2, PTL DEF Spec

\* The timers keep their types, and g_timer_queue its limit, for every number of
\* timers and whatever commands are sent.
THEOREM TimerTypes == Spec => []TypeOK
<1>1. TInv => TypeOK
  BY DEF TInv
<1> QED
  BY <1>1, TimerInvariant, PTL

\* timer_state and g_timer_head agree at all times, however long the timer task
\* is kept from running: klist_rm is never called for a timer that is not on the
\* list, no timer is inserted twice, no deleted timer is left on it.
THEOREM TimerListSafe == Spec => []ListedMeansActive
<1>1. TInv => ListedMeansActive
  BY DEF TInv
<1> QED
  BY <1>1, TimerInvariant, PTL

-----------------------------------------------------------------------------
(* A timer task that is never kept waiting.                                 *)

\* Punctual as a statement about the record timers.
LEMMA OrderRecord ==
  ASSUME TInv
  PROVE  /\ Punctual => OrderOK(timers)
         /\ \A s : TimersOK(s) /\ OrderOK(s) /\ set_timers(s) =>
              /\ Ordered(list', left')
              /\ \A i \in 1..Len(list') : left'[list'[i]] >= 0
<1>1. timers.list = list /\ timers.left = left /\ TimersOK(timers)
  BY TimersRecord DEF TInv
<1>2. ASSUME Punctual PROVE OrderOK(timers)
  <2>1. \A x \in ToSet(list) : left[x] >= 0
    BY <1>2, ToSetDef DEF Punctual, TInv, TypeOK
  <2> QED
    BY <1>1, <1>2, <2>1 DEF Punctual, OrderOK
<1>3. ASSUME NEW s, TimersOK(s), OrderOK(s), set_timers(s)
      PROVE  /\ Ordered(list', left')
             /\ \A i \in 1..Len(list') : left'[list'[i]] >= 0
  <2>1. \A i \in 1..Len(s.list) : s.left[s.list[i]] >= 0
    BY <1>3, ToSetDef DEF OrderOK, TimersOK, TimersTyped
  <2> QED
    BY <1>3, <2>1 DEF set_timers, OrderOK
<1> QED
  BY <1>2, <1>3

\* A tick comes only while the task waits, and its timeout and the times of all
\* timers run down together.
LEMMA TickPunctual ==
  ASSUME MaxLag = 0, TInv, Punctual, tick
  PROVE  Punctual'
<1>0. /\ list \in Seq(Timer) /\ Len(list) \in Nat /\ left \in [Timer -> Int]
      /\ \A i \in 1..Len(list) : list[i] \in Timer /\ Contains(list, list[i])
  BY LenProperties, ElementOfSeq DEF TInv, TypeOK, Contains
<1>1. Blocked
  BY DEF tick, TInv, TypeOK
<1>2. /\ late' = 0 /\ UNCHANGED <<list, pc>>
      /\ delay' = IF pc = "timed" THEN delay - 1 ELSE delay
      /\ left' = [t \in Timer |-> IF Contains(list, t) THEN left[t] - 1 ELSE left[t]]
  BY <1>1 DEF tick
<1>3. \A i \in 1..Len(list) : left'[list[i]] = left[list[i]] - 1 /\ left[list[i]] \in Int
  BY <1>0, <1>2
<1>4. CASE pc = "outer"
  <2>1. list = <<>> /\ Len(list) = 0
    BY <1>0, <1>4 DEF TInv, WaitsForOne
  <2> QED
    BY <1>2, <1>4, <2>1 DEF Punctual, Ordered
<1>5. CASE pc = "timed"
  <2>1. /\ list # <<>> /\ delay = left[Head(list)] /\ delay > 0
        /\ Len(list) >= 1 /\ Head(list) = list[1]
    BY <1>0, <1>1, <1>5, EmptySeq DEF TInv, WaitsForOne, Punctual, Blocked
  <2>2. ASSUME NEW i \in 1..Len(list) PROVE left[list[1]] <= left[list[i]]
    <3>1. CASE i = 1
      BY <1>3, <2>1, <3>1
    <3>2. CASE i > 1
      BY <1>0, <2>1, <3>2 DEF Punctual, Ordered
    <3> QED
      BY <1>0, <3>1, <3>2
  <2>3. \A i \in 1..Len(list) : left'[list[i]] >= 0
    BY <1>3, <2>1, <2>2
  <2>4. Ordered(list, left')
    BY <1>3 DEF Punctual, Ordered
  <2>5. 1 \in 1..Len(list)
    BY <1>0, <2>1
  <2>6. delay' = left'[Head(list)]
    BY <1>2, <1>3, <1>5, <2>1, <2>5
  <2> QED
    BY <1>2, <1>5, <2>3, <2>4, <2>6 DEF Punctual
<1> QED
  BY <1>1, <1>4, <1>5 DEF Blocked

\* Every step of a system whose timer task always runs at once keeps the timers
\* punctual.
LEMMA NextPunctual ==
  ASSUME MaxLag = 0, TInv, Punctual, [Next]_tvars
  PROVE  Punctual'
<1>0. OrderOK(timers) /\ late = 0
  BY OrderRecord DEF Punctual
<1>1. CASE \E t \in Timer :
             \/ krhino_timer_start(t) \/ krhino_timer_stop(t) \/ krhino_timer_change(t)
             \/ krhino_timer_arg_change_auto(t) \/ krhino_timer_del(t)
             \/ krhino_timer_create(t)
  <2>1. UNCHANGED <<left, late, list, pc, delay>>
    BY <1>1 DEF krhino_timer_start, krhino_timer_stop, krhino_timer_change,
                krhino_timer_arg_change_auto, krhino_timer_del, krhino_timer_create, send
  <2> QED
    BY <2>1 DEF Punctual
<1>2. CASE timer_task_recv
  BY <1>2 DEF timer_task_recv, Punctual
<1>3. CASE timer_task_cmd
  <2>1. set_timers(CmdResult) /\ late' = late /\ pc' \in {"inner", "cb"}
    BY <1>3 DEF timer_task_cmd, timer_cmd_proc, CmdResult
  <2>2. msg \in CmdMsg
    BY <1>3 DEF TInv, CmdsTyped, timer_task_cmd
  <2>3. TimersOK(CmdResult) /\ OrderOK(CmdResult)
    BY <1>0, <2>2, CmdResultOK
  <2>4. Ordered(list', left') /\ \A i \in 1..Len(list') : left'[list'[i]] >= 0
    BY <2>1, <2>3, OrderRecord
  <2> QED
    BY <1>0, <2>1, <2>4 DEF Punctual
<1>4. CASE timer_task_inner
  BY <1>4 DEF timer_task_inner, Punctual
<1>5. CASE timer_task_call
  BY <1>5 DEF timer_task_call, Punctual
<1>6. CASE timer_task_timeout
  BY <1>6 DEF timer_task_timeout, Punctual
<1>7. CASE timer_cb_proc
  <2>0. pc = "cb" /\ late' = late /\ pc' \in {"inner", "cb"}
    BY <1>7 DEF timer_cb_proc
  <2>1. CASE cur # NULL /\ fires(cur)
    <3>1. set_timers(FireResult(cur))
      BY <1>7, <2>1 DEF timer_cb_proc, FireResult
    <3>2. cur \in Timer /\ cur \in ToSet(list)
      BY <2>0, <2>1 DEF TInv, TypeOK, CurListed
    <3>3. TimersOK(FireResult(cur)) /\ OrderOK(FireResult(cur))
      BY <1>0, <3>2, FireResultOK
    <3>4. Ordered(list', left') /\ \A i \in 1..Len(list') : left'[list'[i]] >= 0
      BY <3>1, <3>3, OrderRecord
    <3> QED
      BY <1>0, <2>0, <3>4 DEF Punctual
  <2>2. CASE UNCHANGED <<list, left>>
    BY <2>0, <2>2 DEF Punctual
  <2> QED
    BY <1>7, <2>1, <2>2 DEF timer_cb_proc
<1>8. CASE tick
  BY <1>8, TickPunctual
<1>9. CASE UNCHANGED tvars
  BY <1>9 DEF tvars, Punctual
<1> QED
  BY <1>1, <1>2, <1>3, <1>4, <1>5, <1>6, <1>7, <1>8, <1>9 DEF Next, TaskNext

\* As long as nothing keeps the timer task from running (MaxLag = 0), it never
\* sleeps past an active timer: the head of the list is the next one due, whatever
\* commands, callbacks and ticks came before.  With a timer task that is kept
\* waiting this is false (unsigned_greater puts a timer before an overdue one).
THEOREM TimerTaskSleepsRight ==
  ASSUME MaxLag = 0
  PROVE  Spec => []SleepsToTheNextTimer
<1>1. Init => Punctual
  <2>1. Len(<<>>) = 0
    OBVIOUS
  <2> QED
    BY <2>1 DEF Init, Punctual, Ordered
<1>2. TInv /\ Punctual /\ [Next]_tvars => Punctual'
  BY NextPunctual
<1>3. TInv /\ Punctual => SleepsToTheNextTimer
  <2> SUFFICES ASSUME TInv, Punctual, pc \in {"call", "timed"}, NEW i \in 1..Len(list)
               PROVE  left[Head(list)] <= left[list[i]]
    BY DEF SleepsToTheNextTimer
  <2>1. Head(list) = list[1] /\ Len(list) \in Nat /\ list[1] \in Timer /\ 1 \in 1..Len(list)
    BY SMTT(30), LenProperties, ElementOfSeq DEF TInv, TypeOK
  <2>2. left[list[1]] \in Int
    BY <2>1 DEF TInv, TypeOK
  <2>3. CASE i = 1
    BY <2>1, <2>2, <2>3
  <2>4. CASE i > 1
    BY <2>1, <2>4 DEF Punctual, Ordered
  <2> QED
    BY <2>1, <2>3, <2>4
<1> QED
  BY <1>1, <1>2, <1>3, TimerInvariant, PTL DEF Spec
=============================================================================
