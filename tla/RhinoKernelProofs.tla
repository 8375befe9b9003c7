-------------------------- MODULE RhinoKernelProofs ---------------------------
(***************************************************************************)
(* The services on mutexes, semaphores, queues and event groups keep the    *)
(* invariant of the kernel as well, which makes the safety properties of    *)
(* the whole kernel theorems, for any number of tasks, priorities and       *)
(* objects.                                                                 *)
(***************************************************************************)
EXTENDS RhinoTaskProofs

\* the fields of the objects
ObjFields == {"live", "owner", "mlist", "nested", "count", "ring", "num", "flags", "msg", "actl"}

ObjTypes(r) ==
    /\ r.live \in [Obj -> BOOLEAN]
    /\ r.nested \in [Mutex -> Nat] /\ r.count \in [Sem -> Nat]
    /\ r.flags \in [Event -> SUBSET UNION SetFlags]
    /\ r.actl = [t \in All |-> r.actl[t]] /\ r.msg = [t \in All |-> r.msg[t]]

\* the processor is where it was and no ready task was lost
StillReady(q, r) ==
    /\ q.active = r.active /\ q.lock = r.lock /\ q.intr = r.intr /\ q.pc = r.pc
    /\ \A t \in All : r.state[t] = "RDY" => q.state[t] = "RDY"

\* The objects have their types.
LEMMA ObjTypesOf ==
  ASSUME NEW r, Sys(r)
  PROVE  ObjTypes(r)
BY DEF Sys, Types, ObjTypes

\* Wake-ups, changes of priority and changes of the objects keep the invariant if
\* what the tasks that still wait want is not to be had, and the owners own.
LEMMA EndSys ==
  ASSUME NEW r, Sys(r), NEW q, Calm(q, r), Same(q, r, EndFields \cup ObjFields), ObjTypes(q),
         Denied(Blocked(q), q.blkobj, q.live, q.owner, q.count, r.want, q.flags),
         Owns(q.mlist, q.live, q.owner, q.nested, q.state)
  PROVE  Sys(q) /\ StillReady(q, r)
<1>1. /\ q.active = r.active /\ q.lock = r.lock /\ q.intr = r.intr /\ q.susp = r.susp
      /\ q.slice = r.slice /\ q.total = r.total /\ q.policy = r.policy /\ q.want = r.want
      /\ q.pc = r.pc /\ q.wait = r.wait /\ q.arg = r.arg
  BY FieldNames DEF Same, EndFields, WakeFields, PriFields, ObjFields
<1>2. Core(q) /\ \A t \in All : Kept(q, r, t) \/ Freed(q, r, t)
  BY DEF Calm
<1>3. Types(q) /\ Args(q)
  BY <1>1 DEF Sys, Types, Args, ObjTypes
<1>4. Waits(q)
  <2>1. ToSet(q.tickl) \subseteq All
    BY <1>2 DEF Core, Lists, Tick, All
  <2>2. Timed(q)
    BY <1>2, <2>1 DEF Sys, Waits, Timed, Kept, Freed
  <2>3. TimeLeft(q)
    BY <1>2, <2>1 DEF Sys, Waits, TimeLeft, Kept, Freed
  <2>4. \A t \in All : q.state[t] \in {"SLEEP", "SLEEP_SUSPENDED"} => t \in ToSet(q.tickl)
    BY <1>2 DEF Sys, Waits, Kept, Freed
  <2> QED
    BY <2>2, <2>3, <2>4 DEF Waits
<1>5. Suspended(q)
  BY <1>1, <1>2 DEF Sys, Suspended, Kept, Freed
<1>6. \A t \in All : r.state[t] = "RDY" => q.state[t] = "RDY"
  BY <1>2 DEF Kept, Freed
<1> QED
  BY <1>1, <1>2, <1>3, <1>4, <1>5, <1>6 DEF Sys, StillReady

\* A service that keeps who is ready ends, with or without a choice of the next task.
LEMMA EndGood ==
  ASSUME NEW r, Good(r), NEW s, Sys(s), StillReady(s, r), NEW q, q = s \/ q = exit_sched(s)
  PROVE  Good(q)
<1>1. r.active \in All
  BY AllTypes DEF Good
<1>2. CASE q = s
  BY <1>1, <1>2 DEF Good, Runs, StillReady
<1>3. CASE q = exit_sched(s)
  BY <1>3, ReadyGood DEF StillReady
<1> QED
  BY <1>2, <1>3

\* nobody waits for o
Unwanted(r, o) ==
    /\ r.blk[o] = <<>> /\ [r.blk EXCEPT ![o] = <<>>] = r.blk
    /\ \A t \in Blocked(r) : r.blkobj[t] # o

\* If no task waits for an object its list is empty, and the other way round.
LEMMA UnwantedOf ==
  ASSUME NEW r, Sys(r), NEW o \in Obj,
         r.blk[o] = <<>> \/ ~ r.live[o] \/ (o \in Sem /\ r.count[o] # 0)
  PROVE  Unwanted(r, o)
<1>1. r.blk \in [Obj -> Seq(Task)] /\ ToSet(r.blk[o]) = {t \in Blocked(r) : r.blkobj[t] = o}
  BY DEF Sys, Core, Lists, Blk
<1>2. CASE r.blk[o] = <<>>
  <2>1. ToSet(r.blk[o]) = {}
    BY <1>1, <1>2, ToSetDef
  <2> QED
    BY <1>1, <1>2, <2>1 DEF Unwanted
<1>3. CASE ~ r.live[o] \/ (o \in Sem /\ r.count[o] # 0)
  <2>1. \A t \in Blocked(r) : r.blkobj[t] # o
    BY <1>3 DEF Sys, Denied
  <2>2. ToSet(r.blk[o]) = {} /\ r.blk[o] \in Seq(Task)
    BY <1>1, <2>1
  <2>3. r.blk[o] = <<>>
    BY <2>2, ToSetDef
  <2> QED
    BY <1>1, <2>1, <2>3 DEF Unwanted
<1> QED
  BY <1>2, <1>3

\* A service that changes the objects only.
LEMMA StillGood ==
  ASSUME NEW r, Good(r), NEW s, Same(s, r, ObjFields), ObjTypes(s),
         s.owner \in [Mutex -> Task \cup {NULL}], s.mlist \in [All -> Seq(Mutex)],
         Denied(Blocked(r), r.blkobj, s.live, s.owner, s.count, r.want, s.flags),
         Owns(s.mlist, s.live, s.owner, s.nested, r.state),
         NEW q, q = s \/ q = exit_sched(s)
  PROVE  Good(q)
<1>0. Sys(r) /\ Core(r)
  BY DEF Good, Sys
<1>1. /\ s.hi = r.hi /\ s.rdy = r.rdy /\ s.prio = r.prio /\ s.bprio = r.bprio
      /\ s.state = r.state /\ s.blkst = r.blkst /\ s.blkobj = r.blkobj
      /\ s.tick = r.tick /\ s.tickl = r.tickl /\ s.blk = r.blk /\ s.active = r.active
  BY FieldNames DEF Same, ObjFields
<1>2. Ready(s) = Ready(r) /\ Blocked(s) = Blocked(r)
  BY <1>1 DEF Ready, Blocked
<1>3. Typed(s)
  BY <1>0, <1>1 DEF Core, Lists, Typed, Same
<1>4. \A t \in Blocked(r) : r.blkobj[t] \in Mutex => s.owner[r.blkobj[t]] \in Task
  BY DEF Denied
<1>5. Core(s)
  BY <1>0, <1>1, <1>2, <1>3, <1>4 DEF Core, Lists
<1>6. Calm(s, r)
  BY <1>1, <1>5 DEF Calm, Kept
<1>7. Same(s, r, EndFields \cup ObjFields)
  BY DEF Same
<1>8. /\ Denied(Blocked(s), s.blkobj, s.live, s.owner, s.count, r.want, s.flags)
      /\ Owns(s.mlist, s.live, s.owner, s.nested, s.state)
  BY <1>1, <1>2
<1>9. Sys(s) /\ StillReady(s, r)
  BY <1>0, <1>6, <1>7, <1>8, EndSys
<1> QED
  BY <1>9, EndGood

-----------------------------------------------------------------------------
(* The creation and the deletion of an object.                              *)

\* the objects other than o are what they were
OtherObj(q, r, o) ==
    /\ \A x \in Obj \ {o} : q.live[x] = r.live[x]
    /\ \A x \in Sem \ {o} : q.count[x] = r.count[x]
    /\ \A x \in Event \ {o} : q.flags[x] = r.flags[x]

\* An object nobody waits for, other than a mutex, is set.
LEMMA ObjSet ==
  ASSUME NEW r, Good(r), NEW o \in Obj \ Mutex, Unwanted(r, o), NEW q,
         Same(q, r, {"live", "count", "ring", "num", "flags"}), ObjTypes(q), OtherObj(q, r, o)
  PROVE  Good(q)
<1>0. Sys(r) /\ r.owner \in [Mutex -> Task \cup {NULL}] /\ r.mlist \in [All -> Seq(Mutex)]
  BY AllTypes DEF Good
<1>1. \A t \in Blocked(r) : r.blkobj[t] \in Obj \ {o}
  BY <1>0 DEF Unwanted, Sys, Core, Lists
<1>2. q.owner = r.owner /\ q.mlist = r.mlist /\ q.nested = r.nested
  BY FieldNames DEF Same
<1>3. Same(q, r, ObjFields)
  BY DEF Same, ObjFields
<1>4. Denied(Blocked(r), r.blkobj, q.live, q.owner, q.count, r.want, q.flags)
  <2>1. Denied(Blocked(r), r.blkobj, r.live, r.owner, r.count, r.want, r.flags)
    BY <1>0 DEF Sys
  <2> QED
    BY <1>1, <1>2, <2>1 DEF Denied, OtherObj
<1>5. Owns(q.mlist, q.live, q.owner, q.nested, r.state)
  <2>1. \A m \in Mutex : m \in Obj \ {o}
    BY DEF Obj
  <2>2. Owns(r.mlist, r.live, r.owner, r.nested, r.state)
    BY <1>0 DEF Sys
  <2>3. \A t \in All : \A m \in ToSet(r.mlist[t]) : m \in Mutex
    BY <1>0, ToSetDef
  <2>4. \A m \in Mutex : q.live[m] = r.live[m]
    BY <2>1 DEF OtherObj
  <2> QED
    BY <1>2, <2>2, <2>3, <2>4 DEF Owns
<1> QED
  BY <1>0, <1>2, <1>3, <1>4, <1>5, StillGood

\* An object other than a mutex is created.
LEMMA ObjCreate ==
  ASSUME NEW r, Good(r), NEW o \in Obj \ Mutex, ~ r.live[o], NEW q,
         Same(q, r, {"blk", "live", "count", "ring", "num", "flags"}),
         q.blk = [r.blk EXCEPT ![o] = <<>>], ObjTypes(q), OtherObj(q, r, o)
  PROVE  Good(q)
<1>1. Sys(r) /\ o \in Obj
  BY DEF Good
<1>2. Unwanted(r, o)
  BY <1>1, UnwantedOf
<1>3. q.blk = r.blk
  BY <1>2 DEF Unwanted
<1>4. Same(q, r, {"live", "count", "ring", "num", "flags"})
  BY <1>3 DEF Same
<1> QED
  BY <1>2, <1>4, ObjSet

\* nobody waits for o any more
Dismissed(q, r, o) ==
    /\ Calm(q, r)
    /\ \A t \in Blocked(q) : t \in Blocked(r) /\ q.blkobj[t] = r.blkobj[t] /\ q.blkobj[t] \in Obj \ {o}

\* whoever stops waiting is told why it was in vain
Vain(q, r) == \A t \in Blocked(r) : t \in Blocked(q) \/ q.blkst[t] # "FINISH"

\* Nobody is served then.
LEMMA VainServes ==
  ASSUME NEW r, NEW s, Vain(s, r), NEW q, q.state = s.state, q.blkst = s.blkst
  PROVE  Deserved(q, r)
BY NoneServed DEF Vain, Blocked

\* The loop of the services that delete an object.
LEMMA Dismiss ==
  ASSUME NEW r, Core(r), NEW s, Calm(s, r), NEW o \in Obj, NEW q, q = pend_rm_all(s, o)
  PROVE  /\ Dismissed(q, r, o) /\ Same(q, s, WakeFields)
         /\ s.state = r.state => Vain(q, r)
<1>0. Core(s) /\ Typed(s)
  BY DEF Calm, Core, Lists
<1>1. PICK W : W = ToSet(s.blk[o])
  OBVIOUS
<1>2. W = {t \in Blocked(s) : s.blkobj[t] = o}
  BY <1>0, <1>1 DEF Core, Lists, Blk
<1>3. /\ Woken(q, s, W) /\ Same(q, s, WakeFields)
      /\ \A t \in All : q.blkst[t] = IF t \in W THEN "DEL" ELSE s.blkst[t]
  BY <1>0, <1>1, PendRmAll
<1>4. W \in SUBSET Blocked(s)
  BY <1>2
<1>5. Calm(q, r)
  <2>1. Calm(q, s)
    BY <1>0, <1>3, <1>4, CalmWoken
  <2> QED
    BY <2>1, CalmTrans
<1>6. Blocked(q) = Blocked(s) \ W /\ \A t \in All \ W : q.blkobj[t] = s.blkobj[t]
  BY <1>0, <1>3, <1>4, WokenSets
<1>7. ASSUME NEW t \in Blocked(q)
      PROVE  t \in Blocked(r) /\ q.blkobj[t] = r.blkobj[t] /\ q.blkobj[t] \in Obj \ {o}
  <2>1. t \in All /\ q.state[t] \in {"PEND", "PEND_SUSPENDED"}
    BY <1>7 DEF Blocked
  <2>2. Kept(q, r, t)
    BY <1>5, <2>1 DEF Calm, Freed
  <2>3. t \in Blocked(s) \ W /\ q.blkobj[t] = s.blkobj[t]
    BY <1>6, <1>7, <2>1
  <2>4. s.blkobj[t] # o /\ s.blkobj[t] \in Obj
    BY <1>0, <1>2, <2>3 DEF Core, Lists
  <2> QED
    BY <2>1, <2>2, <2>3, <2>4 DEF Kept, Blocked
<1>8. s.state = r.state => Vain(q, r)
  <2>1. \A t \in W : q.blkst[t] = "DEL"
    BY <1>3, <1>4 DEF Blocked
  <2>2. s.state = r.state => Blocked(s) = Blocked(r)
    BY DEF Blocked
  <2> QED
    BY <1>6, <2>1, <2>2 DEF Vain
<1> QED
  BY <1>3, <1>5, <1>7, <1>8 DEF Dismissed

\* o does not exist any more and nobody waits for it
Dead(w, r, o) ==
    /\ Dismissed(w, r, o) /\ Same(w, r, WakeFields \cup {"live"})
    /\ w.live = [r.live EXCEPT ![o] = FALSE] /\ Vain(w, r)

\* The waiters of an object that is deleted are dismissed.
LEMMA ObjDead ==
  ASSUME NEW r, Sys(r), NEW o \in Obj, NEW dead, dead = [r EXCEPT !.live[o] = FALSE], NEW w,
         w = pend_rm_all(dead, o)
  PROVE  Dead(w, r, o)
<1>0. Core(r) /\ IsK(r) /\ r.live \in [Obj -> BOOLEAN] /\ r.active \in All
  BY AllTypes DEF Sys
<1>1. Same(dead, r, {"live"}) /\ dead.live = [r.live EXCEPT ![o] = FALSE]
  BY <1>0, FieldNames DEF Same, IsK
<1>2. Core(dead)
  <2>1. Same(dead, r, StillFields) /\ dead.active \in All
    BY <1>0, <1>1, FieldNames DEF Same, StillFields
  <2> QED
    BY <1>0, <2>1, CoreStill
<1>3. Calm(dead, r)
  BY <1>1, <1>2, CalmPri DEF Same
<1>4. Dismissed(w, r, o) /\ Same(w, dead, WakeFields) /\ Vain(w, r)
  <2>1. dead.state = r.state
    BY <1>1, FieldNames DEF Same
  <2> QED
    BY <1>0, <1>3, <2>1, Dismiss
<1> QED
  BY <1>1, <1>4, FieldNames DEF Same, WakeFields, Dead

\* the flags of the events other than o are what they were
OtherFlags(q, r, o) == \A x \in Event \ {o} : q.flags[x] = r.flags[x]

\* An object other than a mutex is deleted.
LEMMA ObjDel ==
  ASSUME NEW r, Good(r), NEW o \in Obj \ Mutex, NEW dead, dead = [r EXCEPT !.live[o] = FALSE],
         NEW w, w = pend_rm_all(dead, o), NEW s, Same(s, w, {"ring", "num", "flags"}),
         s.flags \in [Event -> SUBSET UNION SetFlags], OtherFlags(s, w, o),
         NEW q, q = exit_sched(s)
  PROVE  Good(q) /\ Deserved(q, r)
<1>0. /\ Sys(r) /\ Core(r) /\ IsK(r) /\ r.live \in [Obj -> BOOLEAN] /\ r.active \in All
      /\ r.mlist \in [All -> Seq(Mutex)] /\ ObjTypes(r)
  BY AllTypes, ObjTypesOf DEF Good, Sys
<1>1. /\ Dismissed(w, r, o) /\ Same(w, r, WakeFields \cup {"live"})
      /\ w.live = [r.live EXCEPT ![o] = FALSE] /\ Vain(w, r)
  <2>1. o \in Obj
    OBVIOUS
  <2>2. Dead(w, r, o)
    BY <1>0, <2>1, ObjDead
  <2> QED
    BY <2>2 DEF Dead
<1>4. Dismissed(w, r, o)
  BY <1>1
<1>6. Same(s, r, EndFields \cup ObjFields)
  BY <1>1 DEF Same, EndFields, ObjFields
<1>7. /\ s.live = [r.live EXCEPT ![o] = FALSE] /\ s.nested = r.nested /\ s.count = r.count
      /\ s.actl = r.actl /\ s.msg = r.msg /\ s.owner = r.owner /\ s.mlist = r.mlist
  BY <1>1, FieldNames DEF Same, WakeFields
<1>8. /\ s.state = w.state /\ s.blkobj = w.blkobj /\ w.flags = r.flags
      /\ s.hi = w.hi /\ s.rdy = w.rdy /\ s.prio = w.prio /\ s.bprio = w.bprio
      /\ s.blkst = w.blkst /\ s.tick = w.tick /\ s.tickl = w.tickl /\ s.blk = w.blk
      /\ s.active = w.active /\ Same(s, w, StillFields)
  BY <1>1, FieldNames DEF Same, WakeFields, StillFields, QuietFields
<1>9. Calm(s, r)
  <2>1. Core(w) /\ Calm(w, r)
    BY <1>4 DEF Dismissed, Calm
  <2>2. Core(s)
    <3>1. s.active \in All
      BY <1>8, <2>1 DEF Core, Lists, Typed
    <3> QED
      BY <1>8, <2>1, <3>1, CoreStill
  <2>3. /\ s.state = w.state /\ s.blkobj = w.blkobj /\ s.blkst = w.blkst
        /\ s.tick = w.tick /\ s.tickl = w.tickl
    BY <1>8
  <2>4. \A t \in All : Kept(s, r, t) \/ Freed(s, r, t)
    BY <2>1, <2>3 DEF Calm, Kept, Freed
  <2> QED
    BY <2>2, <2>4 DEF Calm
<1>10. ObjTypes(s)
  BY <1>0, <1>7 DEF ObjTypes
<1>11. Denied(Blocked(s), s.blkobj, s.live, s.owner, s.count, r.want, s.flags)
  <2>1. \A t \in Blocked(s) : t \in Blocked(r) /\ s.blkobj[t] = r.blkobj[t] /\ s.blkobj[t] \in Obj \ {o}
    BY ZenonT(60), <1>4, <1>8 DEF Dismissed, Blocked
  <2>2. Denied(Blocked(r), r.blkobj, r.live, r.owner, r.count, r.want, r.flags)
    BY <1>0 DEF Sys
  <2>3. OtherObj(s, r, o)
    <3>1. (\A x \in Obj \ {o} : s.live[x] = r.live[x]) /\ s.count = r.count
      BY <1>0, <1>7
    <3>2. \A x \in Event \ {o} : s.flags[x] = r.flags[x]
      BY <1>8 DEF OtherFlags
    <3> QED
      BY <3>1, <3>2 DEF OtherObj
  <2>4. s.owner = r.owner
    BY <1>7
  <2>5. SUFFICES ASSUME NEW t \in Blocked(s), NEW x, x = r.blkobj[t]
                 PROVE  /\ s.live[x]
                        /\ x \in Mutex => s.owner[x] \in Task \ {t}
                        /\ x \in Sem => s.count[x] = 0
                        /\ x \in Event => ~ Met(r.want[t], s.flags[x])
    BY <2>1 DEF Denied
  <2>6. /\ r.live[x]
        /\ x \in Mutex => r.owner[x] \in Task \ {t}
        /\ x \in Sem => r.count[x] = 0
        /\ x \in Event => ~ Met(r.want[t], r.flags[x])
    BY <2>1, <2>2, <2>5 DEF Denied
  <2>7. x \in Obj \ {o}
    BY <2>1, <2>5
  <2> QED
    BY <2>3, <2>4, <2>6, <2>7 DEF OtherObj
<1>12. Owns(s.mlist, s.live, s.owner, s.nested, s.state)
  <2>1. \A m \in Mutex : s.live[m] = r.live[m]
    BY <1>0, <1>7 DEF Obj
  <2>2. Owns(r.mlist, r.live, r.owner, r.nested, r.state)
    BY <1>0 DEF Sys
  <2>3. \A t \in All : \A m \in ToSet(r.mlist[t]) : m \in Mutex
    BY <1>0, ToSetDef
  <2>4. \A t \in All : r.state[t] # "DELETED" => s.state[t] # "DELETED"
    BY <1>9 DEF Calm, Kept, Freed
  <2>5. \A m \in Mutex : r.owner[m] # NULL => r.owner[m] \in All
    BY <1>0 DEF Core, Lists, Typed, All
  <2> QED
    BY <1>7, <2>1, <2>2, <2>3, <2>4, <2>5 DEF Owns
<1>13. Sys(s) /\ StillReady(s, r)
  BY <1>0, <1>6, <1>9, <1>10, <1>11, <1>12, EndSys
<1>14. Deserved(s, r) /\ IsK(s)
  BY <1>1, <1>8, VainServes DEF Same
<1> QED
  BY <1>13, <1>14, EndGood, ExitServes

\* The kinds of objects.
LEMMA Kinds ==
    /\ \A s \in Sem : s \in Obj \ Mutex /\ s \notin Event
    /\ \A e \in Event : e \in Obj \ Mutex /\ e \notin Sem
    /\ \A q \in AnyQueue : q \in Obj \ Mutex /\ q \notin Sem /\ q \notin Event
    /\ \A m \in Mutex : m \in Obj /\ m \notin Sem /\ m \notin Event
BY CoreAssumption DEF Obj, AnyQueue

\* What a task that calls a service may rely on.
LEMMA CallerIs ==
  ASSUME Good(k), NEW t \in Task, Calls(t)
  PROVE  /\ Sys(k) /\ Core(k) /\ IsK(k) /\ t \in All /\ k.active = t /\ k.state[t] = "RDY"
         /\ t \notin Blocked(k) /\ ObjTypes(k)
<1>1. Sys(k) /\ k.intr = 0 /\ k.active = t /\ k.pc[t] = "user" /\ t \in All
  BY DEF Good, Calls, All
<1>2. k.state[t] = "RDY"
  BY <1>1 DEF Good, Runs
<1> QED
  BY <1>1, <1>2, AllTypes, ObjTypesOf DEF Sys, Blocked

\* All who wait for an object are served.
LEMMA ServesAll ==
  ASSUME NEW r, NEW q, Calm(q, r), NEW o \in Obj \ Event, NEW W,
         W = {t \in Blocked(r) : r.blkobj[t] = o},
         \A x \in All : x \in Blocked(q) <=> x \in Blocked(r) /\ x \notin W
  PROVE  Deserved(q, r)
<1>1. \A x \in Blocked(q) : x \in Blocked(r) \ W /\ q.blkobj[x] = r.blkobj[x]
  BY DEF Calm, Kept, Freed, Blocked
<1>2. \A x \in Blocked(q) : q.blkobj[x] # o
  BY <1>1
<1>3. \A t \in Served(q, r) : r.blkobj[t] = o
  BY DEF Served, Blocked
<1> QED
  BY <1>2, <1>3 DEF Deserved

\* One waiter, or all of them, are woken with success.
LEMMA WakeGood ==
  ASSUME NEW r, Good(r), NEW o \in Obj \ Event, r.blk[o] # <<>>, NEW s,
         s = pend_wakeup_all(r, o) \/ s = pend_task_wakeup(r, Head(r.blk[o])),
         NEW q, q = exit_sched(s)
  PROVE  Good(q) /\ Deserved(q, r)
<1>1. Sys(r) /\ Core(r)
  BY DEF Good, Sys
<1>2. Calm(s, r) /\ Same(s, r, WakeFields) /\ Deserved(s, r)
  <2>1. CASE s = pend_wakeup_all(r, o)
    <3>1. PICK W : W = ToSet(r.blk[o])
      OBVIOUS
    <3>2. W \in SUBSET Blocked(r) /\ W = {t \in Blocked(r) : r.blkobj[t] = o}
      BY <1>1, <3>1 DEF Core, Lists, Blk
    <3>3. Woken(s, r, W) /\ Same(s, r, WakeFields)
      BY <1>1, <2>1, <3>1, PendWakeupAll
    <3>4. Calm(s, r)
      BY <1>1, <3>2, <3>3, CalmWoken
    <3>5. Blocked(s) = Blocked(r) \ W
      <4>1. Typed(r) /\ W \in SUBSET Blocked(r) /\ Woken(s, r, W)
        BY <1>1, <3>2, <3>3 DEF Core, Lists
      <4> QED
        BY SMTT(30), <4>1, WokenSets
    <3>6. Deserved(s, r)
      BY <3>2, <3>4, <3>5, ServesAll
    <3> QED
      BY <3>3, <3>4, <3>6
  <2>2. CASE s = pend_task_wakeup(r, Head(r.blk[o]))
    <3>1. PICK t : t = Head(r.blk[o])
      OBVIOUS
    <3>2. t \in Blocked(r)
      BY <1>1, <3>1, FirstWaiter
    <3>3. Wakes(s, r, t)
      BY <1>1, <2>2, <3>1, <3>2, WakeUp
    <3>4. StillWait(r, r) /\ Deserved(r, r)
      BY StateKept DEF StillWait
    <3>5. Deserved(s, r)
      BY <1>1, <2>2, <3>4, ServesNext
    <3> QED
      BY <3>3, <3>5 DEF Wakes
  <2> QED
    BY <2>1, <2>2
<1>3. Same(s, r, EndFields) /\ IsK(s)
  BY <1>2 DEF Same, EndFields
<1> QED
  BY <1>2, <1>3, CalmGood, ExitServes

-----------------------------------------------------------------------------
(* k_sem.c.                                                                 *)

\* krhino_sem_create.
LEMMA SemCreate ==
  ASSUME Good(k), NEW t \in Task, NEW s \in Sem, NEW n \in Counts, krhino_sem_create(t, s, n)
  PROVE  Good(k')
<1>0. /\ IsK(k) /\ ObjTypes(k) /\ ~ k.live[s] /\ s \in Obj \ Mutex /\ s \notin Event /\ n \in Nat
  BY AllTypes, ObjTypesOf, Kinds, SemAssumption DEF Good, krhino_sem_create
<1>1. PICK q : q = [k EXCEPT !.blk[s] = <<>>, !.count[s] = n, !.live[s] = TRUE]
  OBVIOUS
<1>2. Same(q, k, {"blk", "live", "count", "ring", "num", "flags"})
  BY ZenonT(30), <1>0, <1>1, FieldNames DEF Same, IsK
<1>3. /\ q.blk = [k.blk EXCEPT ![s] = <<>>] /\ q.live = [k.live EXCEPT ![s] = TRUE]
      /\ q.count = [k.count EXCEPT ![s] = n] /\ q.flags = k.flags /\ q.nested = k.nested
      /\ q.actl = k.actl /\ q.msg = k.msg
  BY <1>0, <1>1, FieldNames DEF IsK
<1>4. ObjTypes(q) /\ OtherObj(q, k, s)
  BY <1>0, <1>3 DEF ObjTypes, OtherObj
<1>5. Good(q)
  BY <1>0, <1>2, <1>3, <1>4, ObjCreate
<1> QED
  BY <1>1, <1>5 DEF krhino_sem_create

\* krhino_sem_del.
LEMMA SemDel ==
  ASSUME Good(k), NEW t \in Task, NEW s \in Sem, krhino_sem_del(t, s)
  PROVE  Good(k') /\ Deserved(k', k)
<1>0. Sys(k) /\ ObjTypes(k) /\ s \in Obj \ Mutex /\ s \in Obj
  BY ObjTypesOf, Kinds DEF Good
<1>1. PICK dead : dead = [k EXCEPT !.live[s] = FALSE]
  OBVIOUS
<1>2. PICK w : w = pend_rm_all(dead, s)
  OBVIOUS
<1>5. Same(w, w, {"ring", "num", "flags"}) /\ w.flags = k.flags
  <2>1. Dead(w, k, s)
    BY <1>0, <1>1, <1>2, ObjDead
  <2> QED
    BY <2>1, FieldNames DEF Dead, Same, WakeFields
<1>6. w.flags \in [Event -> SUBSET UNION SetFlags] /\ OtherFlags(w, w, s)
  BY <1>0, <1>5 DEF ObjTypes, OtherFlags
<1>7. k' = exit_sched(w)
  BY <1>1, <1>2 DEF krhino_sem_del
<1> QED
  BY <1>0, <1>1, <1>2, <1>5, <1>6, <1>7, ObjDel

\* The count of a semaphore nobody waits for is set.
LEMMA CountGood ==
  ASSUME Good(k), NEW s \in Sem, k.blk[s] = <<>> \/ k.count[s] # 0, NEW n \in Nat,
         k' = [k EXCEPT !.count[s] = n]
  PROVE  Good(k') /\ Deserved(k', k)
<1>0. /\ Sys(k) /\ IsK(k) /\ ObjTypes(k) /\ s \in Obj \ Mutex /\ s \in Obj /\ s \notin Event
  BY AllTypes, ObjTypesOf, Kinds DEF Good
<1>1. PICK q : q = [k EXCEPT !.count[s] = n]
  OBVIOUS
<1>2. Same(q, k, {"live", "count", "ring", "num", "flags"})
  BY <1>0, <1>1, FieldNames DEF Same, IsK
<1>3. /\ q.live = k.live /\ q.count = [k.count EXCEPT ![s] = n] /\ q.flags = k.flags
      /\ q.nested = k.nested /\ q.actl = k.actl /\ q.msg = k.msg
  BY <1>0, <1>1, FieldNames DEF IsK
<1>4. ObjTypes(q) /\ OtherObj(q, k, s)
  BY <1>0, <1>3 DEF ObjTypes, OtherObj
<1>5. Unwanted(k, s)
  BY <1>0, UnwantedOf
<1>6. Good(q)
  BY <1>0, <1>2, <1>4, <1>5, ObjSet
<1>7. Deserved(q, k)
  BY <1>2, FieldNames, StateKept DEF Same
<1> QED
  BY <1>1, <1>6, <1>7

\* krhino_sem_give.
LEMMA SemGive ==
  ASSUME Good(k), NEW s \in Sem, NEW wake_all \in BOOLEAN, krhino_sem_give(s, wake_all)
  PROVE  Good(k') /\ Deserved(k', k)
<1>0. s \in Obj \ Event /\ k.count \in [Sem -> Nat]
  BY AllTypes, Kinds DEF Good
<1>1. CASE k.blk[s] = <<>>
  <2>1. k' = [k EXCEPT !.count[s] = k.count[s] + 1] /\ k.count[s] + 1 \in Nat
    BY <1>0, <1>1 DEF krhino_sem_give
  <2> QED
    BY <1>1, <2>1, CountGood
<1>2. CASE k.blk[s] # <<>>
  <2>1. PICK w : w = IF wake_all THEN pend_wakeup_all(k, s) ELSE pend_task_wakeup(k, Head(k.blk[s]))
    OBVIOUS
  <2>2. w = pend_wakeup_all(k, s) \/ w = pend_task_wakeup(k, Head(k.blk[s]))
    BY <2>1
  <2>3. k' = exit_sched(w)
    BY <1>2, <2>1 DEF krhino_sem_give
  <2> QED
    BY <1>0, <1>2, <2>2, <2>3, WakeGood
<1> QED
  BY <1>1, <1>2

\* krhino_sem_take.
LEMMA SemTake ==
  ASSUME Good(k), NEW t \in Task, NEW s \in Sem, NEW ticks \in TakeTicks,
         krhino_sem_take(t, s, ticks)
  PROVE  Good(k')
<1>0. /\ Calls(t) /\ k.live[s] /\ s \in Obj /\ s \notin Mutex /\ s \notin Event
      /\ k.count \in [Sem -> Nat]
  BY AllTypes, Kinds DEF Good, krhino_sem_take
<1>1. CASE k.count[s] > 0
  <2>1. /\ k' = [k EXCEPT !.count[s] = k.count[s] - 1] /\ k.count[s] - 1 \in Nat
        /\ k.count[s] # 0
    BY <1>0, <1>1 DEF krhino_sem_take
  <2> QED
    BY <2>1, CountGood
<1>2. CASE ~ (k.count[s] > 0)
  <2>1. /\ k.count[s] = 0 /\ k.lock = 0
        /\ k' = exit_sched_pend(pend_to_blk_obj(k, s, t, ticks), s)
    BY <1>2 DEF krhino_sem_take
  <2>2. PICK b : b = [k.blkobj EXCEPT ![t] = s]
    OBVIOUS
  <2>3. Sys(k) /\ k.active = t /\ k.state[t] = "RDY"
    BY <1>0, CallerIs
  <2>4. b[t] = s
    BY <2>2, <2>3, AllTypes DEF All
  <2>5. Denied({t}, b, k.live, k.owner, k.count, k.want, k.flags)
    BY <1>0, <2>1, <2>4 DEF Denied
  <2>6. ticks \in (Nat \ {0}) \cup {WAIT_FOREVER}
    BY SemAssumption
  <2> QED
    BY <1>0, <2>1, <2>2, <2>3, <2>5, <2>6, BlockGood
<1> QED
  BY <1>1, <1>2

\* krhino_sem_count_set.
LEMMA SemCountSet ==
  ASSUME Good(k), NEW t \in Task, NEW s \in Sem, NEW n \in Counts, krhino_sem_count_set(t, s, n)
  PROVE  Good(k')
<1>1. /\ k.blk[s] = <<>> \/ k.count[s] # 0
      /\ k' = [k EXCEPT !.count[s] = n] /\ n \in Nat
  BY SemAssumption DEF krhino_sem_count_set
<1> QED
  BY <1>1, CountGood

-----------------------------------------------------------------------------
(* k_queue.c and k_buf_queue.c.                                             *)

\* the fields a queue that passes a message on sets
MsgFields == {"ring", "num", "msg"}

\* The messages of the queues and their rings are nothing the invariant is about.
LEMMA MsgGood ==
  ASSUME NEW r, Good(r), NEW q, Same(q, r, MsgFields), q.msg = [t \in All |-> q.msg[t]]
  PROVE  Good(q)
<1>0. Sys(r) /\ r.active \in All
  BY AllTypes DEF Good
<1>1. Types(q) /\ Args(q) /\ q.active = r.active
  BY <1>0, FieldNames DEF Sys, Types, Args, Same, MsgFields
<1>2. Same(q, r, QuietFields)
  BY DEF Same, QuietFields, MsgFields
<1>3. Sys(q)
  BY <1>0, <1>1, <1>2, QuietSys
<1>4. q.lock = r.lock /\ q.intr = r.intr /\ q.pc = r.pc /\ q.state = r.state
  BY FieldNames DEF Same, MsgFields
<1> QED
  BY <1>1, <1>3, <1>4 DEF Good, Runs

\* krhino_queue_create and krhino_buf_queue_create.
LEMMA QueueCreate ==
  ASSUME Good(k), NEW t \in Task, NEW o \in AnyQueue, krhino_queue_create(t, o)
  PROVE  Good(k')
<1>0. /\ IsK(k) /\ ObjTypes(k) /\ ~ k.live[o] /\ o \in Obj \ Mutex
      /\ o \notin Sem /\ o \notin Event
  BY AllTypes, ObjTypesOf, Kinds DEF Good, krhino_queue_create
<1>1. PICK q : q = [k EXCEPT !.blk[o] = <<>>, !.ring[o] = ringbuf_reset(@), !.num[o] = 0,
                             !.live[o] = TRUE]
  OBVIOUS
<1>2. Same(q, k, {"blk", "live", "count", "ring", "num", "flags"})
  BY ZenonT(30), <1>0, <1>1, FieldNames DEF Same, IsK
<1>3. /\ q.blk = [k.blk EXCEPT ![o] = <<>>] /\ q.live = [k.live EXCEPT ![o] = TRUE]
      /\ q.count = k.count /\ q.flags = k.flags /\ q.nested = k.nested
      /\ q.actl = k.actl /\ q.msg = k.msg
  BY <1>0, <1>1, FieldNames DEF IsK
<1>4. ObjTypes(q) /\ OtherObj(q, k, o)
  BY <1>0, <1>3 DEF ObjTypes, OtherObj
<1>5. Good(q)
  BY <1>0, <1>2, <1>3, <1>4, ObjCreate
<1> QED
  BY <1>1, <1>5 DEF krhino_queue_create

\* krhino_queue_del and krhino_buf_queue_del.
LEMMA QueueDel ==
  ASSUME Good(k), NEW t \in Task, NEW o \in AnyQueue, krhino_queue_del(t, o)
  PROVE  Good(k') /\ Deserved(k', k)
<1>0. /\ Sys(k) /\ ObjTypes(k) /\ o \in Obj \ Mutex /\ o \in Obj
  BY ObjTypesOf, Kinds DEF Good
<1>1. PICK dead : dead = [k EXCEPT !.live[o] = FALSE]
  OBVIOUS
<1>2. PICK w : w = pend_rm_all(dead, o)
  OBVIOUS
<1>3. PICK s : s = [w EXCEPT !.ring[o] = ringbuf_reset(@), !.num[o] = 0]
  OBVIOUS
<1>4. IsK(w) /\ w.flags = k.flags
  <2>1. Dead(w, k, o)
    BY <1>0, <1>1, <1>2, ObjDead
  <2> QED
    BY <2>1, FieldNames DEF Dead, Same, WakeFields
<1>5. Same(s, w, {"ring", "num", "flags"}) /\ s.flags = w.flags
  BY ZenonT(30), <1>3, <1>4, FieldNames DEF Same, IsK
<1>6. s.flags \in [Event -> SUBSET UNION SetFlags] /\ OtherFlags(s, w, o)
  BY <1>0, <1>4, <1>5 DEF ObjTypes, OtherFlags
<1>7. k' = exit_sched(s)
  BY <1>1, <1>2, <1>3 DEF krhino_queue_del
<1> QED
  BY <1>0, <1>1, <1>2, <1>5, <1>6, <1>7, ObjDel

\* A message that is queued.
LEMMA QueuePush ==
  ASSUME Good(k), NEW o \in AnyQueue, NEW m \in Msg, queue_push(o, m)
  PROVE  Good(k') /\ Deserved(k', k)
<1>0. IsK(k) /\ k.msg = [t \in All |-> k.msg[t]]
  BY AllTypes DEF Good, Sys, Types
<1>1. PICK q : q = [k EXCEPT !.ring[o] = ringbuf_push(@, m), !.num[o] = @ + 1]
  OBVIOUS
<1>2. Same(q, k, MsgFields) /\ q.msg = k.msg
  BY ZenonT(30), <1>0, <1>1, FieldNames DEF Same, IsK, MsgFields
<1>3. Good(q)
  BY <1>0, <1>2, MsgGood
<1>4. Deserved(q, k)
  BY <1>2, FieldNames, StateKept DEF Same, MsgFields
<1> QED
  BY <1>1, <1>3, <1>4 DEF queue_push

\* queue_flush.
LEMMA QueueFlush ==
  ASSUME Good(k), NEW t \in Task, NEW o \in AnyQueue, queue_flush(t, o)
  PROVE  Good(k')
<1>0. IsK(k) /\ k.msg = [x \in All |-> k.msg[x]]
  BY AllTypes DEF Good, Sys, Types
<1>1. PICK q : q = [k EXCEPT !.num[o] = 0, !.ring[o] = ringbuf_reset(@)]
  OBVIOUS
<1>2. Same(q, k, MsgFields) /\ q.msg = k.msg
  BY ZenonT(30), <1>0, <1>1, FieldNames DEF Same, IsK, MsgFields
<1>3. Good(q)
  BY <1>0, <1>2, MsgGood
<1> QED
  BY <1>1, <1>3 DEF queue_flush

\* The first message is taken out of the ring.
LEMMA RecvPop ==
  ASSUME Good(k), NEW o \in AnyQueue, NEW q, q = recv_pop(o).k
  PROVE  Same(q, k, MsgFields) /\ q.msg = k.msg /\ Good(q)
<1>0. IsK(k) /\ k.msg = [t \in All |-> k.msg[t]]
  BY AllTypes DEF Good, Sys, Types
<1>1. PICK ring : ring = ringbuf_pop(k.ring[o]).ring
  OBVIOUS
<1>2. q = [k EXCEPT !.ring[o] = ring, !.num[o] = @ - 1]
  BY <1>1 DEF recv_pop
<1>3. Same(q, k, MsgFields) /\ q.msg = k.msg
  BY ZenonT(30), <1>0, <1>2, FieldNames DEF Same, IsK, MsgFields
<1> QED
  BY <1>0, <1>3, MsgGood

\* A receive by an interrupt handler.
LEMMA QueueRecvIsr ==
  ASSUME Good(k), NEW o \in AnyQueue, queue_recv_isr(o)
  PROVE  Good(k')
BY RecvPop DEF queue_recv_isr

\* A receive that finds a message returns at once, one that finds none blocks.
LEMMA QueueRecv ==
  ASSUME Good(k), NEW t \in Task, NEW o \in AnyQueue, NEW ticks \in RecvTicks,
         queue_recv(t, o, ticks)
  PROVE  Good(k')
<1>0. /\ Calls(t) /\ o \in Obj /\ k.live[o] /\ o \notin Sem /\ o \notin Mutex /\ o \notin Event
      /\ t \in All
  BY Kinds DEF queue_recv, All
<1>1. CASE has_msg(o)
  <2>1. PICK s : s = recv_pop(o).k
    OBVIOUS
  <2>2. PICK m : m = recv_pop(o).msg
    OBVIOUS
  <2>3. Same(s, k, MsgFields) /\ s.msg = k.msg /\ Good(s)
    BY <2>1, RecvPop
  <2>4. IsK(s) /\ Sys(s) /\ s.active = t /\ s.state[t] = "RDY" /\ s.active \in All
    BY <1>0, <2>3, CallerIs, FieldNames DEF Same, MsgFields, Good
  <2>5. PICK q : q = [s EXCEPT !.msg[t] = m, !.pc[t] = "pend", !.wait[t] = o]
    OBVIOUS
  <2>6. /\ Same(q, s, {"msg", "pc", "wait"}) /\ q.msg = [s.msg EXCEPT ![t] = m]
        /\ q.pc = [s.pc EXCEPT ![t] = "pend"] /\ q.wait = [s.wait EXCEPT ![t] = o]
    BY ZenonT(30), <2>4, <2>5, FieldNames DEF Same, IsK
  <2>7. /\ s.pc \in [All -> PC] /\ s.wait \in [All -> Obj \cup {NULL}] /\ "pend" \in PC
        /\ s.msg = [x \in All |-> s.msg[x]] /\ "pend" # "prichg"
    BY <2>4, AllTypes DEF Sys, Types, PC
  <2>8. /\ q.pc \in [All -> PC] /\ q.wait \in [All -> Obj \cup {NULL}]
        /\ q.msg = [x \in All |-> q.msg[x]]
        /\ \A x \in All : q.pc[x] = "prichg" => s.pc[x] = "prichg"
    BY <1>0, <2>6, <2>7
  <2>9. Types(q) /\ Args(q)
    BY SMTT(30), <2>4, <2>6, <2>8, FieldNames DEF Sys, Types, Args, Same
  <2>10. Same(q, s, QuietFields) /\ q.active = t /\ q.state[t] = "RDY" /\ q.active \in All
    BY <2>4, <2>6, FieldNames DEF Same, QuietFields
  <2>11. Sys(q)
    BY <2>4, <2>9, <2>10, QuietSys
  <2>12. Good(q)
    BY <2>10, <2>11 DEF Good, Runs
  <2> QED
    BY <1>1, <2>1, <2>2, <2>5, <2>12 DEF queue_recv
<1>2. CASE ~ has_msg(o)
  <2>1. k.lock = 0 /\ k' = exit_sched_pend(pend_to_blk_obj(k, o, t, ticks), o)
    BY <1>2 DEF queue_recv
  <2>2. PICK b : b = [k.blkobj EXCEPT ![t] = o]
    OBVIOUS
  <2>3. Sys(k) /\ k.active = t /\ k.state[t] = "RDY"
    BY <1>0, CallerIs
  <2>4. b[t] = o
    BY <2>2, <2>3, AllTypes DEF All
  <2>5. Denied({t}, b, k.live, k.owner, k.count, k.want, k.flags)
    BY <1>0, <2>1, <2>4 DEF Denied
  <2>6. ticks \in (Nat \ {0}) \cup {WAIT_FOREVER}
    BY QueueAssumption
  <2> QED
    BY <1>0, <2>1, <2>2, <2>3, <2>5, <2>6, BlockGood
<1> QED
  BY <1>1, <1>2

\* A message handed to the first waiter.
LEMMA MsgHanded ==
  ASSUME Good(k), NEW o \in AnyQueue, NEW m \in Msg, k.blk[o] # <<>>,
         k' = exit_sched(task_msg_recv(k, Head(k.blk[o]), m))
  PROVE  Good(k') /\ Deserved(k', k)
<1>0. IsK(k) /\ k.msg = [x \in All |-> k.msg[x]] /\ o \in Obj \ Event
  BY AllTypes, Kinds DEF Good, Sys, Types
<1>1. PICK t : t = Head(k.blk[o])
  OBVIOUS
<1>2. PICK r : r = [k EXCEPT !.msg[t] = m]
  OBVIOUS
<1>3. Same(r, k, MsgFields) /\ r.msg = [k.msg EXCEPT ![t] = m] /\ r.blk = k.blk
  BY <1>0, <1>2, FieldNames DEF Same, IsK, MsgFields
<1>4. r.msg = [x \in All |-> r.msg[x]]
  BY <1>0, <1>3
<1>5. Good(r)
  BY <1>3, <1>4, MsgGood
<1>6. PICK s : s = pend_task_wakeup(r, Head(r.blk[o]))
  OBVIOUS
<1>7. k' = exit_sched(s)
  BY <1>1, <1>2, <1>3, <1>6 DEF task_msg_recv
<1>8. Good(k') /\ Deserved(k', r)
  BY <1>0, <1>3, <1>5, <1>6, <1>7, WakeGood
<1>9. r.state = k.state /\ r.blkobj = k.blkobj /\ r.prio = k.prio /\ r.want = k.want
  BY <1>3, FieldNames DEF Same, MsgFields
<1>10. Served(k', k) = Served(k', r)
  BY <1>9 DEF Served, Blocked
<1>11. Deserved(k', k)
  BY <1>8, <1>9, <1>10 DEF Deserved
<1> QED
  BY <1>8, <1>11

\* the loop of msg_send for all waiters: c is the kernel before the loop, the list
\* and the message
SendStep(c, q, t) == task_msg_recv(q, t, c[3])

SendInv(c, q, n) ==
    /\ Calm(q, c[1]) /\ Same(q, c[1], EndFields \cup {"msg"})
    /\ q.msg = [t \in All |-> q.msg[t]]
    /\ \A x \in All : x \in Blocked(q) <=> x \in Blocked(c[1]) /\ x \notin Upto(c[2], n)
    /\ \A i \in 1..Len(c[2]) : i > n => c[2][i] \in Blocked(q)

S == INSTANCE LoopTheorems WITH Step <- SendStep, Inv <- SendInv

\* One waiter of the loop.
LEMMA SendOne ==
  ASSUME NEW r, NEW l \in Seq(Task), IsInjective(l), NEW n \in 0..(Len(l) - 1), NEW m,
         NEW c, c[1] = r, c[2] = l, c[3] = m, NEW q, SendInv(c, q, n), NEW t, t = l[n + 1],
         NEW s, s = SendStep(c, q, t)
  PROVE  SendInv(c, s, n + 1)
<1>0. /\ Calm(q, r) /\ Core(q) /\ IsK(q) /\ Same(q, r, EndFields \cup {"msg"})
      /\ q.msg = [x \in All |-> q.msg[x]] /\ q.active \in All
      /\ \A x \in All : x \in Blocked(q) <=> x \in Blocked(r) /\ x \notin Upto(l, n)
      /\ \A i \in 1..Len(l) : i > n => l[i] \in Blocked(q)
  BY DEF SendInv, Calm, Core, Lists, Typed
<1>1. n + 1 \in 1..Len(l) /\ n + 1 > n
  OBVIOUS
<1>2. t \in Blocked(q) /\ t \in All
  BY <1>0, <1>1 DEF Blocked
<1>3. PICK v : v = [q EXCEPT !.msg[t] = m]
  OBVIOUS
<1>4. Same(v, q, {"msg"}) /\ v.msg = [q.msg EXCEPT ![t] = m]
  BY <1>0, <1>3, FieldNames DEF Same, IsK
<1>5. /\ v.state = q.state /\ v.blkobj = q.blkobj /\ v.tick = q.tick /\ v.tickl = q.tickl
      /\ v.blkst = q.blkst /\ v.active \in All /\ Same(v, q, StillFields)
  BY <1>0, <1>4, FieldNames DEF Same, StillFields, QuietFields
<1>6. Core(v)
  BY <1>0, <1>5, CoreStill
<1>7. Calm(v, q) /\ Blocked(v) = Blocked(q)
  BY <1>5, <1>6 DEF Calm, Kept, Blocked
<1>8. s = pend_task_wakeup(v, t)
  BY <1>3 DEF SendStep, task_msg_recv
<1>9. Wakes(s, v, t)
  BY <1>2, <1>6, <1>7, <1>8, WakeUp
<1>10. /\ Calm(s, v) /\ Same(s, v, WakeFields)
       /\ \A x \in All : x \in Blocked(s) <=> x \in Blocked(v) /\ x # t
  BY <1>9 DEF Wakes
<1>11. Calm(s, r)
  <2>1. Calm(s, q)
    BY <1>7, <1>10, CalmTrans
  <2> QED
    BY <1>0, <2>1, CalmTrans
<1>12. Same(s, r, EndFields \cup {"msg"})
  BY <1>0, <1>4, <1>10 DEF Same, EndFields
<1>13. s.msg = [x \in All |-> s.msg[x]]
  <2>1. s.msg = v.msg
    BY <1>10, FieldNames DEF Same, WakeFields
  <2> QED
    BY <1>0, <1>4, <2>1
<1>14. \A i \in 1..Len(l) : i > n + 1 => l[i] \in Blocked(s)
  <2>1. SUFFICES ASSUME NEW i \in 1..Len(l), i > n + 1
                 PROVE  l[i] \in Blocked(s)
    OBVIOUS
  <2>2. i > n /\ i # n + 1
    BY <2>1
  <2>3. l[i] # t
    BY <1>1, <2>2 DEF IsInjective
  <2>4. l[i] \in Blocked(v) /\ l[i] \in All
    BY <1>0, <1>7, <2>2 DEF Blocked
  <2> QED
    BY <1>10, <2>3, <2>4
<1>15. \A x \in All : x \in Blocked(s) <=> x \in Blocked(r) /\ x \notin Upto(l, n + 1)
  <2>1. Upto(l, n + 1) = Upto(l, n) \cup {t}
    BY UptoNext
  <2> QED
    BY <1>0, <1>7, <1>10, <2>1
<1> QED
  BY <1>11, <1>12, <1>13, <1>14, <1>15 DEF SendInv

\* in w the message has been handed to all who waited for o
SentAll(w, o) ==
    /\ Calm(w, k) /\ Same(w, k, EndFields \cup {"msg"}) /\ w.msg = [t \in All |-> w.msg[t]]
    /\ \A x \in All : x \in Blocked(w) <=> x \in Blocked(k) /\ k.blkobj[x] # o
    /\ k' = exit_sched(w)

\* The loop hands the message to all waiters.
LEMMA SendLoop ==
  ASSUME Good(k), NEW o \in AnyQueue, NEW m \in Msg,
         k' = exit_sched(FoldLeft(LAMBDA r, t : task_msg_recv(r, t, m), k, k.blk[o]))
  PROVE  \E w : SentAll(w, o)
<1>1. Core(k) /\ IsK(k) /\ k.msg = [x \in All |-> k.msg[x]] /\ o \in Obj
  BY AllTypes, Kinds DEF Good, Sys, Types
<1>2. PICK l : l = k.blk[o]
  OBVIOUS
<1>3. l \in Seq(Task) /\ IsInjective(l) /\ ToSet(l) = {t \in Blocked(k) : k.blkobj[t] = o}
  BY <1>1, <1>2 DEF Core, Lists, Blk
<1>4. PICK c : c = <<k, l, m>>
  OBVIOUS
<1>5. c[1] = k /\ c[2] = l /\ c[3] = m
  BY <1>4
<1>6. SendInv(c, k, 0)
  <2>1. Calm(k, k) /\ Same(k, k, EndFields \cup {"msg"})
    BY <1>1 DEF Calm, Kept, Same
  <2>2. \A i \in 1..Len(l) : l[i] \in Blocked(k)
    BY <1>3, ToSetDef
  <2>3. Upto(l, 0) = {}
    BY <1>3, UptoAll
  <2> QED
    BY <1>1, <1>5, <2>1, <2>2, <2>3 DEF SendInv
<1>7. \A n \in 0..(Len(l) - 1) : \A x : SendInv(c, x, n) => SendInv(c, SendStep(c, x, l[n + 1]), n + 1)
  <2>1. SUFFICES ASSUME NEW n \in 0..(Len(l) - 1), NEW x, SendInv(c, x, n)
                 PROVE  SendInv(c, SendStep(c, x, l[n + 1]), n + 1)
    OBVIOUS
  <2> QED
    BY <1>3, <1>5, <2>1, SendOne
<1>8. PICK w : w = S!Walk(c, k, l)
  OBVIOUS
<1>9. SendInv(c, w, Len(l))
  BY <1>3, <1>6, <1>7, <1>8, S!WalkInduction
<1>10. k' = exit_sched(w)
  <2>1. S!Walk(c, k, l) = FoldLeft(LAMBDA r, t : task_msg_recv(r, t, m), k, l)
    BY <1>5 DEF SendStep, S!Walk, FoldLeft, MapThenFoldSet, Max, S!FoldLeft, S!MapThenFoldSet, S!Max
  <2> QED
    BY <1>2, <1>8, <2>1
<1>11. Calm(w, k) /\ Same(w, k, EndFields \cup {"msg"}) /\ w.msg = [t \in All |-> w.msg[t]]
  BY <1>5, <1>9 DEF SendInv
<1>12. \A x \in All : x \in Blocked(w) <=> x \in Blocked(k) /\ k.blkobj[x] # o
  <2>1. Upto(l, Len(l)) = ToSet(l)
    BY <1>3, UptoAll
  <2>2. \A x \in All : x \in Blocked(w) <=> x \in Blocked(k) /\ x \notin ToSet(l)
    BY <1>5, <1>9, <2>1 DEF SendInv
  <2> QED
    BY <1>3, <2>2
<1> QED
  BY <1>10, <1>11, <1>12 DEF SentAll

\* A message handed to all waiters.
LEMMA MsgToAll ==
  ASSUME Good(k), NEW o \in AnyQueue, NEW m \in Msg,
         k' = exit_sched(FoldLeft(LAMBDA r, t : task_msg_recv(r, t, m), k, k.blk[o]))
  PROVE  Good(k') /\ Deserved(k', k)
<1>1. Core(k) /\ IsK(k) /\ o \in Obj \ Event
  BY AllTypes, Kinds DEF Good, Sys
<1>2. PICK w : SentAll(w, o)
  BY SendLoop
<1>3. /\ Calm(w, k) /\ Same(w, k, EndFields \cup {"msg"}) /\ w.msg = [t \in All |-> w.msg[t]]
       /\ k' = exit_sched(w)
  BY <1>2 DEF SentAll
<1>4. PICK r : r = [k EXCEPT !.msg = w.msg]
  OBVIOUS
<1>5. Same(r, k, MsgFields) /\ r.msg = w.msg
  BY <1>1, <1>4, FieldNames DEF Same, IsK, MsgFields
<1>6. Good(r)
  BY <1>3, <1>5, MsgGood
<1>7. Same(w, r, EndFields)
  <2>1. Same(r, k, {"msg"})
    BY <1>1, <1>4, FieldNames DEF Same, IsK
  <2>2. ASSUME NEW f \in Fields \ EndFields
        PROVE  w[f] = r[f]
    BY <1>3, <1>5, <2>1, <2>2 DEF Same
  <2> QED
    BY <1>3, <2>2 DEF Same
<1>8. Calm(w, r)
  <2>1. /\ r.state = k.state /\ r.blkobj = k.blkobj /\ r.blkst = k.blkst
        /\ r.tick = k.tick /\ r.tickl = k.tickl
    BY <1>5, FieldNames DEF Same, MsgFields
  <2> QED
    BY <1>3, <2>1 DEF Calm, Kept, Freed
<1>9. Good(k')
  BY ZenonT(60), <1>3, <1>6, <1>7, <1>8, CalmGood
<1>10. Deserved(w, k)
  <2>1. PICK W : W = {t \in Blocked(k) : k.blkobj[t] = o}
    OBVIOUS
  <2>2. \A x \in All : x \in Blocked(w) <=> x \in Blocked(k) /\ x \notin W
    BY <1>2, <2>1 DEF SentAll
  <2> QED
    BY <1>1, <1>3, <2>1, <2>2, ServesAll
<1>11. IsK(w)
  BY <1>3 DEF Same
<1> QED
  BY <1>3, <1>9, <1>10, <1>11, ExitServes

\* krhino_queue_back_send and krhino_queue_all_send.
LEMMA MsgSend ==
  ASSUME Good(k), NEW o \in Queue, NEW m \in Msg, NEW wake_all \in BOOLEAN,
         msg_send(o, m, wake_all)
  PROVE  Good(k') /\ Deserved(k', k)
<1>0. o \in AnyQueue
  BY DEF AnyQueue
<1>1. CASE queue_push(o, m)
  BY <1>0, <1>1, QueuePush
<1>2. CASE /\ k.blk[o] # <<>> /\ wake_all
           /\ k' = exit_sched(FoldLeft(LAMBDA r, t : task_msg_recv(r, t, m), k, k.blk[o]))
  BY <1>0, <1>2, MsgToAll
<1>3. CASE /\ k.blk[o] # <<>> /\ ~ wake_all
           /\ k' = exit_sched(task_msg_recv(k, Head(k.blk[o]), m))
  BY <1>0, <1>3, MsgHanded
<1> QED
  BY <1>1, <1>2, <1>3 DEF msg_send

\* krhino_buf_queue_send.
LEMMA BufQueueSend ==
  ASSUME Good(k), NEW o \in BufQueue, NEW m \in Msg, buf_queue_send(o, m)
  PROVE  Good(k') /\ Deserved(k', k)
<1>0. o \in AnyQueue
  BY DEF AnyQueue
<1>1. CASE queue_push(o, m)
  BY <1>0, <1>1, QueuePush
<1>2. CASE /\ k.blk[o] # <<>> /\ k' = exit_sched(task_msg_recv(k, Head(k.blk[o]), m))
  BY <1>0, <1>2, MsgHanded
<1> QED
  BY <1>1, <1>2 DEF buf_queue_send

-----------------------------------------------------------------------------
(* k_event.c.                                                               *)

\* Fewer flags meet fewer requests.
LEMMA MetLess ==
  ASSUME NEW w, NEW f, NEW g \in SUBSET f, Met(w, g)
  PROVE  Met(w, f)
BY DEF Met

\* Flags are cleared.
LEMMA FlagsLess ==
  ASSUME Good(k), NEW e \in Event, NEW f \in SUBSET k.flags[e], k' = [k EXCEPT !.flags[e] = f]
  PROVE  Good(k') /\ Deserved(k', k)
<1>0. /\ Sys(k) /\ IsK(k) /\ ObjTypes(k) /\ k.flags \in [Event -> SUBSET UNION SetFlags]
      /\ k.owner \in [Mutex -> Task \cup {NULL}] /\ k.mlist \in [All -> Seq(Mutex)]
  BY AllTypes, ObjTypesOf DEF Good
<1>1. PICK q : q = [k EXCEPT !.flags[e] = f]
  OBVIOUS
<1>2. Same(q, k, ObjFields) /\ q.flags = [k.flags EXCEPT ![e] = f]
  BY <1>0, <1>1, FieldNames DEF Same, IsK, ObjFields
<1>3. /\ q.live = k.live /\ q.count = k.count /\ q.nested = k.nested /\ q.actl = k.actl
      /\ q.msg = k.msg /\ q.owner = k.owner /\ q.mlist = k.mlist
  BY <1>0, <1>1, FieldNames DEF IsK
<1>4. q.flags \in [Event -> SUBSET UNION SetFlags] /\ \A x \in Event : q.flags[x] \in SUBSET k.flags[x]
  BY <1>0, <1>2
<1>5. ObjTypes(q)
  BY <1>0, <1>3, <1>4 DEF ObjTypes
<1>6. Denied(Blocked(k), k.blkobj, q.live, q.owner, q.count, k.want, q.flags)
  <2>1. \A x \in Event : \A w : Met(w, q.flags[x]) => Met(w, k.flags[x])
    BY <1>4, MetLess
  <2>2. Denied(Blocked(k), k.blkobj, k.live, k.owner, k.count, k.want, k.flags)
    BY <1>0 DEF Sys
  <2> QED
    BY <1>3, <2>1, <2>2 DEF Denied
<1>7. Owns(q.mlist, q.live, q.owner, q.nested, k.state)
  BY <1>0, <1>3 DEF Sys
<1>8. q.owner \in [Mutex -> Task \cup {NULL}] /\ q.mlist \in [All -> Seq(Mutex)]
  BY <1>0, <1>3
<1>9. Good(q)
  BY <1>2, <1>5, <1>6, <1>7, <1>8, StillGood
<1>10. Deserved(q, k)
  BY <1>2, FieldNames, StateKept DEF Same, ObjFields
<1> QED
  BY <1>1, <1>9, <1>10

\* krhino_event_create.
LEMMA EventCreate ==
  ASSUME Good(k), NEW t \in Task, NEW e \in Event, NEW f \in SetFlags, krhino_event_create(t, e, f)
  PROVE  Good(k')
<1>0. /\ IsK(k) /\ ObjTypes(k) /\ ~ k.live[e] /\ e \in Obj \ Mutex /\ e \notin Sem
      /\ f \in SUBSET UNION SetFlags
  BY AllTypes, ObjTypesOf, Kinds DEF Good, krhino_event_create
<1>1. PICK q : q = [k EXCEPT !.blk[e] = <<>>, !.flags[e] = f, !.live[e] = TRUE]
  OBVIOUS
<1>2. Same(q, k, {"blk", "live", "count", "ring", "num", "flags"})
  BY ZenonT(30), <1>0, <1>1, FieldNames DEF Same, IsK
<1>3. /\ q.blk = [k.blk EXCEPT ![e] = <<>>] /\ q.live = [k.live EXCEPT ![e] = TRUE]
      /\ q.flags = [k.flags EXCEPT ![e] = f] /\ q.count = k.count /\ q.nested = k.nested
      /\ q.actl = k.actl /\ q.msg = k.msg
  BY <1>0, <1>1, FieldNames DEF IsK
<1>4. ObjTypes(q) /\ OtherObj(q, k, e)
  BY <1>0, <1>3 DEF ObjTypes, OtherObj
<1>5. Good(q)
  BY <1>0, <1>2, <1>3, <1>4, ObjCreate
<1> QED
  BY <1>1, <1>5 DEF krhino_event_create

\* krhino_event_del.
LEMMA EventDel ==
  ASSUME Good(k), NEW t \in Task, NEW e \in Event, krhino_event_del(t, e)
  PROVE  Good(k') /\ Deserved(k', k)
<1>0. /\ Sys(k) /\ ObjTypes(k) /\ e \in Obj \ Mutex /\ e \in Obj
      /\ k.flags \in [Event -> SUBSET UNION SetFlags]
  BY ObjTypesOf, AllTypes, Kinds DEF Good
<1>1. PICK dead : dead = [k EXCEPT !.live[e] = FALSE]
  OBVIOUS
<1>2. PICK w : w = pend_rm_all(dead, e)
  OBVIOUS
<1>3. PICK s : s = [w EXCEPT !.flags[e] = {}]
  OBVIOUS
<1>4. IsK(w) /\ w.flags = k.flags
  <2>1. Dead(w, k, e)
    BY <1>0, <1>1, <1>2, ObjDead
  <2> QED
    BY <2>1, FieldNames DEF Dead, Same, WakeFields
<1>5. Same(s, w, {"ring", "num", "flags"}) /\ s.flags = [w.flags EXCEPT ![e] = {}]
  BY <1>3, <1>4, FieldNames DEF Same, IsK
<1>6. s.flags \in [Event -> SUBSET UNION SetFlags] /\ OtherFlags(s, w, e)
  BY <1>0, <1>4, <1>5 DEF OtherFlags
<1>7. k' = exit_sched(s)
  BY <1>1, <1>2, <1>3 DEF krhino_event_del
<1> QED
  BY <1>0, <1>1, <1>2, <1>5, <1>6, <1>7, ObjDel

\* krhino_event_get.
LEMMA EventGet ==
  ASSUME Good(k), NEW t \in Task, NEW e \in Event, NEW w \in Wants, NEW ticks \in GetTicks,
         krhino_event_get(t, e, w, ticks)
  PROVE  Good(k')
<1>0. /\ Calls(t) /\ k.live[e] /\ e \in Obj /\ e \notin Mutex /\ e \notin Sem
      /\ k.want \in [All -> Wants \cup {NULL}]
  BY AllTypes, Kinds DEF Good, krhino_event_get
<1>1. /\ Sys(k) /\ IsK(k) /\ t \in All /\ k.active = t /\ k.state[t] = "RDY" /\ t \notin Blocked(k)
      /\ k.blkobj \in [All -> Obj \cup {NULL}]
  BY <1>0, CallerIs, AllTypes
<1>2. CASE Met(w, k.flags[e])
  <2>1. PICK f : f = Cleared(w, k.flags[e])
    OBVIOUS
  <2>2. k' = [k EXCEPT !.flags[e] = f] /\ f \in SUBSET k.flags[e]
    BY <1>2, <2>1 DEF krhino_event_get, Cleared
  <2> QED
    BY <2>2, FlagsLess
<1>3. CASE ~ Met(w, k.flags[e])
  <2>1. PICK r : r = [k EXCEPT !.want[t] = w]
    OBVIOUS
  <2>2. k.lock = 0 /\ k' = exit_sched_pend(pend_to_blk_obj(r, e, t, ticks), e)
    BY <1>3, <2>1 DEF krhino_event_get
  <2>3. Same(r, k, {"want"}) /\ r.want = [k.want EXCEPT ![t] = w]
    BY <1>1, <2>1, FieldNames DEF Same, IsK
  <2>4. /\ r.live = k.live /\ r.owner = k.owner /\ r.count = k.count /\ r.flags = k.flags
        /\ r.blkobj = k.blkobj /\ r.lock = 0 /\ r.active = t /\ r.state = k.state
        /\ r.susp = k.susp /\ r.mlist = k.mlist /\ r.nested = k.nested /\ r.active \in All
    BY <1>1, <2>2, <2>3, FieldNames DEF Same
  <2>5. r.want \in [All -> Wants \cup {NULL}] /\ \A x \in All \ {t} : r.want[x] = k.want[x]
    BY <1>0, <1>1, <2>3
  <2>6. Types(r) /\ Args(r)
    BY <1>1, <2>3, <2>5, FieldNames DEF Sys, Types, Args, Same
  <2>7. Denied(Blocked(k), k.blkobj, r.live, k.owner, r.count, r.want, r.flags)
    <3>1. \A x \in Blocked(k) : r.want[x] = k.want[x]
      BY <1>1, <2>5 DEF Blocked
    <3>2. Denied(Blocked(k), k.blkobj, k.live, k.owner, k.count, k.want, k.flags)
      BY <1>1 DEF Sys
    <3> QED
      BY <2>4, <3>1, <3>2 DEF Denied
  <2>8. Same(r, k, StillFields) /\ Suspended(r) /\ Owns(k.mlist, r.live, k.owner, r.nested, k.state)
    BY <1>1, <2>3, <2>4 DEF Same, StillFields, Sys, Suspended
  <2>9. Sys(r)
    BY <1>1, <2>4, <2>6, <2>7, <2>8, StillSys
  <2>10. PICK b : b = [r.blkobj EXCEPT ![t] = e]
    OBVIOUS
  <2>11. b[t] = e /\ r.want[t] = w
    BY <1>0, <1>1, <2>3, <2>4, <2>10
  <2>12. Denied({t}, b, r.live, r.owner, r.count, r.want, r.flags)
    BY <1>0, <1>3, <2>4, <2>11 DEF Denied
  <2>13. ticks \in (Nat \ {0}) \cup {WAIT_FOREVER}
    BY EventAssumption
  <2>14. r.state[t] = "RDY" /\ r.active = t /\ r.lock = 0
    BY <1>1, <2>4
  <2> QED
    BY <1>0, <2>2, <2>9, <2>10, <2>12, <2>13, <2>14, BlockGood
<1> QED
  BY <1>2, <1>3

\* a task with request w was told flags that meet it, and those it asked to clear are
\* not set any more
Told(w, actl, flags) == Met(w, actl) /\ (w.clear => w.flags \cap flags = {})

\* the loop of krhino_event_set for RHINO_OR: c is the kernel before the call, the
\* list, the flags before the first waiter clears any, and the event
FlagStep(c, q, t) == event_wake(q, t, c[4], c[3])

FlagLoop(c) ==
    /\ c[2] \in Seq(Task) /\ IsInjective(c[2]) /\ c[4] \in Event
    /\ c[1].flags = [x \in Event |-> c[1].flags[x]]

FlagInv(c, q, n) ==
    /\ \A x \in Blocked(c[1]) \ Blocked(q) : Told(c[1].want[x], q.actl[x], q.flags[c[4]])
    /\ \A x \in Blocked(c[1]) \ Blocked(q) : c[1].blkobj[x] = c[4]
    /\ Calm(q, c[1]) /\ Same(q, c[1], EndFields \cup {"actl", "flags"})
    /\ q.actl = [t \in All |-> q.actl[t]]
    /\ q.flags[c[4]] \in SUBSET c[3]
    /\ q.flags = [c[1].flags EXCEPT ![c[4]] = q.flags[c[4]]]
    /\ \A i \in 1..Len(c[2]) : i > n => c[2][i] \in Blocked(q)
    /\ \A i \in 1..n : c[2][i] \in Blocked(q) => ~ Met(c[1].want[c[2][i]], c[3])

G == INSTANCE LoopTheorems WITH Step <- FlagStep, Inv <- FlagInv

\* waiter t of event e has been woken with the flags cur and has cleared some of them
Flagged(s, q, t, e, cur) ==
    /\ Calm(s, q) /\ Same(s, q, EndFields \cup {"actl", "flags"})
    /\ s.actl = [x \in All |-> s.actl[x]]
    /\ s.flags[e] \in SUBSET cur /\ s.flags = [q.flags EXCEPT ![e] = s.flags[e]]
    /\ \A x \in All : x \in Blocked(s) <=> x \in Blocked(q) /\ x # t
    /\ s.flags[e] = Cleared(q.want[t], q.flags[e])
    /\ s.actl[t] = cur /\ \A x \in All \ {t} : s.actl[x] = q.actl[x]

\* A waiter whose request is met is woken.
LEMMA FlagWake ==
  ASSUME NEW q, Core(q), q.actl = [x \in All |-> q.actl[x]], NEW t \in Blocked(q), NEW e \in Event,
         NEW cur, q.flags = [x \in Event |-> q.flags[x]], q.flags[e] \in SUBSET cur,
         Met(q.want[t], cur), NEW s, s = event_wake(q, t, e, cur)
  PROVE  Flagged(s, q, t, e, cur)
<1>1. PICK w : w = pend_task_wakeup(q, t)
  OBVIOUS
<1>2. Wakes(w, q, t)
  BY <1>1, WakeUp
<1>3. /\ Core(w) /\ Calm(w, q) /\ Same(w, q, WakeFields) /\ IsK(w)
      /\ \A x \in All : x \in Blocked(w) <=> x \in Blocked(q) /\ x # t
  BY <1>2 DEF Wakes
<1>4. w.actl = q.actl /\ w.flags = q.flags
  BY <1>3, FieldNames DEF Same, WakeFields
<1>5. PICK f : f = Cleared(q.want[t], q.flags[e])
  OBVIOUS
<1>6. s = [w EXCEPT !.actl[t] = cur, !.flags[e] = f]
  BY <1>1, <1>4, <1>5 DEF event_wake
<1>7. Same(s, w, {"actl", "flags"})
  BY ZenonT(30), <1>3, <1>6, FieldNames DEF Same, IsK
<1>8. s.actl = [q.actl EXCEPT ![t] = cur] /\ s.flags = [q.flags EXCEPT ![e] = f]
  BY <1>3, <1>4, <1>6, FieldNames DEF IsK
<1>9. s.actl = [x \in All |-> s.actl[x]]
  BY <1>8
<1>10. s.flags[e] = f /\ f \in SUBSET cur
  BY <1>5, <1>8 DEF Cleared
<1>11. /\ s.state = w.state /\ s.blkobj = w.blkobj /\ s.tick = w.tick /\ s.tickl = w.tickl
       /\ s.blkst = w.blkst /\ s.active = w.active /\ Same(s, w, StillFields)
  BY <1>7, FieldNames DEF Same, StillFields, QuietFields
<1>12. Core(s)
  <2>1. s.active \in All
    BY <1>3, <1>11 DEF Core, Lists, Typed
  <2> QED
    BY <1>3, <1>11, <2>1, CoreStill
<1>13. Calm(s, q)
  <2>1. Calm(s, w)
    BY <1>11, <1>12 DEF Calm, Kept
  <2> QED
    BY <1>3, <2>1, CalmTrans
<1>14. Same(s, q, EndFields \cup {"actl", "flags"})
  BY <1>3, <1>7 DEF Same, EndFields
<1>15. \A x \in All : x \in Blocked(s) <=> x \in Blocked(q) /\ x # t
  BY <1>3, <1>11 DEF Blocked
<1>16. s.actl[t] = cur /\ \A x \in All \ {t} : s.actl[x] = q.actl[x]
  BY <1>8 DEF Blocked
<1>17. s.flags[e] = Cleared(q.want[t], q.flags[e])
  BY <1>5, <1>10
<1> QED
  BY <1>8, <1>9, <1>10, <1>13, <1>14, <1>15, <1>16, <1>17 DEF Flagged

\* The flags a task was told and those that are set after one waiter more.
ToldMore(s, q, t, e) ==
    /\ Told(q.want[t], s.actl[t], s.flags[e])
    /\ \A x \in All \ {t} : \A w :
         Told(w, q.actl[x], q.flags[e]) => Told(w, s.actl[x], s.flags[e])

LEMMA ToldNext ==
  ASSUME NEW q, NEW s, NEW t \in All, NEW e, NEW cur, Flagged(s, q, t, e, cur),
         Met(q.want[t], cur)
  PROVE  ToldMore(s, q, t, e)
<1>1. /\ s.flags[e] = Cleared(q.want[t], q.flags[e])
      /\ s.actl[t] = cur /\ \A x \in All \ {t} : s.actl[x] = q.actl[x]
  BY DEF Flagged
<1>2. s.flags[e] \subseteq q.flags[e]
  BY <1>1 DEF Cleared
<1>3. q.want[t].clear => q.want[t].flags \cap s.flags[e] = {}
  BY <1>1 DEF Cleared
<1> QED
  BY <1>1, <1>2, <1>3 DEF Told, ToldMore

\* One waiter of the loop.
LEMMA FlagOne ==
  ASSUME NEW c, FlagLoop(c), NEW n \in 0..(Len(c[2]) - 1), NEW q, FlagInv(c, q, n),
         NEW t, t = c[2][n + 1], c[1].blkobj[t] = c[4]
  PROVE  FlagInv(c, FlagStep(c, q, t), n + 1)
<1>1. PICK s : s = FlagStep(c, q, t)
  OBVIOUS
<1>2. PICK r, l, cur, e : c[1] = r /\ c[2] = l /\ c[3] = cur /\ c[4] = e
  OBVIOUS
<1>3. /\ l \in Seq(Task) /\ IsInjective(l) /\ n \in 0..(Len(l) - 1) /\ t = l[n + 1]
      /\ e \in Event /\ r.flags = [x \in Event |-> r.flags[x]] /\ r.blkobj[t] = e
  BY <1>2 DEF FlagLoop
<1>4. /\ Calm(q, r) /\ Core(q) /\ IsK(q) /\ Same(q, r, EndFields \cup {"actl", "flags"})
      /\ q.actl = [x \in All |-> q.actl[x]] /\ q.flags[e] \in SUBSET cur
      /\ q.flags = [r.flags EXCEPT ![e] = q.flags[e]]
      /\ \A i \in 1..Len(l) : i > n => l[i] \in Blocked(q)
      /\ \A i \in 1..n : l[i] \in Blocked(q) => ~ Met(r.want[l[i]], cur)
      /\ \A x \in Blocked(r) \ Blocked(q) : Told(r.want[x], q.actl[x], q.flags[e])
      /\ \A x \in Blocked(r) \ Blocked(q) : r.blkobj[x] = e
  BY <1>2 DEF FlagInv, Calm, Core, Lists, Typed
<1>5. n + 1 \in 1..Len(l) /\ n + 1 > n
  BY <1>3
<1>6. t \in Blocked(q) /\ t \in All /\ q.want = r.want
  BY <1>3, <1>4, <1>5, FieldNames DEF Blocked, Same, EndFields, WakeFields, PriFields
<1>7. s = event_wake(q, t, e, cur)
  BY <1>1, <1>2 DEF FlagStep
<1>8. CASE ~ Met(q.want[t], cur)
  <2>1. s = q
    BY <1>7, <1>8 DEF event_wake
  <2>2. \A i \in 1..Len(l) : i > n + 1 => l[i] \in Blocked(q)
    BY <1>3, <1>4
  <2>3. \A i \in 1..(n + 1) : l[i] \in Blocked(q) => ~ Met(r.want[l[i]], cur)
    BY <1>3, <1>4, <1>6, <1>8
  <2> QED
    BY <1>1, <1>2, <1>4, <2>1, <2>2, <2>3 DEF FlagInv
<1>9. CASE Met(q.want[t], cur)
  <2>0. q.flags = [x \in Event |-> q.flags[x]]
    BY <1>3, <1>4
  <2>1. /\ Calm(s, q) /\ Same(s, q, EndFields \cup {"actl", "flags"})
        /\ s.actl = [x \in All |-> s.actl[x]]
        /\ s.flags[e] \in SUBSET cur /\ s.flags = [q.flags EXCEPT ![e] = s.flags[e]]
        /\ \A x \in All : x \in Blocked(s) <=> x \in Blocked(q) /\ x # t
        /\ Flagged(s, q, t, e, cur)
    <3>1. Flagged(s, q, t, e, cur)
      BY <1>3, <1>4, <1>6, <1>7, <1>9, <2>0, FlagWake
    <3> QED
      BY <3>1 DEF Flagged
  <2>2. Calm(s, r)
    BY <1>4, <2>1, CalmTrans
  <2>3. Same(s, r, EndFields \cup {"actl", "flags"})
    BY <1>4, <2>1 DEF Same
  <2>4. s.flags = [r.flags EXCEPT ![e] = s.flags[e]]
    BY ZenonT(60), <1>4, <2>1
  <2>5. \A i \in 1..Len(l) : l[i] \in All
    BY <1>3 DEF All
  <2>6. \A i \in 1..Len(l) : i > n + 1 => l[i] \in Blocked(s)
    <3>1. SUFFICES ASSUME NEW i \in 1..Len(l), i > n + 1
                   PROVE  l[i] \in Blocked(s)
      OBVIOUS
    <3>2. i > n /\ i # n + 1
      BY <1>3, <3>1
    <3>3. l[i] # t
      BY <1>3, <1>5, <3>2 DEF IsInjective
    <3> QED
      BY <1>4, <2>1, <2>5, <3>2, <3>3
  <2>7. \A i \in 1..(n + 1) : l[i] \in Blocked(s) => ~ Met(r.want[l[i]], cur)
    <3>1. SUFFICES ASSUME NEW i \in 1..(n + 1), l[i] \in Blocked(s)
                   PROVE  ~ Met(r.want[l[i]], cur)
      OBVIOUS
    <3>2. l[i] \in Blocked(q) /\ l[i] # t
      BY <1>3, <2>1, <2>5, <3>1
    <3>3. i \in 1..n
      BY <1>3, <3>2
    <3> QED
      BY <1>4, <3>2, <3>3
  <2>8. \A x \in Blocked(r) \ Blocked(s) : x = t \/ (x \in All \ {t} /\ x \in Blocked(r) \ Blocked(q))
    BY <2>1 DEF Blocked
  <2>9. \A x \in Blocked(r) \ Blocked(s) : Told(r.want[x], s.actl[x], s.flags[e])
    <3>1. /\ Told(r.want[t], s.actl[t], s.flags[e])
          /\ \A x \in All \ {t} : \A w :
               Told(w, q.actl[x], q.flags[e]) => Told(w, s.actl[x], s.flags[e])
      <4>1. Flagged(s, q, t, e, cur) /\ t \in All /\ Met(q.want[t], cur) /\ q.want[t] = r.want[t]
        BY <1>6, <1>9, <2>1
      <4>2. ToldMore(s, q, t, e)
        BY <4>1, ToldNext
      <4> QED
        BY <4>1, <4>2 DEF ToldMore
    <3> QED
      BY <1>4, <2>8, <3>1
  <2>10. \A x \in Blocked(r) \ Blocked(s) : r.blkobj[x] = e
    BY <1>3, <1>4, <2>8
  <2> QED
    BY <1>1, <1>2, <2>1, <2>2, <2>3, <2>4, <2>6, <2>7, <2>9, <2>10 DEF FlagInv
<1> QED
  BY <1>8, <1>9

\* Wake-ups leave the owners of the mutexes alone.
LEMMA OwnsCalm ==
  ASSUME NEW r, Sys(r), NEW q, Calm(q, r)
  PROVE  Owns(r.mlist, r.live, r.owner, r.nested, q.state)
<1>1. \A t \in All : r.state[t] # "DELETED" => q.state[t] # "DELETED"
  BY DEF Calm, Kept, Freed
<1>2. \A m \in Mutex : r.owner[m] # NULL => r.owner[m] \in All
  BY DEF Sys, Core, Lists, Typed, All
<1> QED
  BY <1>1, <1>2 DEF Sys, Owns

\* in w event e has the flags of cur, but for those that waiters it met have cleared
FlagsSet(w, e, cur) ==
    /\ Calm(w, k) /\ Same(w, k, EndFields \cup {"actl", "flags"})
    /\ w.actl = [t \in All |-> w.actl[t]]
    /\ w.flags[e] \in SUBSET cur /\ w.flags = [k.flags EXCEPT ![e] = w.flags[e]]
    /\ \A x \in Blocked(w) : k.blkobj[x] = e => ~ Met(k.want[x], cur)
    /\ \A x \in Blocked(k) \ Blocked(w) : Told(k.want[x], w.actl[x], w.flags[e])
    /\ \A x \in Blocked(k) \ Blocked(w) : k.blkobj[x] = e
    /\ k' = exit_sched(w)

\* krhino_event_set for RHINO_OR.
LEMMA EventOr ==
  ASSUME Good(k), NEW e \in Event, NEW f \in SetFlags, krhino_event_set(e, f, "OR")
  PROVE  \E w : FlagsSet(w, e, k.flags[e] \cup f)
<1>1. /\ Core(k) /\ IsK(k) /\ e \in Obj
       /\ k.flags \in [Event -> SUBSET UNION SetFlags]
       /\ k.actl = [x \in All |-> k.actl[x]] /\ k.active \in All
  BY AllTypes, ObjTypesOf, Kinds DEF Good, Sys, ObjTypes
<1> DEFINE cur == k.flags[e] \cup f
           l == k.blk[e]
           s == [k EXCEPT !.flags[e] = cur]
<1>2. k' = exit_sched(FoldLeft(LAMBDA r, t : event_wake(r, t, e, cur), s, l))
  BY ZenonT(30) DEF krhino_event_set
<1>3. cur = k.flags[e] \cup f
  OBVIOUS
<1>4. l = k.blk[e]
  OBVIOUS
<1>5. s = [k EXCEPT !.flags[e] = cur]
  OBVIOUS
<1> HIDE DEF cur, l, s
<1>6. l \in Seq(Task) /\ IsInjective(l) /\ ToSet(l) = {t \in Blocked(k) : k.blkobj[t] = e}
  BY <1>1, <1>4 DEF Core, Lists, Blk
<1>7. PICK c : c = <<k, l, cur, e>>
  OBVIOUS
<1>8. c[1] = k /\ c[2] = l /\ c[3] = cur /\ c[4] = e
  BY <1>7
<1>9. FlagInv(c, s, 0)
  <2>1. /\ Same(s, k, {"flags"}) /\ s.flags = [k.flags EXCEPT ![e] = cur]
    BY <1>1, <1>5, FieldNames DEF Same, IsK
  <2>2. /\ s.state = k.state /\ s.blkobj = k.blkobj /\ s.tick = k.tick /\ s.tickl = k.tickl
        /\ s.active = k.active /\ s.actl = k.actl /\ s.blkst = k.blkst
    BY <2>1, FieldNames DEF Same
  <2>3. Core(s)
    <3>1. Same(s, k, StillFields) /\ s.active \in All
      BY <1>1, <2>1, <2>2 DEF Same, StillFields
    <3> QED
      BY <1>1, <3>1, CoreStill
  <2>4. Calm(s, k)
    BY <2>2, <2>3 DEF Calm, Kept
  <2>5. \A i \in 1..Len(l) : i > 0 => l[i] \in Blocked(s)
    BY <1>6, <2>2, ToSetDef DEF Blocked
  <2>6. s.flags[e] \in SUBSET cur /\ s.flags = [k.flags EXCEPT ![e] = s.flags[e]]
    BY <1>1, <2>1
  <2>7. Same(s, k, EndFields \cup {"actl", "flags"}) /\ s.actl = [t \in All |-> s.actl[t]]
    BY <1>1, <2>1, <2>2 DEF Same
  <2>8. Blocked(k) \ Blocked(s) = {}
    BY <2>2 DEF Blocked
  <2> QED
    BY <1>8, <2>4, <2>5, <2>6, <2>7, <2>8 DEF FlagInv
<1>10. \A n \in 0..(Len(l) - 1) : \A x :
         FlagInv(c, x, n) => FlagInv(c, FlagStep(c, x, l[n + 1]), n + 1)
  <2>1. SUFFICES ASSUME NEW n \in 0..(Len(l) - 1), NEW x, FlagInv(c, x, n)
                 PROVE  FlagInv(c, FlagStep(c, x, l[n + 1]), n + 1)
    OBVIOUS
  <2>2. k.flags = [x1 \in Event |-> k.flags[x1]]
    BY <1>1
  <2>3. PICK t : t = l[n + 1]
    OBVIOUS
  <2>4. k.blkobj[t] = e
    <3>1. t \in ToSet(l)
      BY <1>6, <2>1, <2>3, ToSetDef
    <3> QED
      BY <1>6, <3>1
  <2>5. /\ FlagLoop(c) /\ n \in 0..(Len(c[2]) - 1) /\ FlagInv(c, x, n)
        /\ t = c[2][n + 1] /\ c[1].blkobj[t] = c[4]
    BY <1>6, <1>8, <2>1, <2>2, <2>3, <2>4 DEF FlagLoop
  <2>6. FlagInv(c, FlagStep(c, x, t), n + 1)
    BY <2>5, FlagOne
  <2> QED
    BY <2>3, <2>6
<1>11. PICK w : w = G!Walk(c, s, l)
  OBVIOUS
<1>12. FlagInv(c, w, Len(l))
  BY <1>6, <1>9, <1>10, <1>11, G!WalkInduction
<1>13. k' = exit_sched(w)
  <2>1. G!Walk(c, s, l) = FoldLeft(LAMBDA r, t : event_wake(r, t, e, cur), s, l)
    BY <1>8 DEF FlagStep, G!Walk, FoldLeft, MapThenFoldSet, Max, G!FoldLeft, G!MapThenFoldSet, G!Max
  <2> QED
    BY ZenonT(30), <1>2, <1>11, <2>1
<1>14. /\ Calm(w, k) /\ Same(w, k, EndFields \cup {"actl", "flags"})
       /\ w.actl = [t \in All |-> w.actl[t]]
       /\ w.flags[e] \in SUBSET cur /\ w.flags = [k.flags EXCEPT ![e] = w.flags[e]]
       /\ \A i \in 1..Len(l) : l[i] \in Blocked(w) => ~ Met(k.want[l[i]], cur)
       /\ \A x \in Blocked(k) \ Blocked(w) : Told(k.want[x], w.actl[x], w.flags[e])
       /\ \A x \in Blocked(k) \ Blocked(w) : k.blkobj[x] = e
  BY <1>8, <1>12 DEF FlagInv
<1>15. \A x \in Blocked(w) : k.blkobj[x] = e => ~ Met(k.want[x], cur)
  <2>1. SUFFICES ASSUME NEW x \in Blocked(w), k.blkobj[x] = e
                 PROVE  ~ Met(k.want[x], cur)
    OBVIOUS
  <2>2. x \in Blocked(k)
    BY <1>14, <2>1 DEF Blocked, Calm, Kept, Freed
  <2>3. PICK i \in 1..Len(l) : l[i] = x
    BY <1>6, <2>1, <2>2, ToSetDef
  <2> QED
    BY <1>14, <2>1, <2>3
<1> QED
  BY <1>3, <1>13, <1>14, <1>15 DEF FlagsSet

\* krhino_event_set.
LEMMA EventSet ==
  ASSUME Good(k), NEW e \in Event, NEW f \in SetFlags, NEW opt \in {"AND", "OR"},
         krhino_event_set(e, f, opt)
  PROVE  Good(k') /\ Deserved(k', k)
<1>0. /\ Sys(k) /\ ObjTypes(k) /\ e \in Obj /\ e \notin Mutex /\ e \notin Sem
      /\ k.flags \in [Event -> SUBSET UNION SetFlags] /\ f \in SUBSET UNION SetFlags
  BY AllTypes, ObjTypesOf, Kinds DEF Good, Sys, ObjTypes
<1>1. CASE opt = "AND"
  <2>1. PICK g : g = k.flags[e] \cap f
    OBVIOUS
  <2>2. k' = [k EXCEPT !.flags[e] = g] /\ g \in SUBSET k.flags[e]
    BY <1>1, <2>1 DEF krhino_event_set
  <2> QED
    BY <2>2, FlagsLess
<1>2. CASE opt = "OR"
  <2>1. PICK cur : cur = k.flags[e] \cup f
    OBVIOUS
  <2>2. PICK w : FlagsSet(w, e, cur)
    BY <1>2, <2>1, EventOr
  <2>3. /\ Calm(w, k) /\ Same(w, k, EndFields \cup {"actl", "flags"})
        /\ w.actl = [t \in All |-> w.actl[t]]
        /\ w.flags[e] \in SUBSET cur /\ w.flags = [k.flags EXCEPT ![e] = w.flags[e]]
        /\ \A x \in Blocked(w) : k.blkobj[x] = e => ~ Met(k.want[x], cur)
        /\ \A x \in Blocked(k) \ Blocked(w) : Told(k.want[x], w.actl[x], w.flags[e])
        /\ \A x \in Blocked(k) \ Blocked(w) : k.blkobj[x] = e
        /\ k' = exit_sched(w)
    BY <2>2 DEF FlagsSet
  <2>4. Same(w, k, EndFields \cup ObjFields)
    BY <2>3 DEF Same, ObjFields
  <2>5. /\ w.live = k.live /\ w.owner = k.owner /\ w.count = k.count /\ w.nested = k.nested
         /\ w.msg = k.msg /\ w.mlist = k.mlist
    BY <2>3, FieldNames DEF Same, EndFields, WakeFields, PriFields
  <2>6. w.flags \in [Event -> SUBSET UNION SetFlags]
    BY <1>0, <2>1, <2>3
  <2>7. ObjTypes(w)
    BY <1>0, <2>3, <2>5, <2>6 DEF ObjTypes
  <2>8. Denied(Blocked(w), w.blkobj, w.live, w.owner, w.count, k.want, w.flags)
    <3>1. SUFFICES ASSUME NEW t \in Blocked(w), NEW x, x = w.blkobj[t]
                   PROVE  /\ w.live[x]
                          /\ x \in Mutex => w.owner[x] \in Task \ {t}
                          /\ x \in Sem => w.count[x] = 0
                          /\ x \in Event => ~ Met(k.want[t], w.flags[x])
      BY DEF Denied
    <3>2. t \in Blocked(k) /\ x = k.blkobj[t]
      BY <2>3, <3>1 DEF Blocked, Calm, Kept, Freed
    <3>3. /\ k.live[x]
          /\ x \in Mutex => k.owner[x] \in Task \ {t}
          /\ x \in Sem => k.count[x] = 0
          /\ x \in Event => ~ Met(k.want[t], k.flags[x])
      BY <1>0, <3>2 DEF Sys, Denied
    <3>4. CASE x # e
      <4>1. x \in Event => w.flags[x] = k.flags[x]
        BY <2>3, <3>4, <1>0
      <4> QED
        BY <2>5, <3>3, <4>1
    <3>5. CASE x = e
      <4>1. ~ Met(k.want[t], cur)
        BY <2>3, <3>1, <3>2, <3>5
      <4>2. ~ Met(k.want[t], w.flags[x])
        BY <2>3, <3>5, <4>1, MetLess
      <4> QED
        BY <1>0, <2>5, <3>3, <3>5, <4>2
    <3> QED
      BY <3>4, <3>5
  <2>9. Owns(w.mlist, w.live, w.owner, w.nested, w.state)
    <3>1. Owns(k.mlist, k.live, k.owner, k.nested, w.state)
      BY <1>0, <2>3, OwnsCalm
    <3> QED
      BY <2>5, <3>1
  <2>10. Sys(w) /\ StillReady(w, k)
    BY <1>0, <2>3, <2>4, <2>7, <2>8, <2>9, EndSys
  <2>11. Deserved(w, k) /\ IsK(w)
    <3>1. SUFFICES ASSUME NEW t \in Served(w, k)
                   PROVE  k.blkobj[t] \in Event /\ Told(k.want[t], w.actl[t], w.flags[k.blkobj[t]])
      <4>1. IsK(w)
        BY <2>3 DEF Same
      <4> QED
        BY <3>1, <4>1 DEF Deserved, Told
    <3>2. t \in Blocked(k) \ Blocked(w)
      BY DEF Served
    <3> QED
      BY <2>3, <3>2
  <2>12. k' = exit_sched(w)
    BY <2>2 DEF FlagsSet
  <2>13. Good(k')
    BY <2>10, <2>12, EndGood
  <2>14. Deserved(k', k)
    BY <2>11, <2>12, ExitServes
  <2> QED
    BY <2>13, <2>14
<1> QED
  BY <1>1, <1>2

-----------------------------------------------------------------------------
(* k_mutex.c.                                                               *)

\* the owners of the mutexes other than m agree with the lists, and m is on none
OwnsBut(mlist, live, owner, nested, state, m) ==
    /\ \A t \in All : IsInjective(mlist[t])
    /\ \A t \in All : \A x \in ToSet(mlist[t]) : x # m /\ live[x] /\ owner[x] = t
    /\ \A x \in Mutex \ {m} : live[x] /\ owner[x] # NULL =>
          /\ x \in ToSet(mlist[owner[x]])
          /\ nested[x] # 0
          /\ state[owner[x]] # "DELETED"

\* A mutex without owner, or that does not exist, is on no list.
LEMMA OwnsFree ==
  ASSUME NEW mlist, NEW live, NEW owner, NEW nested, NEW state,
         Owns(mlist, live, owner, nested, state), NEW m \in Mutex, owner[m] = NULL \/ ~ live[m]
  PROVE  OwnsBut(mlist, live, owner, nested, state, m)
<1>1. \A t \in All : t # NULL
  BY CoreAssumption
<1> QED
  BY <1>1 DEF Owns, OwnsBut

\* Its owner gives a mutex up.
LEMMA OwnsRelease ==
  ASSUME NEW mlist \in [All -> Seq(Mutex)], NEW live, NEW owner, NEW nested, NEW state,
         Owns(mlist, live, owner, nested, state), NEW m \in Mutex, NEW t \in All, owner[m] = t,
         NEW mlist2, mlist2 = [mlist EXCEPT ![t] = RemoveFirst(mlist[t], m)]
  PROVE  OwnsBut(mlist2, live, owner, nested, state, m)
<1>1. mlist[t] \in Seq(Mutex) /\ IsInjective(mlist[t])
  BY DEF Owns
<1>2. IsInjective(mlist2[t]) /\ ToSet(mlist2[t]) = ToSet(mlist[t]) \ {m}
  BY <1>1, RemoveFirstProperties
<1>3. \A x \in All \ {t} : mlist2[x] = mlist[x]
  OBVIOUS
<1>4. \A x \in All : IsInjective(mlist2[x])
  BY <1>2, <1>3 DEF Owns
<1>5. \A y \in All : \A x \in ToSet(mlist2[y]) : x # m /\ live[x] /\ owner[x] = y
  BY <1>2, <1>3 DEF Owns
<1>6. ASSUME NEW x \in Mutex \ {m}, live[x], owner[x] # NULL
      PROVE  x \in ToSet(mlist2[owner[x]]) /\ nested[x] # 0 /\ state[owner[x]] # "DELETED"
  <2>1. x \in ToSet(mlist[owner[x]]) /\ nested[x] # 0 /\ state[owner[x]] # "DELETED"
    BY <1>6 DEF Owns
  <2>2. mlist2[owner[x]] = mlist[owner[x]] \/ owner[x] = t
    OBVIOUS
  <2> QED
    BY <1>2, <1>6, <2>1, <2>2
<1> QED
  BY <1>4, <1>5, <1>6 DEF OwnsBut

\* for the mutexes other than m all is what it was
OtherMutex(live2, owner2, nested2, live, owner, nested, m) ==
    \A x \in Mutex \ {m} : live2[x] = live[x] /\ owner2[x] = owner[x] /\ nested2[x] = nested[x]

\* no task is deleted
Remain(state2, state) == \A t \in All : state[t] # "DELETED" => state2[t] # "DELETED"

\* What does not concern a mutex does not change who owns the others.
LEMMA OwnsButKept ==
  ASSUME NEW mlist, NEW live, NEW owner \in [Mutex -> Task \cup {NULL}], NEW nested, NEW state,
         NEW m \in Mutex, OwnsBut(mlist, live, owner, nested, state, m),
         NEW live2, NEW owner2, NEW nested2, NEW state2, mlist \in [All -> Seq(Mutex)],
         OtherMutex(live2, owner2, nested2, live, owner, nested, m), Remain(state2, state)
  PROVE  OwnsBut(mlist, live2, owner2, nested2, state2, m)
<1>1. \A t \in All : \A x \in ToSet(mlist[t]) : x \in Mutex
  BY ToSetDef
<1>2. \A x \in Mutex : owner[x] # NULL => owner[x] \in All
  BY DEF All
<1> QED
  BY <1>1, <1>2 DEF OwnsBut, OtherMutex, Remain

\* A mutex on no list has no owner or does not exist.
LEMMA OwnsNone ==
  ASSUME NEW mlist, NEW live, NEW owner, NEW nested, NEW state, NEW m \in Mutex,
         OwnsBut(mlist, live, owner, nested, state, m), owner[m] = NULL \/ ~ live[m]
  PROVE  Owns(mlist, live, owner, nested, state)
BY DEF Owns, OwnsBut

\* m is put in front of the list of task u
InFront(mlist2, mlist, u, m) == mlist2 = [mlist EXCEPT ![u] = <<m>> \o mlist[u]]

\* mutex m is locked by task u
LockedBy(live, owner, nested, state, m, u) ==
    live[m] /\ owner[m] = u /\ nested[m] # 0 /\ state[u] # "DELETED"

\* A mutex gets an owner.
LEMMA OwnsGive ==
  ASSUME NEW mlist \in [All -> Seq(Mutex)], NEW live, NEW owner, NEW nested, NEW state,
         NEW m \in Mutex, OwnsBut(mlist, live, owner, nested, state, m), NEW u \in All,
         LockedBy(live, owner, nested, state, m, u), NEW mlist2, InFront(mlist2, mlist, u, m)
  PROVE  Owns(mlist2, live, owner, nested, state) /\ mlist2 \in [All -> Seq(Mutex)]
<1>0. /\ mlist2 = [mlist EXCEPT ![u] = <<m>> \o mlist[u]]
      /\ live[m] /\ owner[m] = u /\ nested[m] # 0 /\ state[u] # "DELETED"
  BY DEF InFront, LockedBy
<1>1. mlist[u] \in Seq(Mutex) /\ IsInjective(mlist[u]) /\ m \notin ToSet(mlist[u])
  BY DEF OwnsBut
<1>2. /\ mlist2[u] \in Seq(Mutex) /\ IsInjective(mlist2[u])
      /\ ToSet(mlist2[u]) = ToSet(mlist[u]) \cup {m}
  BY <1>0, <1>1, ConsProperties
<1>3. \A x \in All \ {u} : mlist2[x] = mlist[x]
  BY <1>0
<1>4. mlist2 \in [All -> Seq(Mutex)]
  BY <1>0, <1>2
<1>5. \A t \in All : IsInjective(mlist2[t])
  BY <1>2, <1>3 DEF OwnsBut
<1>6. \A t \in All : \A x \in ToSet(mlist2[t]) : live[x] /\ owner[x] = t
  BY <1>0, <1>2, <1>3 DEF OwnsBut
<1>7. ASSUME NEW x \in Mutex, live[x], owner[x] # NULL
      PROVE  x \in ToSet(mlist2[owner[x]]) /\ nested[x] # 0 /\ state[owner[x]] # "DELETED"
  <2>1. CASE x = m
    BY <1>0, <1>2, <2>1
  <2>2. CASE x # m
    <3>1. x \in ToSet(mlist[owner[x]]) /\ nested[x] # 0 /\ state[owner[x]] # "DELETED"
      BY <1>7, <2>2 DEF OwnsBut
    <3>2. mlist2[owner[x]] = mlist[owner[x]] \/ owner[x] = u
      BY <1>0
    <3> QED
      BY <1>2, <3>1, <3>2
  <2> QED
    BY <2>1, <2>2
<1> QED
  BY <1>4, <1>5, <1>6, <1>7 DEF Owns

\* A mutex nobody waits for is set.
LEMMA MutexSet ==
  ASSUME Good(k), NEW m \in Mutex, Unwanted(k, m), NEW q,
         Same(q, k, {"live", "owner", "mlist", "nested"}),
         q.live \in [Obj -> BOOLEAN], q.nested \in [Mutex -> Nat],
         q.owner \in [Mutex -> Task \cup {NULL}], q.mlist \in [All -> Seq(Mutex)],
         \A x \in Obj \ {m} : q.live[x] = k.live[x], \A x \in Mutex \ {m} : q.owner[x] = k.owner[x],
         Owns(q.mlist, q.live, q.owner, q.nested, k.state)
  PROVE  Good(q)
<1>0. Sys(k) /\ ObjTypes(k)
  BY ObjTypesOf DEF Good
<1>1. /\ q.count = k.count /\ q.flags = k.flags /\ q.actl = k.actl /\ q.msg = k.msg
      /\ Same(q, k, ObjFields)
  BY FieldNames DEF Same, ObjFields
<1>2. ObjTypes(q)
  BY <1>0, <1>1 DEF ObjTypes
<1>3. Denied(Blocked(k), k.blkobj, q.live, q.owner, q.count, k.want, q.flags)
  <2>1. \A t \in Blocked(k) : k.blkobj[t] \in Obj \ {m}
    BY <1>0 DEF Unwanted, Sys, Core, Lists
  <2>2. Denied(Blocked(k), k.blkobj, k.live, k.owner, k.count, k.want, k.flags)
    BY <1>0 DEF Sys
  <2> QED
    BY <1>1, <2>1, <2>2 DEF Denied
<1> QED
  BY <1>1, <1>2, <1>3, StillGood

\* krhino_mutex_create.
LEMMA MutexCreate ==
  ASSUME Good(k), NEW t \in Task, NEW m \in Mutex, krhino_mutex_create(t, m)
  PROVE  Good(k')
<1>0. /\ Sys(k) /\ IsK(k) /\ ~ k.live[m] /\ m \in Obj /\ k.live \in [Obj -> BOOLEAN]
      /\ k.nested \in [Mutex -> Nat] /\ k.owner \in [Mutex -> Task \cup {NULL}]
      /\ k.mlist \in [All -> Seq(Mutex)]
  BY AllTypes, Kinds DEF Good, krhino_mutex_create
<1>1. PICK q : q = [k EXCEPT !.blk[m] = <<>>, !.owner[m] = NULL, !.live[m] = TRUE]
  OBVIOUS
<1>2. /\ Same(q, k, {"blk", "live", "owner"}) /\ q.blk = [k.blk EXCEPT ![m] = <<>>]
      /\ q.owner = [k.owner EXCEPT ![m] = NULL] /\ q.live = [k.live EXCEPT ![m] = TRUE]
      /\ q.mlist = k.mlist /\ q.nested = k.nested
  BY ZenonT(30), <1>0, <1>1, FieldNames DEF Same, IsK
<1>3. Unwanted(k, m)
  BY <1>0, UnwantedOf
<1>4. Same(q, k, {"live", "owner", "mlist", "nested"})
  BY <1>2, <1>3 DEF Same, Unwanted
<1>5. /\ q.live \in [Obj -> BOOLEAN] /\ q.owner \in [Mutex -> Task \cup {NULL}]
      /\ \A x \in Obj \ {m} : q.live[x] = k.live[x]
      /\ \A x \in Mutex \ {m} : q.owner[x] = k.owner[x]
      /\ q.owner[m] = NULL
  BY <1>0, <1>2
<1>6. Owns(q.mlist, q.live, q.owner, q.nested, k.state)
  <2>1. OwnsBut(k.mlist, k.live, k.owner, k.nested, k.state, m)
    BY <1>0, OwnsFree DEF Sys
  <2>2. /\ OtherMutex(q.live, q.owner, q.nested, k.live, k.owner, k.nested, m)
        /\ Remain(k.state, k.state)
    BY <1>2, <1>5, Kinds DEF OtherMutex, Remain
  <2>3. OwnsBut(k.mlist, q.live, q.owner, q.nested, k.state, m)
    BY <1>0, <2>1, <2>2, OwnsButKept
  <2> QED
    BY <1>2, <1>5, <2>3, OwnsNone
<1>7. Good(q)
  BY <1>0, <1>2, <1>3, <1>4, <1>5, <1>6, MutexSet
<1> QED
  BY <1>1, <1>7 DEF krhino_mutex_create

\* The owner of a mutex locks it once more, or unlocks it once.
LEMMA NestedSet ==
  ASSUME Good(k), NEW m \in Mutex, NEW n \in Nat, n # 0,
         k' = [k EXCEPT !.nested[m] = n]
  PROVE  Good(k') /\ Deserved(k', k)
<1>0. /\ Sys(k) /\ IsK(k) /\ ObjTypes(k) /\ k.nested \in [Mutex -> Nat]
      /\ k.owner \in [Mutex -> Task \cup {NULL}] /\ k.mlist \in [All -> Seq(Mutex)]
  BY AllTypes, ObjTypesOf DEF Good
<1>1. PICK q : q = [k EXCEPT !.nested[m] = n]
  OBVIOUS
<1>2. Same(q, k, ObjFields) /\ q.nested = [k.nested EXCEPT ![m] = n]
  BY <1>0, <1>1, FieldNames DEF Same, IsK, ObjFields
<1>3. /\ q.live = k.live /\ q.count = k.count /\ q.flags = k.flags /\ q.actl = k.actl
      /\ q.msg = k.msg /\ q.owner = k.owner /\ q.mlist = k.mlist
  BY <1>0, <1>1, FieldNames DEF IsK
<1>4. ObjTypes(q)
  BY <1>0, <1>2, <1>3 DEF ObjTypes
<1>5. Denied(Blocked(k), k.blkobj, q.live, q.owner, q.count, k.want, q.flags)
  BY <1>0, <1>3 DEF Sys
<1>6. Owns(q.mlist, q.live, q.owner, q.nested, k.state)
  <2>1. Owns(k.mlist, k.live, k.owner, k.nested, k.state)
    BY <1>0 DEF Sys
  <2> QED
    BY <1>0, <1>2, <1>3, <2>1 DEF Owns
<1>7. Good(q)
  BY <1>0, <1>2, <1>3, <1>4, <1>5, <1>6, StillGood
<1>8. Deserved(q, k)
  <2>1. q.state = k.state
    BY <1>2, FieldNames DEF Same, ObjFields
  <2> QED
    BY <2>1, StateKept
<1> QED
  BY <1>1, <1>7, <1>8

\* krhino_mutex_lock of a mutex without owner.
LEMMA MutexLockFree ==
  ASSUME Good(k), NEW t \in Task, NEW m \in Mutex, mutex_lock_free(t, m)
  PROVE  Good(k')
<1>0. /\ Sys(k) /\ IsK(k) /\ t \in All /\ k.state[t] = "RDY" /\ m \in Obj
      /\ k.live[m] /\ k.owner[m] = NULL /\ k.live \in [Obj -> BOOLEAN]
      /\ k.nested \in [Mutex -> Nat] /\ k.owner \in [Mutex -> Task \cup {NULL}]
      /\ k.mlist \in [All -> Seq(Mutex)]
  BY AllTypes, Kinds, CallerIs DEF Good, mutex_lock_free
<1>1. PICK q : q = [mutex_to_task(k, m, t) EXCEPT !.nested[m] = 1]
  OBVIOUS
<1>2. /\ Same(q, k, {"live", "owner", "mlist", "nested"})
      /\ q.owner = [k.owner EXCEPT ![m] = t] /\ q.mlist = [k.mlist EXCEPT ![t] = <<m>> \o k.mlist[t]]
      /\ q.nested = [k.nested EXCEPT ![m] = 1] /\ q.live = k.live
  BY ZenonT(30), <1>0, <1>1, FieldNames DEF Same, IsK, mutex_to_task
<1>3. /\ q.owner[m] = t /\ q.nested[m] # 0 /\ q.live[m] /\ q.nested \in [Mutex -> Nat]
      /\ q.owner \in [Mutex -> Task \cup {NULL}] /\ q.live \in [Obj -> BOOLEAN]
      /\ \A x \in Mutex \ {m} : q.owner[x] = k.owner[x] /\ q.nested[x] = k.nested[x]
  BY <1>0, <1>2
<1>4. Unwanted(k, m)
  <2>1. \A x \in Blocked(k) : k.blkobj[x] # m
    BY <1>0, CoreAssumption DEF Sys, Denied, All
  <2>2. k.blk \in [Obj -> Seq(Task)] /\ ToSet(k.blk[m]) = {x \in Blocked(k) : k.blkobj[x] = m}
    BY <1>0 DEF Sys, Core, Lists, Blk
  <2>3. ToSet(k.blk[m]) = {} /\ k.blk[m] \in Seq(Task)
    BY <1>0, <2>1, <2>2
  <2>4. k.blk[m] = <<>>
    BY <2>3, ToSetDef
  <2> QED
    BY <1>0, <2>4, UnwantedOf
<1>5. OwnsBut(k.mlist, q.live, q.owner, q.nested, k.state, m)
  <2>1. OwnsBut(k.mlist, k.live, k.owner, k.nested, k.state, m)
    BY <1>0, OwnsFree DEF Sys
  <2>2. /\ OtherMutex(q.live, q.owner, q.nested, k.live, k.owner, k.nested, m)
        /\ Remain(k.state, k.state)
    BY <1>2, <1>3 DEF OtherMutex, Remain
  <2> QED
    BY <1>0, <2>1, <2>2, OwnsButKept
<1>6. Owns(q.mlist, q.live, q.owner, q.nested, k.state) /\ q.mlist \in [All -> Seq(Mutex)]
  <2>1. InFront(q.mlist, k.mlist, t, m)
    BY <1>0, <1>2 DEF InFront
  <2>2. /\ k.mlist \in [All -> Seq(Mutex)] /\ t \in All
        /\ LockedBy(q.live, q.owner, q.nested, k.state, m, t)
    BY <1>0, <1>3 DEF LockedBy
  <2> QED
    BY <1>5, <2>1, <2>2, OwnsGive
<1>7. Good(q)
  <2>1. /\ \A x \in Obj \ {m} : q.live[x] = k.live[x]
        /\ \A x \in Mutex \ {m} : q.owner[x] = k.owner[x]
    BY <1>2, <1>3
  <2> QED
    BY <1>2, <1>3, <1>4, <1>6, <2>1, MutexSet
<1> QED
  BY <1>1, <1>7 DEF mutex_lock_free

\* krhino_mutex_lock of a mutex another task owns: the owner inherits the priority
\* of the caller, and so on, and the caller is blocked.
LEMMA MutexLockPend ==
  ASSUME Good(k), NEW t \in Task, NEW m \in Mutex, NEW ticks \in LockTicks,
         mutex_lock_pend(t, m, ticks)
  PROVE  Good(k')
<1>0. /\ Sys(k) /\ Core(k) /\ t \in All /\ k.active = t /\ k.state[t] = "RDY" /\ m \in Obj
      /\ m \notin Sem /\ m \notin Event /\ k.live[m] /\ k.lock = 0
      /\ k.owner[m] \in Task \ {t} /\ k.prio \in [All -> Prio]
  BY AllTypes, Kinds, CallerIs DEF Good, mutex_lock_pend
<1>1. PICK own : own = k.owner[m]
  OBVIOUS
<1>2. PICK r : r = IF k.prio[t] < k.prio[own] THEN task_pri_change(k, own, k.prio[t]) ELSE k
  OBVIOUS
<1>3. k' = exit_sched_pend(pend_to_blk_obj(r, m, t, ticks), m)
  BY <1>1, <1>2 DEF mutex_lock_pend
<1>4. Calm(r, k) /\ Same(r, k, EndFields)
  <2>1. CASE r = k
    BY <1>0, <2>1 DEF Calm, Kept, Same, Core, Lists, Typed
  <2>2. CASE r = task_pri_change(k, own, k.prio[t])
    <3>1. own \in Task /\ k.prio[t] \in Prio
      BY <1>0, <1>1
    <3>2. Core(r) /\ Same(r, k, PriFields)
      BY <1>0, <2>2, <3>1, TaskPriChange
    <3>3. Same(r, k, PriFields \cup {"mlist", "live", "owner", "nested"})
      BY <3>2 DEF Same
    <3> QED
      BY <3>2, <3>3, CalmPri DEF Same, EndFields
  <2> QED
    BY <1>2, <2>1, <2>2
<1>5. /\ Sys(r) /\ r.active = t /\ r.lock = 0 /\ r.state[t] = "RDY"
      /\ r.blkobj \in [All -> Obj \cup {NULL}]
  BY <1>0, <1>4, CalmSys, AllTypes
<1>6. r.live = k.live /\ r.owner = k.owner
  BY <1>4, FieldNames DEF Same, EndFields, WakeFields, PriFields
<1>7. PICK b : b = [r.blkobj EXCEPT ![t] = m]
  OBVIOUS
<1>8. b[t] = m
  BY <1>0, <1>5, <1>7
<1>9. Denied({t}, b, r.live, r.owner, r.count, r.want, r.flags)
  BY <1>0, <1>6, <1>8 DEF Denied
<1>10. ticks \in (Nat \ {0}) \cup {WAIT_FOREVER}
  BY MutexAssumption
<1> QED
  BY <1>0, <1>3, <1>5, <1>7, <1>9, <1>10, BlockGood

\* krhino_mutex_lock.
LEMMA MutexLock ==
  ASSUME Good(k), NEW t \in Task, NEW m \in Mutex, krhino_mutex_lock(t, m)
  PROVE  Good(k')
<1>1. CASE mutex_lock_nested(t, m)
  <2>1. PICK n : n = k.nested[m] + 1
    OBVIOUS
  <2>2. n \in Nat /\ n # 0
    BY <2>1, AllTypes DEF Good
  <2>3. k' = [k EXCEPT !.nested[m] = n]
    BY <1>1, <2>1 DEF mutex_lock_nested
  <2> QED
    BY <2>2, <2>3, NestedSet
<1>2. CASE mutex_lock_free(t, m)
  BY <1>2, MutexLockFree
<1>3. ASSUME NEW ticks \in LockTicks, mutex_lock_pend(t, m, ticks)
      PROVE  Good(k')
  BY <1>3, MutexLockPend
<1> QED
  BY <1>1, <1>2, <1>3 DEF krhino_mutex_lock

\* the owner of mutex m, which does not exist any more, has taken it off its list in
\* rel; its waiters are dismissed from there
DroppedIn(rel, m) ==
    /\ Core(rel) /\ Same(rel, k, PriFields \cup {"mlist", "live"})
    /\ rel.live = [k.live EXCEPT ![m] = FALSE]
    /\ OwnsBut(rel.mlist, k.live, k.owner, k.nested, k.state, m)
    /\ k' = exit_sched(pend_rm_all(rel, m))

\* The first part of krhino_mutex_del.
LEMMA MutexDrop ==
  ASSUME Good(k), NEW t \in Task, NEW m \in Mutex, krhino_mutex_del(t, m)
  PROVE  \E rel : DroppedIn(rel, m)
<1>0. /\ Sys(k) /\ Core(k) /\ IsK(k) /\ k.active \in All
      /\ k.owner \in [Mutex -> Task \cup {NULL}] /\ k.mlist \in [All -> Seq(Mutex)]
  BY AllTypes DEF Good, Sys
<1>1. PICK dead : dead = [k EXCEPT !.live[m] = FALSE]
  OBVIOUS
<1>2. PICK own : own = k.owner[m]
  OBVIOUS
<1>3. PICK rel : rel = IF own = NULL THEN dead ELSE mutex_release(dead, own, m)
  OBVIOUS
<1>4. PICK s : s = pend_rm_all(rel, m)
  OBVIOUS
<1>5. k' = exit_sched(s)
  BY <1>0, <1>1, <1>2, <1>3, <1>4, FieldNames DEF krhino_mutex_del, IsK
<1>6. Same(dead, k, {"live"}) /\ dead.live = [k.live EXCEPT ![m] = FALSE]
  BY <1>0, <1>1, FieldNames DEF Same, IsK
<1>7. Core(dead) /\ dead.mlist = k.mlist
  <2>1. Same(dead, k, StillFields) /\ dead.active \in All /\ dead.mlist = k.mlist
    BY <1>0, <1>6, FieldNames DEF Same, StillFields
  <2> QED
    BY <1>0, <2>1, CoreStill
<1>8. /\ Core(rel) /\ Same(rel, dead, PriFields \cup {"mlist"})
      /\ OwnsBut(rel.mlist, k.live, k.owner, k.nested, k.state, m)
  <2>1. CASE own = NULL
    <3>1. OwnsBut(k.mlist, k.live, k.owner, k.nested, k.state, m)
      BY <1>0, <1>2, <2>1, OwnsFree DEF Sys
    <3> QED
      BY <1>3, <1>6, <1>7, <2>1, <3>1 DEF Same
  <2>2. CASE own # NULL
    <3>1. own \in Task /\ own \in All
      BY <1>0, <1>2, <2>2 DEF All
    <3>2. IsInjective(dead.mlist[own])
      BY <1>0, <1>7, <3>1 DEF Sys, Owns
    <3>3. rel = mutex_release(dead, own, m)
      BY <1>3, <2>2
    <3>4. /\ Core(rel) /\ Same(rel, dead, PriFields \cup {"mlist"})
          /\ rel.mlist = [dead.mlist EXCEPT ![own] = RemoveFirst(dead.mlist[own], m)]
      <4>1. Dropped(rel, dead, own, m)
        BY SMTT(30), <1>7, <3>1, <3>2, <3>3, MutexRelease
      <4> QED
        BY <4>1 DEF Dropped
    <3>5. rel.mlist = [k.mlist EXCEPT ![own] = RemoveFirst(k.mlist[own], m)]
      BY <1>7, <3>4
    <3>6. OwnsBut(rel.mlist, k.live, k.owner, k.nested, k.state, m)
      BY <1>0, <1>2, <3>1, <3>5, OwnsRelease DEF Sys
    <3> QED
      BY <3>4, <3>6
  <2> QED
    BY <2>1, <2>2
<1>9. Same(rel, k, PriFields \cup {"mlist", "live"})
  BY <1>6, <1>8 DEF Same
<1>10. rel.live = [k.live EXCEPT ![m] = FALSE]
  BY <1>6, <1>8, FieldNames DEF Same, PriFields
<1> QED
  BY <1>4, <1>5, <1>8, <1>9, <1>10 DEF DroppedIn

\* krhino_mutex_del.
LEMMA MutexDel ==
  ASSUME Good(k), NEW t \in Task, NEW m \in Mutex, krhino_mutex_del(t, m)
  PROVE  Good(k') /\ Deserved(k', k)
<1>1. /\ Sys(k) /\ Core(k) /\ ObjTypes(k) /\ m \in Obj /\ m \notin Sem /\ m \notin Event
      /\ k.live \in [Obj -> BOOLEAN] /\ k.owner \in [Mutex -> Task \cup {NULL}]
  BY AllTypes, ObjTypesOf, Kinds DEF Good, Sys
<1>2. PICK rel : DroppedIn(rel, m)
  BY MutexDrop
<1>3. PICK s : s = pend_rm_all(rel, m)
  OBVIOUS
<1>4. k' = exit_sched(s)
  BY <1>2, <1>3 DEF DroppedIn
<1>5. /\ Core(rel) /\ Same(rel, k, PriFields \cup {"mlist", "live"})
      /\ rel.live = [k.live EXCEPT ![m] = FALSE]
      /\ OwnsBut(rel.mlist, k.live, k.owner, k.nested, k.state, m)
  BY <1>2 DEF DroppedIn
<1>6. Same(rel, k, PriFields \cup {"mlist", "live", "owner", "nested"})
  BY <1>5 DEF Same
<1>7. Calm(rel, k)
  BY <1>5, <1>6, CalmPri
<1>8. Dismissed(s, k, m) /\ Same(s, rel, WakeFields) /\ Vain(s, k)
  <2>1. rel.state = k.state
    BY <1>6, FieldNames DEF Same, PriFields
  <2> QED
    BY <1>1, <1>3, <1>7, <2>1, Dismiss
<1>9. Same(s, k, EndFields \cup ObjFields)
  BY <1>6, <1>8 DEF Same, EndFields, ObjFields
<1>10. /\ s.live = [k.live EXCEPT ![m] = FALSE] /\ s.owner = k.owner /\ s.nested = k.nested
       /\ s.count = k.count /\ s.flags = k.flags /\ s.actl = k.actl /\ s.msg = k.msg
       /\ s.mlist = rel.mlist
  BY <1>5, <1>8, FieldNames DEF Same, WakeFields, PriFields
<1>11. ObjTypes(s) /\ s.live[m] = FALSE /\ \A x \in Obj \ {m} : s.live[x] = k.live[x]
  BY <1>1, <1>10 DEF ObjTypes
<1>12. Denied(Blocked(s), s.blkobj, s.live, s.owner, s.count, k.want, s.flags)
  <2>1. \A x \in Blocked(s) : x \in Blocked(k) /\ s.blkobj[x] = k.blkobj[x] /\ s.blkobj[x] \in Obj \ {m}
    BY <1>8 DEF Dismissed
  <2>2. Denied(Blocked(k), k.blkobj, k.live, k.owner, k.count, k.want, k.flags)
    BY <1>1 DEF Sys
  <2> QED
    BY <1>10, <1>11, <2>1, <2>2 DEF Denied
<1>13. Owns(s.mlist, s.live, s.owner, s.nested, s.state)
  <2>1. Calm(s, k)
    BY <1>8 DEF Dismissed
  <2>2. Remain(s.state, k.state)
    BY <2>1 DEF Calm, Kept, Freed, Remain
  <2>3. OtherMutex(s.live, s.owner, s.nested, k.live, k.owner, k.nested, m)
    BY <1>10, <1>11, Kinds DEF OtherMutex
  <2>4. rel.mlist \in [All -> Seq(Mutex)]
    BY <1>5 DEF Core, Lists, Typed
  <2>5. OwnsBut(rel.mlist, s.live, s.owner, s.nested, s.state, m)
    BY <1>1, <1>5, <2>2, <2>3, <2>4, OwnsButKept
  <2> QED
    BY <1>10, <1>11, <2>5, OwnsNone
<1>14. Sys(s) /\ StillReady(s, k)
  <2>1. Calm(s, k)
    BY <1>8 DEF Dismissed
  <2> QED
    BY <1>1, <1>9, <1>11, <1>12, <1>13, <2>1, EndSys
<1>15. Deserved(s, k) /\ IsK(s)
  BY <1>8, VainServes DEF Same
<1> QED
  BY <1>4, <1>14, <1>15, EndGood, ExitServes

\* the owner t of mutex m has taken it off its list and has lost the priorities of
\* those who wait for it
Released(s, t, m) ==
    /\ Core(s) /\ Calm(s, k) /\ Same(s, k, PriFields \cup {"mlist", "nested"})
    /\ OwnsBut(s.mlist, k.live, k.owner, k.nested, k.state, m)
    /\ s.nested = [k.nested EXCEPT ![m] = 0]
    /\ k.state[t] = "RDY" => \A x \in All \ {t} : s.prio[x] = k.prio[x]

\* The first part of krhino_mutex_unlock.
LEMMA Release ==
  ASSUME Good(k), NEW t \in Task, NEW m \in Mutex, k.owner[m] = t, NEW s,
         s = mutex_release([k EXCEPT !.nested[m] = 0], t, m)
  PROVE  Released(s, t, m)
<1>0. /\ Sys(k) /\ Core(k) /\ IsK(k) /\ k.active \in All /\ t \in All
      /\ k.mlist \in [All -> Seq(Mutex)]
  BY AllTypes DEF Good, Sys, All
<1>1. PICK r : r = [k EXCEPT !.nested[m] = 0]
  OBVIOUS
<1>2. Same(r, k, {"nested"}) /\ r.nested = [k.nested EXCEPT ![m] = 0] /\ r.mlist = k.mlist
  BY <1>0, <1>1, FieldNames DEF Same, IsK
<1>3. Core(r)
  <2>1. Same(r, k, StillFields) /\ r.active \in All
    BY <1>0, <1>2, FieldNames DEF Same, StillFields
  <2> QED
    BY <1>0, <2>1, CoreStill
<1>4. IsInjective(r.mlist[t])
  BY <1>0, <1>2 DEF Sys, Owns
<1>5. /\ Core(s) /\ Same(s, r, PriFields \cup {"mlist"})
      /\ s.mlist = [r.mlist EXCEPT ![t] = RemoveFirst(r.mlist[t], m)]
      /\ r.state[t] = "RDY" => \A x \in All \ {t} : s.prio[x] = r.prio[x]
  <2>1. t \in All
    BY <1>0
  <2>2. s = mutex_release(r, t, m)
    BY <1>1
  <2>3. Dropped(s, r, t, m)
    BY <1>3, <1>4, <2>1, <2>2, MutexRelease
  <2> QED
    BY <2>3 DEF Dropped
<1>6. s.mlist = [k.mlist EXCEPT ![t] = RemoveFirst(k.mlist[t], m)]
  BY <1>2, <1>5
<1>7. OwnsBut(s.mlist, k.live, k.owner, k.nested, k.state, m)
  BY <1>0, <1>6, OwnsRelease DEF Sys
<1>8. Same(s, k, PriFields \cup {"mlist", "nested"})
  BY <1>2, <1>5 DEF Same
<1>9. Calm(s, k)
  BY <1>5, <1>8, CalmPri DEF Same
<1>10. s.nested = [k.nested EXCEPT ![m] = 0]
  BY <1>2, <1>5, FieldNames DEF Same, PriFields
<1>11. k.state[t] = "RDY" => \A x \in All \ {t} : s.prio[x] = k.prio[x]
  BY <1>2, <1>5, FieldNames DEF Same
<1> QED
  BY <1>5, <1>7, <1>8, <1>9, <1>10, <1>11 DEF Released

\* Nobody waits for the mutex: it has no owner from now on.
LEMMA UnlockNobody ==
  ASSUME Good(k), NEW t \in Task, NEW m \in Mutex, k.owner[m] = t, NEW s, Released(s, t, m),
         s.blk[m] = <<>>, k' = [s EXCEPT !.owner[m] = NULL]
  PROVE  Good(k') /\ Deserved(k', k)
<1>0. /\ Sys(k) /\ ObjTypes(k) /\ m \in Obj /\ k.owner \in [Mutex -> Task \cup {NULL}]
      /\ k.nested \in [Mutex -> Nat]
  BY AllTypes, ObjTypesOf, Kinds DEF Good
<1>1. /\ Core(s) /\ IsK(s) /\ Calm(s, k) /\ Same(s, k, PriFields \cup {"mlist", "nested"})
      /\ OwnsBut(s.mlist, k.live, k.owner, k.nested, k.state, m)
      /\ s.nested = [k.nested EXCEPT ![m] = 0] /\ s.mlist \in [All -> Seq(Mutex)]
  BY DEF Released, Core, Lists, Typed
<1>2. PICK q : q = [s EXCEPT !.owner[m] = NULL]
  OBVIOUS
<1>3. Same(q, s, {"owner"}) /\ q.owner = [s.owner EXCEPT ![m] = NULL] /\ q.mlist = s.mlist
  BY <1>1, <1>2, FieldNames DEF Same, IsK
<1>4. /\ s.owner = k.owner /\ q.live = k.live /\ q.count = k.count /\ q.flags = k.flags
      /\ q.actl = k.actl /\ q.msg = k.msg /\ q.nested = [k.nested EXCEPT ![m] = 0]
      /\ q.state = k.state /\ q.blkobj = k.blkobj
  BY <1>1, <1>3, FieldNames DEF Same, PriFields
<1>5. /\ q.owner \in [Mutex -> Task \cup {NULL}] /\ q.owner[m] = NULL
      /\ \A x \in Mutex \ {m} : q.owner[x] = k.owner[x] /\ q.nested[x] = k.nested[x]
      /\ q.nested \in [Mutex -> Nat]
  BY <1>0, <1>3, <1>4
<1>6. \A x \in Blocked(k) : k.blkobj[x] \in Obj \ {m}
  <2>1. s.state = k.state /\ s.blkobj = k.blkobj
    BY <1>1, FieldNames DEF Same, PriFields
  <2>2. Blocked(s) = Blocked(k)
    BY <2>1 DEF Blocked
  <2>3. /\ s.blk \in [Obj -> Seq(Task)] /\ ToSet(s.blk[m]) = {x \in Blocked(s) : s.blkobj[x] = m}
        /\ \A x \in Blocked(s) : s.blkobj[x] \in Obj
    BY <1>0, <1>1 DEF Core, Lists, Blk
  <2>4. ToSet(s.blk[m]) = {}
    BY <1>0, <2>3, ToSetDef
  <2> QED
    BY <2>1, <2>2, <2>3, <2>4
<1>7. Denied(Blocked(k), k.blkobj, q.live, q.owner, q.count, k.want, q.flags)
  <2>1. Denied(Blocked(k), k.blkobj, k.live, k.owner, k.count, k.want, k.flags)
    BY <1>0 DEF Sys
  <2> QED
    BY <1>4, <1>5, <1>6, <2>1 DEF Denied
<1>8. Denied(Blocked(q), q.blkobj, q.live, q.owner, q.count, k.want, q.flags)
  BY <1>4, <1>7 DEF Blocked
<1>9. Owns(q.mlist, q.live, q.owner, q.nested, q.state)
  <2>1. /\ OtherMutex(q.live, q.owner, q.nested, k.live, k.owner, k.nested, m)
        /\ Remain(q.state, k.state)
    BY <1>4, <1>5 DEF OtherMutex, Remain
  <2>2. OwnsBut(s.mlist, q.live, q.owner, q.nested, q.state, m)
    BY <1>0, <1>1, <2>1, OwnsButKept
  <2> QED
    BY <1>3, <1>5, <2>2, OwnsNone
<1>10. Calm(q, k)
  <2>1. Same(q, s, {"owner", "mlist", "nested", "live"})
    BY <1>3 DEF Same
  <2>2. \A x \in Blocked(s) : s.blkobj[x] \in Mutex => q.owner[s.blkobj[x]] \in Task
    <3>1. s.state = k.state /\ s.blkobj = k.blkobj
      BY <1>1, FieldNames DEF Same, PriFields
    <3> QED
      BY <1>7, <3>1 DEF Denied, Blocked
  <2>3. q.mlist \in [All -> Seq(Mutex)]
    BY <1>1, <1>3
  <2>4. Calm(q, s)
    BY <1>1, <1>5, <2>1, <2>2, <2>3, OwnerCore
  <2> QED
    BY <1>1, <2>4, CalmTrans
<1>11. Same(q, k, EndFields \cup ObjFields)
  BY <1>1, <1>3 DEF Same, EndFields, ObjFields
<1>12. ObjTypes(q)
  BY <1>0, <1>4, <1>5 DEF ObjTypes
<1>13. Sys(q) /\ StillReady(q, k)
  BY <1>0, <1>8, <1>9, <1>10, <1>11, <1>12, EndSys
<1>14. Deserved(q, k)
  BY <1>4, StateKept
<1> QED
  BY <1>2, <1>13, <1>14, EndGood

\* the woken task u becomes the owner of mutex m
Handed(q, w, m, u) ==
    /\ Same(q, w, {"owner", "mlist", "nested"}) /\ q.owner = [w.owner EXCEPT ![m] = u]
    /\ q.mlist = [w.mlist EXCEPT ![u] = <<m>> \o w.mlist[u]]
    /\ q.nested = [w.nested EXCEPT ![m] = 1]

\* A mutex that its owner has released is handed to a task that waited for it.
LEMMA HandOver ==
  ASSUME Good(k), NEW t \in Task, NEW m \in Mutex, k.live[m], NEW s, Released(s, t, m),
         NEW u \in Blocked(s), s.blkobj[u] = m, u \in Task, NEW w, Wakes(w, s, u),
         NEW q, Handed(q, w, m, u)
  PROVE  Sys(q) /\ StillReady(q, k)
<1>0. /\ Sys(k) /\ ObjTypes(k) /\ m \in Obj /\ k.owner \in [Mutex -> Task \cup {NULL}]
      /\ k.nested \in [Mutex -> Nat] /\ m \notin Sem /\ m \notin Event
  BY AllTypes, ObjTypesOf, Kinds DEF Good
<1>1. /\ Core(s) /\ Calm(s, k) /\ Same(s, k, PriFields \cup {"mlist", "nested"})
      /\ OwnsBut(s.mlist, k.live, k.owner, k.nested, k.state, m)
      /\ s.nested = [k.nested EXCEPT ![m] = 0]
  BY DEF Released
<1>2. u \in Blocked(s) /\ s.blkobj[u] = m /\ u \in Task /\ u \in All
  BY DEF All
<1>4. /\ Core(w) /\ Calm(w, s) /\ Same(w, s, WakeFields) /\ IsK(w)
      /\ \A x \in All : x \in Blocked(w) <=> x \in Blocked(s) /\ x # u
      /\ w.state[u] \in {"RDY", "SUSPENDED"}
  BY DEF Wakes
<1>6. /\ Same(q, w, {"owner", "mlist", "nested"}) /\ q.owner = [w.owner EXCEPT ![m] = u]
      /\ q.mlist = [w.mlist EXCEPT ![u] = <<m>> \o w.mlist[u]]
      /\ q.nested = [w.nested EXCEPT ![m] = 1]
  BY DEF Handed
<1>7. w.owner = k.owner /\ w.mlist = s.mlist /\ w.nested = s.nested
  BY <1>1, <1>4, FieldNames DEF Same, PriFields, WakeFields
<1>8. /\ q.live = k.live /\ q.count = k.count /\ q.flags = k.flags /\ q.actl = k.actl
      /\ q.msg = k.msg /\ q.state = w.state /\ q.blkobj = w.blkobj
  BY <1>1, <1>4, <1>6, FieldNames DEF Same, PriFields, WakeFields
<1>9. /\ q.owner \in [Mutex -> Task \cup {NULL}] /\ q.owner[m] = u /\ q.nested[m] # 0
      /\ \A x \in Mutex \ {m} : q.owner[x] = k.owner[x] /\ q.nested[x] = k.nested[x]
      /\ q.nested \in [Mutex -> Nat]
  <2>1. q.owner = [k.owner EXCEPT ![m] = u]
    BY <1>6, <1>7
  <2>2. /\ q.owner \in [Mutex -> Task \cup {NULL}] /\ q.owner[m] = u
        /\ \A x \in Mutex \ {m} : q.owner[x] = k.owner[x]
    BY <1>0, <1>2, <2>1
  <2>3. q.nested = [[k.nested EXCEPT ![m] = 0] EXCEPT ![m] = 1]
    BY <1>1, <1>6, <1>7
  <2>4. /\ q.nested \in [Mutex -> Nat] /\ q.nested[m] # 0
        /\ \A x \in Mutex \ {m} : q.nested[x] = k.nested[x]
    BY <1>0, <2>3
  <2> QED
    BY <2>2, <2>4
<1>10. Calm(w, k)
  BY <1>1, <1>4, CalmTrans
<1>11. Blocked(q) = Blocked(w)
  BY <1>8 DEF Blocked
<1>12. \A x \in Blocked(w) : x \in Blocked(k) /\ w.blkobj[x] = k.blkobj[x] /\ x # u
  BY <1>4, <1>10 DEF Calm, Kept, Freed, Blocked
<1>13. Denied(Blocked(q), q.blkobj, q.live, q.owner, q.count, k.want, q.flags)
  <2>1. SUFFICES ASSUME NEW x \in Blocked(w), NEW o, o = w.blkobj[x]
                 PROVE  /\ q.live[o]
                        /\ o \in Mutex => q.owner[o] \in Task \ {x}
                        /\ o \in Sem => q.count[o] = 0
                        /\ o \in Event => ~ Met(k.want[x], q.flags[o])
    BY <1>8, <1>11 DEF Denied
  <2>2. /\ k.live[o]
        /\ o \in Mutex => k.owner[o] \in Task \ {x}
        /\ o \in Sem => k.count[o] = 0
        /\ o \in Event => ~ Met(k.want[x], k.flags[o])
    BY <1>0, <1>12, <2>1 DEF Sys, Denied
  <2>3. x # u
    BY <1>12, <2>1
  <2> QED
    BY <1>2, <1>8, <1>9, <2>2, <2>3
<1>14. Owns(q.mlist, q.live, q.owner, q.nested, q.state) /\ q.mlist \in [All -> Seq(Mutex)]
  <2>1. OtherMutex(q.live, q.owner, q.nested, k.live, k.owner, k.nested, m)
    BY <1>8, <1>9 DEF OtherMutex
  <2>2. Remain(q.state, k.state)
    BY <1>8, <1>10 DEF Remain, Calm, Kept, Freed
  <2>3. s.mlist \in [All -> Seq(Mutex)]
    BY <1>1 DEF Core, Lists, Typed
  <2>4. OwnsBut(s.mlist, q.live, q.owner, q.nested, q.state, m)
    BY <1>0, <1>1, <2>1, <2>2, <2>3, OwnsButKept
  <2>5. LockedBy(q.live, q.owner, q.nested, q.state, m, u) /\ u \in All
    BY <1>2, <1>4, <1>8, <1>9 DEF LockedBy
  <2>6. InFront(q.mlist, s.mlist, u, m)
    BY <1>6, <1>7 DEF InFront
  <2> QED
    BY <2>3, <2>4, <2>5, <2>6, OwnsGive
<1>15. Calm(q, k)
  <2>1. Same(q, w, {"owner", "mlist", "nested", "live"})
    BY <1>6 DEF Same
  <2>2. \A x \in Blocked(w) : w.blkobj[x] \in Mutex => q.owner[w.blkobj[x]] \in Task
    BY <1>8, <1>11, <1>13 DEF Denied
  <2>3. Calm(q, w)
    BY <1>4, <1>9, <1>14, <2>1, <2>2, OwnerCore
  <2> QED
    BY <1>10, <2>3, CalmTrans
<1>16. Same(q, k, EndFields \cup ObjFields)
  BY <1>1, <1>4, <1>6 DEF Same, EndFields, ObjFields
<1>17. ObjTypes(q)
  BY SMTT(30), <1>0, <1>8, <1>9 DEF ObjTypes
<1> QED
  BY <1>0, <1>13, <1>14, <1>15, <1>16, <1>17, EndSys

\* The first waiter gets the mutex.
LEMMA UnlockFirst ==
  ASSUME Good(k), NEW t \in Task, k.state[t] = "RDY", NEW m \in Mutex, k.live[m],
         k.owner[m] = t, NEW s, Released(s, t, m), s.blk[m] # <<>>,
         NEW u, u = Head(s.blk[m]), NEW w, w = pend_task_wakeup(s, u),
         k' = exit_sched([mutex_to_task(w, m, u) EXCEPT !.nested[m] = 1])
  PROVE  Good(k') /\ Deserved(k', k)
<1>0. m \in Obj \ Event /\ m \in Obj /\ Core(s)
  BY Kinds DEF Released
<1>1. u \in Blocked(s) /\ s.blkobj[u] = m /\ u \in Task
  BY SMTT(30), <1>0, FirstWaiter
<1>2. Wakes(w, s, u) /\ IsK(w)
  <2>1. Wakes(w, s, u)
    BY <1>0, <1>1, WakeUp
  <2> QED
    BY <2>1 DEF Wakes
<1>3. PICK q : q = [mutex_to_task(w, m, u) EXCEPT !.nested[m] = 1]
  BY ZenonT(60)
<1>4. Handed(q, w, m, u)
  BY ZenonT(30), <1>2, <1>3, FieldNames DEF Same, IsK, mutex_to_task, Handed
<1>5. Sys(q) /\ StillReady(q, k)
  BY <1>1, <1>2, <1>4, HandOver
<1>6. Deserved(w, k)
  <2>1. s.state = k.state /\ s.blkobj = k.blkobj
    BY FieldNames DEF Released, Same, PriFields
  <2>2. \A x \in Blocked(s) : x \in Blocked(k) /\ x \in All \ {t}
    BY <2>1 DEF Blocked
  <2>3. StillWait(s, k)
    BY <2>1, <2>2 DEF Released, StillWait
  <2>4. Deserved(s, k)
    BY <2>1, StateKept
  <2> QED
    BY <1>0, <2>3, <2>4, ServesNext
<1>7. Deserved(q, k) /\ IsK(q)
  <2>1. /\ q.state = w.state /\ q.blkst = w.blkst /\ q.blkobj = w.blkobj /\ q.actl = w.actl
        /\ q.flags = w.flags /\ IsK(q)
    BY <1>4, FieldNames DEF Handed, Same
  <2> QED
    BY SMTT(30), <1>6, <2>1, ServesSame
<1> QED
  BY <1>3, <1>5, <1>7, EndGood, ExitServes

\* krhino_mutex_unlock.
LEMMA MutexUnlock ==
  ASSUME Good(k), NEW t \in Task, NEW m \in Mutex, krhino_mutex_unlock(t, m)
  PROVE  Good(k') /\ Deserved(k', k)
<1>1. CASE mutex_unlock_nested(t, m)
  <2>1. PICK n : n = k.nested[m] - 1
    OBVIOUS
  <2>2. n \in Nat /\ n # 0
    BY <1>1, <2>1, AllTypes DEF Good, mutex_unlock_nested
  <2>3. k' = [k EXCEPT !.nested[m] = n]
    BY <1>1, <2>1 DEF mutex_unlock_nested
  <2> QED
    BY <2>2, <2>3, NestedSet
<1>2. CASE mutex_unlock_last(t, m)
  <2>0. k.live[m] /\ k.owner[m] = t /\ k.state[t] = "RDY"
    BY <1>2, CallerIs DEF mutex_unlock_last
  <2>1. PICK s : s = mutex_release([k EXCEPT !.nested[m] = 0], t, m)
    OBVIOUS
  <2>2. Released(s, t, m)
    BY <2>0, <2>1, Release
  <2>3. CASE s.blk[m] = <<>>
    <3>1. k' = [s EXCEPT !.owner[m] = NULL]
      BY SMTT(30), <1>2, <2>1, <2>3 DEF mutex_unlock_last
    <3> QED
      BY <2>0, <2>2, <2>3, <3>1, UnlockNobody
  <2>4. CASE s.blk[m] # <<>>
    <3>1. PICK u : u = Head(s.blk[m])
      OBVIOUS
    <3>2. PICK w : w = pend_task_wakeup(s, u)
      BY SMTT(30)
    <3>3. k' = exit_sched([mutex_to_task(w, m, u) EXCEPT !.nested[m] = 1])
      BY <1>2, <2>1, <2>4, <3>1, <3>2 DEF mutex_unlock_last
    <3> QED
      BY <2>0, <2>2, <2>4, <3>1, <3>2, <3>3, UnlockFirst
  <2> QED
    BY SMTT(30), <2>3, <2>4
<1> QED
  BY <1>1, <1>2 DEF krhino_mutex_unlock

-----------------------------------------------------------------------------
-----------------------------------------------------------------------------
(* The start of the kernel.                                                 *)

\* the loop that makes the tasks ready: c is the kernel before the loop and the list
StartStep(c, q, t) == ready_list_add_tail(q, t)

StartInv(c, q, n) ==
    /\ Same(q, c[1], {"rdy", "hi"})
    /\ Rdy(q.rdy, q.hi, q.prio, Upto(c[2], n))

I == INSTANCE LoopTheorems WITH Step <- StartStep, Inv <- StartInv

\* The fields krhino_init sets.
LEMMA InitFields ==
    /\ IsK(krhino_init)
    /\ krhino_init.lock = 0 /\ krhino_init.intr = 0 /\ krhino_init.hi = IdlePri + 1
    /\ krhino_init.rdy = [p \in Prio |-> <<>>] /\ krhino_init.prio \in [All -> Prio]
    /\ krhino_init.bprio \in [All -> Prio]
    /\ krhino_init.state = [t \in All |-> "RDY"] /\ krhino_init.susp \in [All -> Nat]
    /\ krhino_init.blkst \in [All -> BlkState] /\ krhino_init.blkobj = [t \in All |-> NULL]
    /\ krhino_init.tick \in [All -> Nat] /\ krhino_init.tickl = <<>>
    /\ krhino_init.slice \in [All -> Nat] /\ krhino_init.total \in [All -> Nat]
    /\ krhino_init.policy \in [All -> {"RR", "FIFO"}]
    /\ krhino_init.blk = [o \in Obj |-> <<>>] /\ krhino_init.live \in [Obj -> BOOLEAN]
    /\ krhino_init.owner = [m \in Mutex |-> NULL] /\ krhino_init.nested \in [Mutex -> Nat]
    /\ krhino_init.mlist = [t \in All |-> <<>>] /\ krhino_init.count \in [Sem -> Nat]
    /\ krhino_init.flags \in [Event -> SUBSET UNION SetFlags]
    /\ krhino_init.want \in [All -> Wants \cup {NULL}]
    /\ krhino_init.pc = [t \in All |-> "user"] /\ krhino_init.wait \in [All -> Obj \cup {NULL}]
    /\ krhino_init.arg \in [All -> [task : Task, pri : NewPris] \cup {NULL}]
    /\ krhino_init.msg = [t \in All |-> krhino_init.msg[t]]
    /\ krhino_init.actl = [t \in All |-> krhino_init.actl[t]]
<1>1. IsK(krhino_init)
  BY DEF krhino_init, IsK, Fields
<1>2. /\ krhino_init.lock = 0 /\ krhino_init.intr = 0 /\ krhino_init.hi = IdlePri + 1
      /\ krhino_init.rdy = [p \in Prio |-> <<>>] /\ krhino_init.tickl = <<>>
      /\ krhino_init.state = [t \in All |-> "RDY"] /\ krhino_init.blkobj = [t \in All |-> NULL]
      /\ krhino_init.blk = [o \in Obj |-> <<>>] /\ krhino_init.owner = [m \in Mutex |-> NULL]
      /\ krhino_init.mlist = [t \in All |-> <<>>] /\ krhino_init.pc = [t \in All |-> "user"]
  BY DEF krhino_init
<1>3. krhino_init.prio \in [All -> Prio] /\ krhino_init.bprio \in [All -> Prio]
  BY CoreAssumption, SchedAssumption DEF krhino_init, Prio, UserPri, All
<1>4. /\ krhino_init.susp \in [All -> Nat] /\ krhino_init.blkst \in [All -> BlkState]
      /\ krhino_init.tick \in [All -> Nat] /\ krhino_init.policy \in [All -> {"RR", "FIFO"}]
      /\ krhino_init.slice \in [All -> Nat] /\ krhino_init.total \in [All -> Nat]
      /\ krhino_init.wait \in [All -> Obj \cup {NULL}]
      /\ krhino_init.want \in [All -> Wants \cup {NULL}]
      /\ krhino_init.arg \in [All -> [task : Task, pri : NewPris] \cup {NULL}]
      /\ krhino_init.msg = [t \in All |-> krhino_init.msg[t]]
      /\ krhino_init.actl = [t \in All |-> krhino_init.actl[t]]
  BY SchedAssumption DEF krhino_init, BlkState
<1>5. /\ krhino_init.live \in [Obj -> BOOLEAN] /\ krhino_init.nested \in [Mutex -> Nat]
      /\ krhino_init.count \in [Sem -> Nat]
      /\ krhino_init.flags \in [Event -> SUBSET UNION SetFlags]
  BY DEF krhino_init
<1> QED
  BY <1>1, <1>2, <1>3, <1>4, <1>5

\* One task more is made ready.
LEMMA StartOne ==
  ASSUME NEW r, IsK(r), r.prio \in [All -> Prio], NEW l \in Seq(All), IsInjective(l),
         NEW n \in 0..(Len(l) - 1), NEW c, c[1] = r, c[2] = l, NEW q, StartInv(c, q, n),
         NEW t, t = l[n + 1], NEW s, s = StartStep(c, q, t)
  PROVE  StartInv(c, s, n + 1)
<1>1. Same(q, r, {"rdy", "hi"}) /\ Rdy(q.rdy, q.hi, q.prio, Upto(l, n)) /\ IsK(q) /\ q.prio = r.prio
  BY FieldNames DEF StartInv, Same
<1>2. PICK R : R = Upto(l, n)
  OBVIOUS
<1>3. /\ Upto(l, n + 1) = R \cup {t} /\ t \notin R /\ t \in ToSet(l) /\ R \in SUBSET ToSet(l)
  BY <1>2, UptoNext
<1>4. t \in All /\ R \in SUBSET All
  BY <1>3, ToSetDef
<1>5. PICK p, x : p = r.prio[t] /\ x = q.rdy[p]
  OBVIOUS
<1>6. p \in Prio /\ x \in Seq(All) /\ IsInjective(x) /\ t \notin ToSet(x)
  BY <1>1, <1>2, <1>3, <1>4, <1>5 DEF Rdy
<1>7. /\ Append(x, t) \in Seq(All) /\ IsInjective(Append(x, t))
      /\ ToSet(Append(x, t)) = ToSet(x) \cup {t}
  BY <1>4, <1>6, AppendedProperties
<1>8. PICK h : h = IF x = <<>> /\ p < q.hi THEN p ELSE q.hi
  OBVIOUS
<1>9. /\ Same(s, q, {"rdy", "hi"}) /\ s.rdy = [q.rdy EXCEPT ![p] = Append(x, t)] /\ s.hi = h
  <2>1. CASE x = <<>>
    <3>1. s = ready_list_init(q, t) /\ Append(x, t) = <<t>>
      BY <1>1, <1>5, <2>1 DEF StartStep, ready_list_add_tail
    <3>2. h = IF p < q.hi THEN p ELSE q.hi
      BY SMTT(30), <1>8, <2>1
    <3>3. s = [q EXCEPT !.rdy[p] = <<t>>, !.hi = IF p < @ THEN p ELSE @]
      BY <1>1, <1>5, <3>1 DEF ready_list_init
    <3>4. Same(s, q, {"rdy", "hi"})
      BY <1>1, <3>3, FieldNames DEF IsK, Same
    <3>5. s.rdy = [q.rdy EXCEPT ![p] = Append(x, t)]
      <4>1. s.rdy = [q.rdy EXCEPT ![p] = <<t>>]
        BY <1>1, <3>3, FieldNames DEF IsK
      <4> QED
        BY <3>1, <4>1
    <3>6. s.hi = h
      BY <1>1, <3>2, <3>3, FieldNames DEF IsK
    <3> QED
      BY <3>4, <3>5, <3>6
  <2>2. CASE x # <<>>
    <3>1. s = [q EXCEPT !.rdy[p] = Append(@, t)]
      BY <1>1, <1>5, <2>2 DEF StartStep, ready_list_add_tail
    <3> QED
      BY <1>1, <1>5, <1>6, <1>8, <2>2, <3>1, FieldNames DEF IsK, Same
  <2> QED
    BY <2>1, <2>2
<1>10. Rdy(s.rdy, s.hi, q.prio, R \cup {t})
  <2>1. /\ q.prio \in [All -> Prio] /\ Rdy(q.rdy, q.hi, q.prio, R) /\ q.prio[t] = p
        /\ ToSet(Append(x, t)) = ToSet(q.rdy[q.prio[t]]) \cup {t}
        /\ h = IF q.rdy[q.prio[t]] = <<>> /\ q.prio[t] < q.hi THEN q.prio[t] ELSE q.hi
    BY <1>1, <1>2, <1>5, <1>7, <1>8
  <2>2. Rdy([q.rdy EXCEPT ![q.prio[t]] = Append(x, t)], h, q.prio, R \cup {t})
    BY <1>3, <1>4, <1>7, <2>1, RdyAdd
  <2> QED
    BY SMTT(30), <1>9, <2>1, <2>2
<1>11. s.prio = q.prio /\ Same(s, r, {"rdy", "hi"})
  BY <1>1, <1>9, FieldNames DEF Same
<1> QED
  BY <1>3, <1>10, <1>11 DEF StartInv

\* krhino_init empties all lists.
LEMMA StartNone ==
  ASSUME NEW r, r = krhino_init
  PROVE  Rdy(r.rdy, r.hi, r.prio, {})
<1>1. r.hi = IdlePri + 1 /\ r.rdy = [p \in Prio |-> <<>>]
  BY InitFields
<1>2. <<>> \in Seq(All) /\ IsInjective(<<>>) /\ ToSet(<<>>) = {}
  <2>1. PICK l : l = <<>>
    OBVIOUS
  <2>2. l \in Seq(All) /\ Len(l) = 0
    BY <2>1
  <2>3. ToSet(l) = {}
    BY <2>1, <2>2, ToSetDef
  <2>4. IsInjective(l)
    BY <2>2 DEF IsInjective
  <2> QED
    BY <2>1, <2>2, <2>3, <2>4
<1>3. r.hi \in 0..(IdlePri + 1)
  BY <1>1, CoreAssumption
<1> QED
  BY <1>1, <1>2, <1>3 DEF Rdy

\* The loop of krhino_init sets the ready list and nothing else.
LEMMA StartSame ==
  ASSUME Init
  PROVE  /\ Same(k, krhino_init, {"rdy", "hi", "active"}) /\ k.active \in All
         /\ Rdy(k.rdy, k.hi, k.prio, All)
<1>1. PICK r : r = krhino_init
  OBVIOUS
<1>2. PICK l : l = <<Idle>> \o InitOrder
  OBVIOUS
<1>3. l \in Seq(All) /\ IsInjective(l) /\ ToSet(l) = All
  <2>1. InitOrder \in Seq(All) /\ IsInjective(InitOrder) /\ ToSet(InitOrder) = Task
    BY SchedAssumption DEF All
  <2>2. Idle \in All /\ Idle \notin ToSet(InitOrder)
    BY <2>1, CoreAssumption DEF All
  <2> QED
    BY <1>2, <2>1, <2>2, ConsProperties DEF All
<1>4. PICK c : c = <<r, l>>
  OBVIOUS
<1>5. c[1] = r /\ c[2] = l
  BY <1>4
<1>6. IsK(r) /\ r.prio \in [All -> Prio]
  BY <1>1, InitFields
<1>7. StartInv(c, r, 0)
  <2>1. Rdy(r.rdy, r.hi, r.prio, {}) /\ Upto(l, 0) = {}
    BY <1>1, <1>3, StartNone, UptoAll
  <2> QED
    BY <1>5, <1>6, <2>1 DEF StartInv, Same
<1>8. \A n \in 0..(Len(l) - 1) : \A x : StartInv(c, x, n) => StartInv(c, StartStep(c, x, l[n + 1]), n + 1)
  <2>1. SUFFICES ASSUME NEW n \in 0..(Len(l) - 1), NEW x, StartInv(c, x, n)
                 PROVE  StartInv(c, StartStep(c, x, l[n + 1]), n + 1)
    OBVIOUS
  <2>2. PICK t : t = l[n + 1]
    OBVIOUS
  <2>3. PICK s : s = StartStep(c, x, t)
    OBVIOUS
  <2>4. StartInv(c, s, n + 1)
    BY <1>3, <1>5, <1>6, <2>1, <2>2, <2>3, StartOne
  <2> QED
    BY <2>2, <2>3, <2>4
<1>9. PICK q : q = I!Walk(c, r, l)
  OBVIOUS
<1>10. StartInv(c, q, Len(l))
  BY <1>3, <1>7, <1>8, <1>9, I!WalkInduction
<1>11. Same(q, r, {"rdy", "hi"}) /\ Rdy(q.rdy, q.hi, q.prio, All) /\ IsK(q)
  BY <1>3, <1>5, <1>10, UptoAll DEF StartInv, Same
<1>12. k = [q EXCEPT !.active = preferred_cpu_ready_task_get(q)]
  <2>1. I!Walk(c, r, l) = FoldLeft(ready_list_add_tail, r, l)
    BY DEF StartStep, I!Walk, FoldLeft, MapThenFoldSet, Max, I!FoldLeft, I!MapThenFoldSet, I!Max
  <2> QED
    BY <1>1, <1>2, <1>9, <2>1 DEF Init
<1>13. Same(k, q, {"active"}) /\ k.active = preferred_cpu_ready_task_get(q)
  BY <1>11, <1>12, FieldNames DEF Same, IsK
<1>14. Same(k, r, {"rdy", "hi", "active"}) /\ k.rdy = q.rdy /\ k.hi = q.hi /\ k.prio = q.prio
       /\ k.prio = r.prio
  BY <1>11, <1>13, FieldNames DEF Same
<1>15. k.active \in All
  <2>1. q.prio \in [All -> Prio] /\ All # {} /\ All \in SUBSET All
    BY <1>6, <1>13, <1>14 DEF All
  <2>2. Head(q.rdy[q.hi]) \in All
    BY <1>11, <2>1, RdyFirst
  <2> QED
    BY <1>13, <2>2 DEF preferred_cpu_ready_task_get
<1> QED
  BY <1>1, <1>11, <1>14, <1>15

\* The kernel starts with the most urgent of its tasks, which is ready like the others.
LEMMA Start ==
  ASSUME Init
  PROVE  Good(k)
<1>1. PICK r : r = krhino_init
  OBVIOUS
<1>2. IsK(r) /\ r.prio \in [All -> Prio]
  BY <1>1, InitFields
<1>3. Same(k, r, {"rdy", "hi", "active"}) /\ k.active \in All /\ Rdy(k.rdy, k.hi, k.prio, All)
  BY <1>1, StartSame
<1>4. k.prio = r.prio
  BY <1>3, FieldNames DEF Same
<1>5. /\ k.state = [t \in All |-> "RDY"] /\ k.blkobj = [t \in All |-> NULL] /\ k.tickl = <<>>
       /\ k.blk = [o \in Obj |-> <<>>] /\ k.owner = [m \in Mutex |-> NULL]
       /\ k.mlist = [t \in All |-> <<>>] /\ k.pc = [t \in All |-> "user"]
  BY <1>1, <1>3, InitFields, FieldNames DEF Same
<1>6. Typed(k)
  <2>1. /\ k.bprio = r.bprio /\ k.blkst = r.blkst /\ k.tick = r.tick
    BY <1>3, FieldNames DEF Same
  <2>2. /\ r.bprio \in [All -> Prio] /\ r.blkst \in [All -> BlkState] /\ r.tick \in [All -> Nat]
    BY <1>1, InitFields
  <2>3. k.mlist \in [All -> Seq(Mutex)]
    BY <1>5
  <2> QED
    BY <1>2, <1>3, <1>4, <1>5, <2>1, <2>2, <2>3 DEF Typed, Same, TaskState
<1>7. Ready(k) = All /\ Blocked(k) = {}
  BY <1>5 DEF Ready, Blocked
<1>8. IsInjective(<<>>) /\ ToSet(<<>>) = {} /\ \A key : Ordered(<<>>, key)
  <2>1. PICK x : x = <<>>
    OBVIOUS
  <2>2. x \in Seq(All) /\ Len(x) = 0
    BY <2>1
  <2>3. ToSet(x) = {}
    BY <2>1, <2>2, ToSetDef
  <2>4. IsInjective(x) /\ \A key : Ordered(x, key)
    BY <2>2 DEF IsInjective, Ordered
  <2> QED
    BY <2>1, <2>3, <2>4
<1>9. Core(k)
  <2>1. Blk(k.blk, k.blkobj, k.prio, {})
    BY <1>5, <1>8 DEF Blk
  <2>2. Tick(k.tickl, k.tick, {}) /\ ToSet(k.tickl) = {}
    BY <1>5, <1>8 DEF Tick
  <2>3. Lists(k, All, {}, {})
    BY <1>3, <1>6, <2>1, <2>2 DEF Lists, All
  <2> QED
    BY <1>7, <2>2, <2>3 DEF Core
<1>10. Types(k)
  <2>1. /\ k.lock = r.lock /\ k.intr = r.intr /\ k.susp = r.susp /\ k.slice = r.slice
        /\ k.total = r.total /\ k.policy = r.policy /\ k.live = r.live /\ k.nested = r.nested
        /\ k.count = r.count /\ k.flags = r.flags /\ k.want = r.want /\ k.pc = r.pc
        /\ k.wait = r.wait /\ k.arg = r.arg /\ k.actl = r.actl /\ k.msg = r.msg
    BY <1>3, FieldNames DEF Same
  <2>2. /\ r.lock \in 0..MaxLock /\ r.intr \in 0..MaxIntr /\ r.pc \in [All -> PC]
    BY <1>1, InitFields, SchedAssumption DEF PC
  <2> QED
    BY <1>1, <2>1, <2>2, InitFields DEF Types
<1>11. Waits(k) /\ Suspended(k) /\ Args(k)
  BY <1>5, <1>8 DEF Waits, Timed, TimeLeft, Suspended, Args
<1>12. Denied(Blocked(k), k.blkobj, k.live, k.owner, k.count, k.want, k.flags)
  BY <1>7 DEF Denied
<1>13. Owns(k.mlist, k.live, k.owner, k.nested, k.state)
  BY <1>5, <1>8 DEF Owns
<1>14. k.state[k.active] = "RDY"
  BY <1>3, <1>5
<1> QED
  BY <1>9, <1>10, <1>11, <1>12, <1>13, <1>14 DEF Good, Sys, Runs
-----------------------------------------------------------------------------
\* Every step of the scheduler, of the interrupt handlers and of the services keeps
\* the invariant.
LEMMA Step ==
  ASSUME Good(k), Next
  PROVE  Good(k')
<1>1. CASE SchedNext
  <2>1. CASE \E t \in All : core_sched(t) \/ pend_state_end_proc(t)
    BY <2>1, CoreSched, PendStateEndProc
  <2>2. CASE krhino_intrpt_enter \/ krhino_intrpt_exit \/ krhino_tick_proc
    BY <2>2, IntrptEnter, IntrptExit, TickProc
  <2> QED
    BY <1>1, <2>1, <2>2 DEF SchedNext
<1>2. CASE LockNext
  BY <1>2, SchedDisable, SchedEnable DEF LockNext
<1>3. CASE SleepNext \/ SuspendNext \/ AbortNext
  BY <1>3, TaskSleep, TaskSuspend, TaskResume, TaskWaitAbort DEF SleepNext, SuspendNext, AbortNext
<1>4. CASE PriNext
  BY <1>4, PriChangeSet, PriChangeCheck DEF PriNext
<1>5. CASE LifeNext
  BY <1>5, TaskDel, TaskCreate DEF LifeNext
<1>6. CASE RoundRobinNext
  BY <1>6, TaskYield, TimeSliceSet, PolicySet DEF RoundRobinNext
<1>7. CASE MutexNext \/ MutexDelNext
  BY <1>7, MutexLock, MutexUnlock, MutexCreate, MutexDel DEF MutexNext, MutexDelNext
<1>8. CASE SemNext \/ SemDelNext
  BY <1>8, SemGive, SemTake, SemDel, SemCreate, SemCountSet DEF SemNext, SemDelNext
<1>9. CASE QueueNext
  <2>1. CASE \E q \in Queue, m \in Msg, w \in BOOLEAN : msg_send(q, m, w)
    BY <2>1, MsgSend
  <2>2. CASE \E q \in BufQueue, m \in Msg : buf_queue_send(q, m)
    BY <2>2, BufQueueSend
  <2>3. CASE \E q \in AnyQueue :
               \/ queue_recv_isr(q)
               \/ \E t \in Task : queue_flush(t, q) \/ \E n \in RecvTicks : queue_recv(t, q, n)
    BY <2>3, QueueRecvIsr, QueueFlush, QueueRecv
  <2> QED
    BY <1>9, <2>1, <2>2, <2>3 DEF QueueNext
<1>10. CASE QueueDelNext
  BY <1>10, QueueCreate, QueueDel DEF QueueDelNext
<1>11. CASE EventNext
  BY <1>11, EventSet, EventGet DEF EventNext
<1>12. CASE EventDelNext
  BY <1>12, EventDel, EventCreate DEF EventDelNext
<1> QED
  BY <1>1, <1>2, <1>3, <1>4, <1>5, <1>6, <1>7, <1>8, <1>9, <1>10, <1>11, <1>12 DEF Next

\* The inductive invariant: in every state of the kernel between two critical
\* sections the lists, the states of the tasks and the objects agree.
THEOREM KernelInvariant == Spec => []KInv
<1>1. Init => KInv
  BY Start DEF KInv
<1>2. KInv /\ [Next]_vars => KInv'
  <2>1. SUFFICES ASSUME KInv, [Next]_vars
                 PROVE  KInv'
    OBVIOUS
  <2>2. Good(k)
    BY <2>1 DEF KInv
  <2>3. CASE Next
    <3>1. Good(k')
      BY <2>2, <2>3, Step
    <3> QED
      BY <3>1 DEF KInv, Good, Sys
  <2>4. CASE UNCHANGED vars
    <3>1. k' = k
      BY <2>4 DEF vars
    <3>2. Good(k')
      BY <2>2, <3>1
    <3> QED
      BY <3>2 DEF KInv
  <2> QED
    BY <2>1, <2>3, <2>4
<1> QED
  BY <1>1, <1>2, PTL DEF Spec

\* What the invariant says in the terms of the properties.
LEMMA Facts ==
  ASSUME KInv
  PROVE  /\ Sys(k) /\ Core(k) /\ Typed(k) /\ Types(k) /\ Waits(k)
         /\ Lists(k, Ready(k), Blocked(k), ToSet(k.tickl))
         /\ Rdy(k.rdy, k.hi, k.prio, Ready(k)) /\ Blk(k.blk, k.blkobj, k.prio, Blocked(k))
         /\ Tick(k.tickl, k.tick, ToSet(k.tickl))
         /\ Denied(Blocked(k), k.blkobj, k.live, k.owner, k.count, k.want, k.flags)
         /\ Owns(k.mlist, k.live, k.owner, k.nested, k.state)
  BY DEF KInv, Good, Sys, Core, Lists

\* The ready list the scheduler takes the next task from is never empty.
LEMMA HighestPri ==
  ASSUME KInv
  PROVE  k.hi \in Prio
<1>1. /\ Rdy(k.rdy, k.hi, k.prio, Ready(k)) /\ Ready(k) \in SUBSET All /\ Idle \in Ready(k)
      /\ k.prio \in [All -> Prio]
  BY Facts DEF Lists, Typed
<1> QED
  BY <1>1, RdyFirst

\* The kernel globals and task control blocks keep their types (TypeOK): no count
\* and no number of ticks that the code decrements goes below zero.
THEOREM KernelTypes == Spec => []TypeOK
<1>1. KInv => TypeOK
  <2>1. SUFFICES ASSUME KInv
                 PROVE  TypeOK
    OBVIOUS
  <2>2. Typed(k) /\ Types(k) /\ k.hi \in Prio
    BY <2>1, Facts, HighestPri
  <2>3. /\ \A p \in Prio : k.rdy[p] \in Seq(All)
        /\ k.tickl \in Seq(All) /\ \A o \in Obj : k.blk[o] \in Seq(Task)
    <3>1. k.tickl \in Seq(Task) /\ \A o \in Obj : k.blk[o] \in Seq(Task)
      BY <2>1, Facts DEF Tick, Blk
    <3>2. \A p \in Prio : k.rdy[p] \in Seq(All)
      BY <2>1, Facts DEF Rdy
    <3> QED
      BY <3>1, <3>2 DEF All
  <2> QED
    BY <2>2, <2>3 DEF Typed, Types, TypeOK
<1> QED
  BY <1>1, KernelInvariant, PTL

\* Each task is in exactly the lists its task_state says, and never twice
\* (ListsMatchState), through every wake-up, timeout, abort, suspension, deletion
\* and change of priority.
THEOREM KernelLists == Spec => []ListsMatchState
<1>1. KInv => ListsMatchState
  <2>1. SUFFICES ASSUME KInv
                 PROVE  ListsMatchState
    OBVIOUS
  <2>2. ASSUME NEW p \in Prio
        PROVE  /\ ToSet(k.rdy[p]) = {t \in All : k.state[t] = "RDY" /\ k.prio[t] = p}
               /\ Cardinality(ToSet(k.rdy[p])) = Len(k.rdy[p])
    <3>1. /\ k.rdy[p] \in Seq(All) /\ IsInjective(k.rdy[p])
          /\ ToSet(k.rdy[p]) = {t \in Ready(k) : k.prio[t] = p}
      BY <2>1, Facts DEF Rdy
    <3>2. Cardinality(ToSet(k.rdy[p])) = Len(k.rdy[p])
      BY <3>1, InjectiveCardinality
    <3> QED
      BY <3>1, <3>2 DEF Ready
  <2>3. ASSUME NEW o \in Obj
        PROVE  /\ ToSet(k.blk[o]) = {t \in All : /\ k.state[t] \in {"PEND", "PEND_SUSPENDED"}
                                                 /\ k.blkobj[t] = o}
               /\ Cardinality(ToSet(k.blk[o])) = Len(k.blk[o])
    <3>1. /\ k.blk[o] \in Seq(Task) /\ IsInjective(k.blk[o])
          /\ ToSet(k.blk[o]) = {t \in Blocked(k) : k.blkobj[t] = o}
      BY <2>1, Facts DEF Blk
    <3>2. Cardinality(ToSet(k.blk[o])) = Len(k.blk[o])
      BY <3>1, InjectiveCardinality
    <3> QED
      BY <3>1, <3>2 DEF Blocked
  <2>4. /\ k.tickl \in Seq(Task) /\ IsInjective(k.tickl)
        /\ \A t : t \in ToSet(k.tickl) <=> Contains(k.tickl, t)
    <3>1. k.tickl \in Seq(Task) /\ IsInjective(k.tickl)
      BY <2>1, Facts DEF Tick
    <3> QED
      BY <3>1, ToSetDef
  <2>5. Cardinality(ToSet(k.tickl)) = Len(k.tickl)
    BY <2>4, InjectiveCardinality
  <2>6. ASSUME NEW t \in All
        PROVE  /\ k.state[t] \in {"PEND", "PEND_SUSPENDED"}
                     => k.blkobj[t] \in Obj /\ k.live[k.blkobj[t]]
               /\ k.state[t] \in {"SLEEP", "SLEEP_SUSPENDED"} => Contains(k.tickl, t)
               /\ Contains(k.tickl, t) => k.state[t] \notin {"RDY", "SUSPENDED", "DELETED"}
    <3>1. t \in Blocked(k) => k.blkobj[t] \in Obj /\ k.live[k.blkobj[t]]
      BY <2>1, Facts DEF Lists, Denied
    <3>2. /\ k.state[t] \in {"SLEEP", "SLEEP_SUSPENDED"} => t \in ToSet(k.tickl)
          /\ t \in ToSet(k.tickl) => k.state[t] \in {"SLEEP", "PEND", "SLEEP_SUSPENDED",
                                                     "PEND_SUSPENDED"}
      BY <2>1, Facts DEF Waits, Timed
    <3> QED
      BY <2>4, <3>1, <3>2 DEF Blocked
  <2> QED
    BY <2>2, <2>3, <2>5, <2>6 DEF ListsMatchState
<1> QED
  BY <1>1, KernelInvariant, PTL

\* A task that executes is ready (RunningIsReady).
THEOREM KernelRunsReady == Spec => []RunningIsReady
<1>1. KInv => RunningIsReady
  BY DEF KInv, Good, Runs, RunningIsReady
<1> QED
  BY <1>1, KernelInvariant, PTL

\* The tick list stays sorted and everybody on it has time left (TickListSorted).
THEOREM KernelTickSorted == Spec => []TickListSorted
<1>1. KInv => TickListSorted
  <2>1. SUFFICES ASSUME KInv
                 PROVE  TickListSorted
    OBVIOUS
  <2>2. k.tickl \in Seq(Task) /\ Ordered(k.tickl, k.tick)
    BY <2>1, Facts DEF Tick
  <2>3. ASSUME NEW i \in 1..Len(k.tickl)
        PROVE  k.tick[k.tickl[i]] > 0
    <3>1. k.tickl[i] \in ToSet(k.tickl) /\ k.tickl[i] \in All
      BY <2>2, <2>3, ToSetDef DEF All
    <3>2. k.tick[k.tickl[i]] # 0 /\ k.tick \in [All -> Nat]
      BY <2>1, <3>1, Facts DEF Waits, TimeLeft, Typed
    <3> QED
      BY <3>1, <3>2
  <2> QED
    BY <2>2, <2>3 DEF TickListSorted, IsSorted, Ordered
<1> QED
  BY <1>1, KernelInvariant, PTL

\* The block lists stay in priority order (BlkListsSorted).
THEOREM KernelBlkSorted == Spec => []BlkListsSorted
<1>1. KInv => BlkListsSorted
  <2>1. SUFFICES ASSUME KInv
                 PROVE  BlkListsSorted
    OBVIOUS
  <2>2. \A o \in Obj : Ordered(k.blk[o], k.prio)
    BY <2>1, Facts DEF Blk
  <2> QED
    BY <2>2 DEF BlkListsSorted, IsSorted, Ordered
<1> QED
  BY <1>1, KernelInvariant, PTL

\* The owner of a mutex and the owner's mutex_list agree, no deleted task owns one,
\* and nobody waits for a mutex without an owner (OwnershipConsistent).
THEOREM KernelOwnership == Spec => []OwnershipConsistent
<1>1. KInv => OwnershipConsistent
  <2>1. SUFFICES ASSUME KInv, NEW m \in Mutex, k.live[m]
                 PROVE  /\ \A t \in Task : Contains(k.mlist[t], m) <=> k.owner[m] = t
                        /\ k.owner[m] # NULL => k.nested[m] > 0 /\ k.state[k.owner[m]] # "DELETED"
                        /\ k.blk[m] # <<>> => k.owner[m] # NULL
    BY DEF OwnershipConsistent
  <2>2. /\ k.mlist \in [All -> Seq(Mutex)] /\ k.nested \in [Mutex -> Nat]
        /\ k.owner \in [Mutex -> Task \cup {NULL}]
    BY <2>1, Facts DEF Typed, Types
  <2>3. Owns(k.mlist, k.live, k.owner, k.nested, k.state)
    BY <2>1, Facts
  <2>4. ASSUME NEW t \in Task
        PROVE  Contains(k.mlist[t], m) <=> k.owner[m] = t
    <3>1. t \in All /\ k.mlist[t] \in Seq(Mutex) /\ t # NULL
      BY <2>2, CoreAssumption DEF All
    <3>2. Contains(k.mlist[t], m) <=> m \in ToSet(k.mlist[t])
      BY <3>1, ToSetDef
    <3> QED
      BY <2>1, <2>3, <3>1, <3>2 DEF Owns
  <2>5. k.owner[m] # NULL => k.nested[m] > 0 /\ k.state[k.owner[m]] # "DELETED"
    BY <2>1, <2>2, <2>3 DEF Owns
  <2>6. k.blk[m] # <<>> => k.owner[m] # NULL
    <3>1. SUFFICES ASSUME k.blk[m] # <<>>
                   PROVE  k.owner[m] # NULL
      OBVIOUS
    <3>2. m \in Obj /\ Core(k)
      BY <2>1, Facts, Kinds
    <3>3. PICK t : t = Head(k.blk[m])
      OBVIOUS
    <3>4. t \in Blocked(k) /\ k.blkobj[t] = m
      BY <3>1, <3>2, <3>3, FirstWaiter
    <3> QED
      BY <3>2, <3>4, CoreAssumption DEF Core, All
  <2> QED
    BY <2>4, <2>5, <2>6
<1> QED
  BY <1>1, KernelInvariant, PTL

\* A semaphore somebody waits for has count zero (NoUnitWithheld).
THEOREM KernelNoUnitWithheld == Spec => []NoUnitWithheld
<1>1. KInv => NoUnitWithheld
  <2>1. SUFFICES ASSUME KInv, NEW s \in Sem, k.blk[s] # <<>>
                 PROVE  k.count[s] = 0
    BY DEF NoUnitWithheld
  <2>2. s \in Obj /\ Core(k)
    BY <2>1, Facts, Kinds
  <2>3. PICK t : t = Head(k.blk[s])
    OBVIOUS
  <2>4. t \in Blocked(k) /\ k.blkobj[t] = s
    BY <2>1, <2>2, <2>3, FirstWaiter
  <2> QED
    BY <2>1, <2>4, Facts DEF Denied
<1> QED
  BY <1>1, KernelInvariant, PTL

\* Nobody waits for flags that are set (NoEventMissed).
THEOREM KernelNoEventMissed == Spec => []NoEventMissed
<1>1. KInv => NoEventMissed
  <2>1. SUFFICES ASSUME KInv, NEW e \in Event, NEW i \in DOMAIN k.blk[e]
                 PROVE  ~ Met(k.want[k.blk[e][i]], k.flags[e])
    BY DEF NoEventMissed
  <2>2. e \in Obj
    BY SMTT(30), Kinds
  <2>3. /\ k.blk[e] \in Seq(Task) /\ ToSet(k.blk[e]) = {t \in Blocked(k) : k.blkobj[t] = e}
    BY <2>1, <2>2, Facts DEF Blk
  <2>4. k.blk[e][i] \in ToSet(k.blk[e])
    <3>1. i \in 1..Len(k.blk[e])
      BY <2>1, <2>3
    <3> QED
      BY <2>3, <3>1, ToSetDef
  <2>5. PICK t : t = k.blk[e][i]
    OBVIOUS
  <2>6. t \in Blocked(k) /\ k.blkobj[t] = e
    BY <2>3, <2>4, <2>5
  <2> QED
    BY <2>1, <2>5, <2>6, Facts DEF Denied
<1> QED
  BY <1>1, KernelInvariant, PTL

-----------------------------------------------------------------------------
\* What a step may never do.  The services above that wake a waiter serve the one
\* they must; those below serve nobody.

\* A call that blocks its caller.
LEMMA BlockServes ==
  ASSUME NEW r, Core(r), NEW s, r.state = s.state, NEW t \in Task, s.state[t] = "RDY",
         t \notin ToSet(r.tickl), NEW o \in Obj, o \in Mutex => r.owner[o] \in Task,
         NEW n \in (Nat \ {0}) \cup {WAIT_FOREVER}, NEW q,
         q = exit_sched_pend(pend_to_blk_obj(r, o, t, n), o)
  PROVE  Deserved(q, s)
<1>1. PICK w : w = pend_to_blk_obj(r, o, t, n)
  OBVIOUS
<1>2. t \in Ready(r) /\ t \notin Blocked(s) /\ r.state \in [All -> TaskState]
  BY DEF Ready, Blocked, All, Core, Lists, Typed
<1>3. Waiting(w, r, t, o)
  BY <1>1, <1>2, PendToBlkObj
<1>4. IsK(w) /\ w.state = [r.state EXCEPT ![t] = "PEND"]
  BY <1>3 DEF Waiting, Same
<1>5. Deserved(w, s)
  BY <1>2, <1>4, StateKept DEF Blocked
<1> QED
  BY <1>1, <1>4, <1>5, ExitServes

\* A task that calls a service is ready and on no list of those that wait.
LEMMA CallerReady ==
  ASSUME Good(k), NEW t \in Task, Calls(t)
  PROVE  k.state[t] = "RDY" /\ t \notin ToSet(k.tickl) /\ Core(k) /\ IsK(k)
<1>1. t \in All /\ k.intr = 0 /\ k.active = t /\ k.pc[t] \in {"user", "pend", "prichg"}
  BY DEF Calls, All
<1>2. k.state[t] = "RDY" /\ t \notin ToSet(k.tickl)
  BY <1>1, Caller
<1> QED
  BY <1>2, AllTypes DEF Good, Sys

\* krhino_sem_take.
LEMMA SemTakeServes ==
  ASSUME Good(k), NEW t \in Task, NEW s \in Sem, NEW n \in TakeTicks, krhino_sem_take(t, s, n)
  PROVE  Deserved(k', k)
<1>0. /\ k.state[t] = "RDY" /\ t \notin ToSet(k.tickl) /\ Core(k) /\ IsK(k) /\ s \in Obj
      /\ s \notin Mutex /\ n \in (Nat \ {0}) \cup {WAIT_FOREVER}
  BY CallerReady, Kinds, SemAssumption DEF krhino_sem_take
<1>1. CASE k' = [k EXCEPT !.count[s] = @ - 1]
  BY <1>0, <1>1, FieldNames, StateKept DEF IsK
<1>2. CASE k' = exit_sched_pend(pend_to_blk_obj(k, s, t, n), s)
  BY <1>0, <1>2, BlockServes
<1> QED
  BY <1>1, <1>2 DEF krhino_sem_take

\* The receive of a queue.
LEMMA QueueRecvServes ==
  ASSUME Good(k), NEW t \in Task, NEW o \in AnyQueue, NEW n \in RecvTicks, queue_recv(t, o, n)
  PROVE  Deserved(k', k)
<1>0. /\ k.state[t] = "RDY" /\ t \notin ToSet(k.tickl) /\ Core(k) /\ IsK(k) /\ o \in Obj
      /\ o \notin Mutex /\ n \in (Nat \ {0}) \cup {WAIT_FOREVER}
  BY CallerReady, Kinds, QueueAssumption DEF queue_recv
<1>1. CASE k' = [recv_pop(o).k EXCEPT !.msg[t] = recv_pop(o).msg, !.pc[t] = "pend", !.wait[t] = o]
  BY <1>0, <1>1, FieldNames, StateKept DEF IsK, recv_pop
<1>2. CASE k' = exit_sched_pend(pend_to_blk_obj(k, o, t, n), o)
  BY <1>0, <1>2, BlockServes
<1> QED
  BY <1>1, <1>2 DEF queue_recv

\* krhino_event_get.
LEMMA EventGetServes ==
  ASSUME Good(k), NEW t \in Task, NEW e \in Event, NEW w \in Wants, NEW n \in GetTicks,
         krhino_event_get(t, e, w, n)
  PROVE  Deserved(k', k)
<1>0. /\ k.state[t] = "RDY" /\ t \notin ToSet(k.tickl) /\ Core(k) /\ IsK(k) /\ e \in Obj
      /\ e \notin Mutex /\ n \in (Nat \ {0}) \cup {WAIT_FOREVER}
  BY CallerReady, Kinds, EventAssumption DEF krhino_event_get
<1>1. CASE k' = [k EXCEPT !.flags[e] = Cleared(w, @)]
  BY <1>0, <1>1, FieldNames, StateKept DEF IsK
<1>2. CASE k' = exit_sched_pend(pend_to_blk_obj([k EXCEPT !.want[t] = w], e, t, n), e)
  <2>1. PICK r : r = [k EXCEPT !.want[t] = w]
    OBVIOUS
  <2>2. Same(r, k, {"want"})
    BY <1>0, <2>1, FieldNames DEF Same, IsK
  <2>3. r.state = k.state /\ r.active = k.active /\ r.tickl = k.tickl
    BY <2>2, FieldNames DEF Same
  <2>4. Same(r, k, StillFields) /\ r.active \in All
    BY <1>0, <2>2, <2>3 DEF Same, StillFields, Core, Lists, Typed
  <2>5. Core(r)
    BY <1>0, <2>4, CoreStill
  <2> QED
    BY <1>0, <1>2, <2>1, <2>3, <2>5, BlockServes
<1> QED
  BY <1>1, <1>2 DEF krhino_event_get

\* krhino_mutex_lock.
LEMMA MutexLockServes ==
  ASSUME Good(k), NEW t \in Task, NEW m \in Mutex, NEW n \in LockTicks, mutex_lock_pend(t, m, n)
  PROVE  Deserved(k', k)
<1>0. /\ k.state[t] = "RDY" /\ t \notin ToSet(k.tickl) /\ Core(k) /\ IsK(k) /\ m \in Obj
      /\ n \in (Nat \ {0}) \cup {WAIT_FOREVER} /\ k.owner[m] \in Task \cup {NULL}
  BY CallerReady, Kinds, MutexAssumption DEF mutex_lock_pend, Core, Lists, Typed
<1>1. PICK own : own = k.owner[m]
  OBVIOUS
<1>2. own \in Task /\ k.prio[t] \in Prio
  BY <1>0, <1>1 DEF mutex_lock_pend, Core, Lists, Typed, All
<1>3. PICK inh : inh = IF k.prio[t] < k.prio[own] THEN task_pri_change(k, own, k.prio[t]) ELSE k
  OBVIOUS
<1>4. Core(inh) /\ Same(inh, k, PriFields)
  <2>1. Same(k, k, PriFields)
    BY <1>0 DEF Same
  <2>2. CASE k.prio[t] < k.prio[own]
    BY <1>0, <1>2, <1>3, <2>2, TaskPriChange
  <2> QED
    BY <1>0, <1>3, <2>1, <2>2
<1>5. inh.state = k.state /\ inh.tickl = k.tickl /\ inh.owner = k.owner
  BY <1>4, FieldNames DEF Same, PriFields
<1>6. k' = exit_sched_pend(pend_to_blk_obj(inh, m, t, n), m)
  BY <1>1, <1>3 DEF mutex_lock_pend
<1> QED
  BY <1>0, <1>1, <1>2, <1>4, <1>5, <1>6, BlockServes

\* krhino_task_sleep.
LEMMA TaskSleepServes ==
  ASSUME Good(k), NEW t \in Task, NEW n \in SleepTicks, krhino_task_sleep(t, n)
  PROVE  Deserved(k', k)
<1>0. /\ k.state[t] = "RDY" /\ IsK(k) /\ t \in All /\ t \notin Blocked(k)
      /\ k.state \in [All -> TaskState]
  BY CallerReady DEF krhino_task_sleep, All, Blocked, Core, Lists, Typed
<1>1. k'.state = [k.state EXCEPT ![t] = "SLEEP"]
  BY <1>0, FieldNames DEF IsK, krhino_task_sleep, tick_list_insert, ready_list_rm, exit_sched_pend
<1> QED
  BY <1>0, <1>1, StateKept DEF Blocked

\* krhino_task_suspend.
LEMMA TaskSuspendServes ==
  ASSUME Good(k), NEW u \in Task, krhino_task_suspend(u)
  PROVE  Deserved(k', k)
<1>0. IsK(k) /\ u \in All /\ k.state \in [All -> TaskState]
  BY AllTypes DEF Good, All
<1>1. PICK st : st = IF k.state[u] = "RDY" THEN "SUSPENDED"
                     ELSE IF k.state[u] = "SLEEP" THEN "SLEEP_SUSPENDED"
                     ELSE IF k.state[u] = "PEND" THEN "PEND_SUSPENDED" ELSE k.state[u]
  OBVIOUS
<1>2. k'.state = [k.state EXCEPT ![u] = st]
  BY <1>0, <1>1, FieldNames DEF IsK, krhino_task_suspend, ready_list_rm, exit_sched
<1>3. \A x \in Blocked(k) : k'.state[x] \in {"PEND", "PEND_SUSPENDED"}
  BY <1>0, <1>1, <1>2 DEF Blocked
<1> QED
  BY <1>3, NoneServed

\* krhino_task_resume.
LEMMA TaskResumeServes ==
  ASSUME Good(k), NEW u \in Task, krhino_task_resume(u)
  PROVE  Deserved(k', k)
<1>0. IsK(k) /\ u \in All /\ k.state \in [All -> TaskState]
  BY AllTypes DEF Good, All
<1>1. \/ k'.state = k.state
      \/ k.state[u] = "SUSPENDED" /\ k'.state = [k.state EXCEPT ![u] = "RDY"]
      \/ k.state[u] = "SLEEP_SUSPENDED" /\ k'.state = [k.state EXCEPT ![u] = "SLEEP"]
      \/ k.state[u] = "PEND_SUSPENDED" /\ k'.state = [k.state EXCEPT ![u] = "PEND"]
  BY ZenonT(60), <1>0, FieldNames DEF IsK, krhino_task_resume, ready_list_add, ready_list_add_tail,
     ready_list_add_head, ready_list_init, exit_sched
<1>2. \A x \in Blocked(k) : k'.state[x] \in {"PEND", "PEND_SUSPENDED"}
  BY <1>0, <1>1 DEF Blocked
<1> QED
  BY <1>2, NoneServed

\* krhino_task_create.
LEMMA TaskCreateServes ==
  ASSUME Good(k), NEW t \in Task, NEW u \in Task, NEW p \in NewPris, NEW autorun \in BOOLEAN,
         krhino_task_create(t, u, p, autorun)
  PROVE  Deserved(k', k)
<1>0. IsK(k) /\ u \in All /\ k.state \in [All -> TaskState] /\ k.state[u] = "DELETED"
  BY AllTypes DEF Good, All, krhino_task_create
<1>1. PICK st : st = IF autorun THEN "RDY" ELSE "SUSPENDED"
  OBVIOUS
<1>2. k'.state = [k.state EXCEPT ![u] = st]
  BY ZenonT(60), <1>0, <1>1, FieldNames DEF IsK, krhino_task_create, ready_list_add_tail,
     ready_list_init, exit_sched
<1> QED
  BY <1>0, <1>2, StateKept DEF Blocked


\* Whoever a step serves deserved it.
LEMMA StepServes ==
  ASSUME Good(k), Next
  PROVE  Deserved(k', k)
<1>0. IsK(k)
  BY AllTypes DEF Good
<1>1. CASE SchedNext
  <2>1. CASE \E t \in All : core_sched(t) \/ pend_state_end_proc(t)
    BY ZenonT(60), <1>0, <2>1, FieldNames, StateKept DEF IsK, core_sched, pend_state_end_proc
  <2>2. CASE krhino_intrpt_enter \/ krhino_intrpt_exit
    BY <1>0, <2>2, FieldNames, StateKept DEF IsK, krhino_intrpt_enter, krhino_intrpt_exit
  <2>3. CASE krhino_tick_proc
    BY <2>3, TickProc
  <2> QED
    BY <1>1, <2>1, <2>2, <2>3 DEF SchedNext
<1>2. CASE LockNext
  <2>1. CASE \E t \in Task : krhino_sched_disable(t)
    BY <1>0, <2>1, FieldNames, StateKept DEF IsK, krhino_sched_disable
  <2>2. CASE \E t \in Task : krhino_sched_enable(t)
    BY <1>0, <2>2, FieldNames, StateKept DEF IsK, krhino_sched_enable, exit_sched
  <2> QED
    BY <1>2, <2>1, <2>2 DEF LockNext
<1>3. CASE SleepNext \/ SuspendNext \/ AbortNext
  <2>1. CASE SleepNext
    BY <2>1, TaskSleepServes DEF SleepNext
  <2>2. CASE SuspendNext
    BY <2>2, TaskSuspendServes, TaskResumeServes DEF SuspendNext
  <2>3. CASE AbortNext
    BY <2>3, TaskWaitAbort DEF AbortNext
  <2> QED
    BY <1>3, <2>1, <2>2, <2>3
<1>4. CASE PriNext
  <2>1. CASE \E t \in Task : pri_change_set(t)
    BY <2>1, PriChangeSet
  <2>2. CASE \E t \in Task, u \in Task, p \in NewPris : pri_change_check(t, u, p)
    BY <1>0, <2>2, FieldNames, StateKept DEF IsK, pri_change_check
  <2> QED
    BY <1>4, <2>1, <2>2 DEF PriNext
<1>5. CASE LifeNext
  <2>1. CASE \E t, u \in Task : krhino_task_del(t, u)
    BY <2>1, TaskDel
  <2>2. CASE \E t, u \in Task, p \in NewPris, r \in BOOLEAN : krhino_task_create(t, u, p, r)
    BY <2>2, TaskCreateServes
  <2> QED
    BY <1>5, <2>1, <2>2 DEF LifeNext
<1>6. CASE RoundRobinNext
  <2>1. CASE \E t \in Task : krhino_task_yield(t)
    BY <1>0, <2>1, FieldNames, StateKept DEF IsK, krhino_task_yield, ready_list_head_to_tail, exit_sched
  <2>2. CASE \E t, u \in Task, n \in Slices : krhino_task_time_slice_set(t, u, n)
    BY <1>0, <2>2, FieldNames, StateKept DEF IsK, krhino_task_time_slice_set
  <2>3. CASE \E t, u \in Task, p \in {"RR", "FIFO"} : krhino_sched_policy_set(t, u, p)
    BY <1>0, <2>3, FieldNames, StateKept DEF IsK, krhino_sched_policy_set
  <2> QED
    BY <1>6, <2>1, <2>2, <2>3 DEF RoundRobinNext
<1>7. CASE MutexNext \/ MutexDelNext
  <2>1. CASE \E t \in Task, m \in Mutex : mutex_lock_nested(t, m)
    BY <1>0, <2>1, FieldNames, StateKept DEF IsK, mutex_lock_nested
  <2>2. CASE \E t \in Task, m \in Mutex : mutex_lock_free(t, m)
    BY <1>0, <2>2, FieldNames, StateKept DEF IsK, mutex_lock_free, mutex_to_task
  <2>3. CASE \E t \in Task, m \in Mutex : \E n \in LockTicks : mutex_lock_pend(t, m, n)
    BY <2>3, MutexLockServes
  <2>4. CASE \E t \in Task, m \in Mutex : krhino_mutex_unlock(t, m)
    BY <2>4, MutexUnlock
  <2>5. CASE \E t \in Task, m \in Mutex : krhino_mutex_create(t, m)
    BY <1>0, <2>5, FieldNames, StateKept DEF IsK, krhino_mutex_create
  <2>6. CASE \E t \in Task, m \in Mutex : krhino_mutex_del(t, m)
    BY <2>6, MutexDel
  <2> QED
    BY <1>7, <2>1, <2>2, <2>3, <2>4, <2>5, <2>6 DEF MutexNext, MutexDelNext, krhino_mutex_lock
<1>8. CASE SemNext \/ SemDelNext
  <2>1. CASE \E s \in Sem, w \in BOOLEAN : krhino_sem_give(s, w)
    BY <2>1, SemGive
  <2>2. CASE \E s \in Sem, t \in Task, n \in TakeTicks : krhino_sem_take(t, s, n)
    BY <2>2, SemTakeServes
  <2>3. CASE \E t \in Task, s \in Sem : krhino_sem_del(t, s)
    BY <2>3, SemDel
  <2>4. CASE \E t \in Task, s \in Sem, n \in Counts : krhino_sem_create(t, s, n)
    BY <1>0, <2>4, FieldNames, StateKept DEF IsK, krhino_sem_create
  <2>5. CASE \E t \in Task, s \in Sem, n \in Counts : krhino_sem_count_set(t, s, n)
    BY <1>0, <2>5, FieldNames, StateKept DEF IsK, krhino_sem_count_set
  <2> QED
    BY <1>8, <2>1, <2>2, <2>3, <2>4, <2>5 DEF SemNext, SemDelNext
<1>9. CASE QueueNext
  <2>1. CASE \E q \in Queue, m \in Msg, w \in BOOLEAN : msg_send(q, m, w)
    BY <2>1, MsgSend
  <2>2. CASE \E q \in BufQueue, m \in Msg : buf_queue_send(q, m)
    BY <2>2, BufQueueSend
  <2>3. CASE \E q \in AnyQueue : queue_recv_isr(q)
    BY <1>0, <2>3, FieldNames, StateKept DEF IsK, queue_recv_isr, recv_pop
  <2>4. CASE \E q \in AnyQueue, t \in Task : queue_flush(t, q)
    BY <1>0, <2>4, FieldNames, StateKept DEF IsK, queue_flush
  <2>5. CASE \E q \in AnyQueue, t \in Task, n \in RecvTicks : queue_recv(t, q, n)
    BY <2>5, QueueRecvServes
  <2> QED
    BY <1>9, <2>1, <2>2, <2>3, <2>4, <2>5 DEF QueueNext
<1>10. CASE QueueDelNext
  <2>1. CASE \E t \in Task, q \in AnyQueue : krhino_queue_create(t, q)
    BY <1>0, <2>1, FieldNames, StateKept DEF IsK, krhino_queue_create
  <2>2. CASE \E t \in Task, q \in AnyQueue : krhino_queue_del(t, q)
    BY <2>2, QueueDel
  <2> QED
    BY <1>10, <2>1, <2>2 DEF QueueDelNext
<1>11. CASE EventNext \/ EventDelNext
  <2>1. CASE \E e \in Event, f \in SetFlags, opt \in {"AND", "OR"} : krhino_event_set(e, f, opt)
    BY <2>1, EventSet
  <2>2. CASE \E e \in Event, t \in Task, w \in Wants, n \in GetTicks : krhino_event_get(t, e, w, n)
    BY <2>2, EventGetServes
  <2>3. CASE \E t \in Task, e \in Event : krhino_event_del(t, e)
    BY <2>3, EventDel
  <2>4. CASE \E t \in Task, e \in Event, f \in SetFlags : krhino_event_create(t, e, f)
    BY <1>0, <2>4, FieldNames, StateKept DEF IsK, krhino_event_create
  <2> QED
    BY <1>11, <2>1, <2>2, <2>3, <2>4 DEF EventNext, EventDelNext
<1> QED
  BY <1>1, <1>2, <1>3, <1>4, <1>5, <1>6, <1>7, <1>8, <1>9, <1>10, <1>11 DEF Next

\* A task that left a block list and is ready or suspended was served.
LEMMA LeftList ==
  ASSUME KInv, KInv', NEW o \in Obj, NEW t \in ToSet(k.blk[o]) \ ToSet(k'.blk[o]),
         k'.state[t] \in {"RDY", "SUSPENDED"}, k'.blkst[t] = "FINISH"
  PROVE  t \in Served(k', k) /\ k.blkobj[t] = o
<1>1. ToSet(k.blk[o]) = {x \in Blocked(k) : k.blkobj[x] = o}
  BY Facts DEF Blk
<1> QED
  BY <1>1 DEF Served, Blocked

\* An object goes to the most urgent of the tasks that wait for it, although their
\* priorities may have changed while they waited (WakesTheMostUrgent).
THEOREM KernelWakesTheMostUrgent == Spec => WakesTheMostUrgent
<1> DEFINE Wakes1 == \A o \in Obj \ Event : \A t \in ToSet(k.blk[o]) \ ToSet(k'.blk[o]) :
                       k'.state[t] \in {"RDY", "SUSPENDED"} /\ k'.blkst[t] = "FINISH"
                         => \A u \in ToSet(k'.blk[o]) : k.prio[t] <= k.prio[u]
<1>1. KInv /\ KInv' /\ [Next]_vars => [Wakes1]_k
  <2>1. SUFFICES ASSUME KInv, KInv', Next, NEW o \in Obj \ Event,
                        NEW t \in ToSet(k.blk[o]) \ ToSet(k'.blk[o]),
                        k'.state[t] \in {"RDY", "SUSPENDED"}, k'.blkst[t] = "FINISH",
                        NEW u \in ToSet(k'.blk[o])
                 PROVE  k.prio[t] <= k.prio[u]
    BY DEF vars
  <2>2. Deserved(k', k)
    BY <2>1, StepServes DEF KInv
  <2>3. t \in Served(k', k) /\ k.blkobj[t] = o
    BY <2>1, LeftList
  <2>4. u \in Blocked(k') /\ k'.blkobj[u] = o
    <3>1. Blk(k.blk, k.blkobj, k.prio, Blocked(k))'
      BY <2>1, Facts, PTL
    <3> QED
      BY <2>1, <3>1 DEF Blk, Blocked
  <2> QED
    BY <2>2, <2>3, <2>4 DEF Deserved
<1>2. Spec => []KInv
  BY KernelInvariant
<1> QED
  BY <1>1, <1>2, PTL DEF Spec, WakesTheMostUrgent

\* Whoever event_set wakes was told flags that meet its request, and the flags it
\* asked to clear are not set any more when event_set ends (FlagsConsumed).
THEOREM KernelFlagsConsumed == Spec => FlagsConsumed
<1> DEFINE Told1 == \A e \in Event : \A t \in ToSet(k.blk[e]) \ ToSet(k'.blk[e]) :
                      k'.state[t] \in {"RDY", "SUSPENDED"} /\ k'.blkst[t] = "FINISH"
                        => /\ Met(k.want[t], k'.actl[t])
                           /\ k.want[t].clear => k.want[t].flags \cap k'.flags[e] = {}
<1>1. KInv /\ KInv' /\ [Next]_vars => [Told1]_k
  <2>1. SUFFICES ASSUME KInv, KInv', Next, NEW e \in Event,
                        NEW t \in ToSet(k.blk[e]) \ ToSet(k'.blk[e]),
                        k'.state[t] \in {"RDY", "SUSPENDED"}, k'.blkst[t] = "FINISH"
                 PROVE  /\ Met(k.want[t], k'.actl[t])
                        /\ k.want[t].clear => k.want[t].flags \cap k'.flags[e] = {}
    BY DEF vars
  <2>2. Deserved(k', k)
    BY <2>1, StepServes DEF KInv
  <2>3. e \in Obj
    BY SMTT(30), Kinds
  <2>4. t \in Served(k', k) /\ k.blkobj[t] = e
    BY <2>1, <2>3, LeftList
  <2> QED
    BY <2>2, <2>4 DEF Deserved
<1>2. Spec => []KInv
  BY KernelInvariant
<1> QED
  BY <1>1, <1>2, PTL DEF Spec, FlagsConsumed
=============================================================================
