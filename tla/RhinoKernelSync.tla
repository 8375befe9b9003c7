--------------------------- MODULE RhinoKernelSync ----------------------------
(***************************************************************************)
(* The kernel implements RhinoSync, for any number of tasks, priorities and *)
(* objects: the refinement is proved step by step from the invariant of     *)
(* RhinoKernelProofs.  Of a step, RhinoSync sees the tasks' states and      *)
(* calls and the owners and counts of the objects.                          *)
(***************************************************************************)
EXTENDS RhinoKernelProofs

SyncObj == Mutex \cup Sem

\* a task that waits is in the call for the object it waits for, and one that
\* sleeps in none
Calling(r) ==
    \A t \in Task :
        /\ t \in Blocked(r) => r.pc[t] \in {"sched_pend", "pend"} /\ r.wait[t] = r.blkobj[t]
        /\ r.state[t] \in {"SLEEP", "SLEEP_SUSPENDED"} => r.wait[t] = NULL

\* the places in the code of a task that is not in a call that blocks
Outside == {"user", "sched", "prichg"}

\* those of one that is
Inside == {"sched_pend", "pend"}

\* a task moves inside its call, or outside
PcMoves(q, r) ==
    \A t \in Task : \/ q.pc[t] = r.pc[t]
                    \/ {q.pc[t], r.pc[t]} \subseteq Outside
                    \/ {q.pc[t], r.pc[t]} \subseteq Inside

\* what RhinoSync sees of the tasks does not change
SameTasks(q, r) ==
    /\ q.state = r.state /\ q.blkobj = r.blkobj /\ q.blkst = r.blkst /\ q.wait = r.wait
    /\ PcMoves(q, r)

\* what RhinoSync sees of the objects does not change
SameObjects(q, r) ==
    q.live = r.live /\ q.owner = r.owner /\ q.nested = r.nested /\ q.count = r.count

\* the tasks RhinoSync sees are q's and r's alike
Alike(q, r) ==
    /\ Existing(q) = Existing(r) /\ WaitsFor(q, SyncObj) = WaitsFor(r, SyncObj)
    /\ GrantedOf(q, SyncObj) = GrantedOf(r, SyncObj)

\* A step RhinoSync does not see.
LEMMA Unseen ==
  ASSUME NEW r, NEW q, SameTasks(q, r), Calling(r)
  PROVE  Alike(q, r) /\ Calling(q)
<1>1. \A t \in Task : q.pc[t] \in {"sched_pend", "pend"} <=> r.pc[t] \in {"sched_pend", "pend"}
  BY DEF SameTasks, PcMoves, Outside, Inside
<1>2. Existing(q) = Existing(r) /\ WaitsFor(q, SyncObj) = WaitsFor(r, SyncObj)
  BY DEF Existing, WaitsFor, SameTasks
<1>3. GrantedOf(q, SyncObj) = GrantedOf(r, SyncObj)
  BY <1>1 DEF GrantedOf, SameTasks
<1>4. Calling(q)
  BY <1>1 DEF Calling, SameTasks, Blocked
<1> QED
  BY <1>2, <1>3, <1>4 DEF Alike

\* the step is one of RhinoSync or one it does not see
SyncStep == Sync!SNext \/ UNCHANGED Sync!svars

\* what RhinoSync sees of the objects: the others may come and go
SeenObjects(q, r) ==
    /\ LiveOf(q, SyncObj) = LiveOf(r, SyncObj)
    /\ q.owner = r.owner /\ q.nested = r.nested /\ q.count = r.count

\* Nothing of what RhinoSync sees changes.
LEMMA Stutter ==
  ASSUME Alike(k', k), SameObjects(k', k) \/ SeenObjects(k', k)
  PROVE  SyncStep
<1>1. SeenObjects(k', k)
  BY DEF SeenObjects, LiveOf, SameObjects
<1> QED
  BY <1>1 DEF SyncStep, Sync!svars, Alike, SeenObjects, SyncObj

\* The end of a service is not seen.
LEMMA ExitTasks ==
  ASSUME NEW s, IsK(s), s.active \in All, s.pc \in [All -> PC],
         s.intr > 0 \/ s.pc[s.active] = "user", NEW q, q = s \/ q = exit_sched(s)
  PROVE  SameTasks(q, s) /\ SameObjects(q, s)
<1>1. CASE q = s
  BY <1>1 DEF SameTasks, SameObjects, PcMoves
<1>2. CASE q = exit_sched(s) /\ s.intr > 0
  BY <1>2 DEF exit_sched, SameTasks, SameObjects, PcMoves
<1>3. CASE q = exit_sched(s) /\ ~ (s.intr > 0)
  <2>1. q = [s EXCEPT !.pc[s.active] = "sched"] /\ s.pc[s.active] = "user"
    BY <1>3 DEF exit_sched
  <2>2. /\ q.state = s.state /\ q.blkobj = s.blkobj /\ q.blkst = s.blkst /\ q.wait = s.wait
        /\ q.live = s.live /\ q.owner = s.owner /\ q.nested = s.nested /\ q.count = s.count
        /\ q.pc = [s.pc EXCEPT ![s.active] = "sched"]
    BY <2>1, FieldNames DEF IsK
  <2>3. PcMoves(q, s)
    BY <2>1, <2>2 DEF PcMoves, Outside, All
  <2> QED
    BY <2>2, <2>3 DEF SameTasks, SameObjects
<1> QED
  BY <1>1, <1>2, <1>3

\* the tasks whose waits for mutexes and semaphores have ended
Left(q, r) == {t \in Task : WaitsFor(r, SyncObj)[t] # NULL /\ t \notin Blocked(q)}

\* waits end, with the object if the task finds BLK_FINISH; nothing else happens to
\* the tasks
Ended(q, r) ==
    /\ Existing(q) = Existing(r)
    /\ WaitsFor(q, SyncObj) = [t \in Task |-> IF t \in Left(q, r) THEN NULL
                                              ELSE WaitsFor(r, SyncObj)[t]]
    /\ GrantedOf(q, SyncObj) =
          [t \in Task |-> IF t \in Left(q, r) /\ q.blkst[t] = "FINISH"
                          THEN WaitsFor(r, SyncObj)[t] ELSE GrantedOf(r, SyncObj)[t]]

\* Who waits for what, task by task.
LEMMA WaitsValue ==
  ASSUME NEW r, Core(r), NEW t \in Task
  PROVE  /\ t \in All
         /\ WaitsFor(r, SyncObj)[t] = IF t \in Blocked(r) /\ r.blkobj[t] \in SyncObj
                                      THEN r.blkobj[t] ELSE NULL
         /\ WaitsFor(r, SyncObj)[t] # NULL <=> t \in Blocked(r) /\ r.blkobj[t] \in SyncObj
<1>1. t \in All /\ NULL \notin SyncObj
  BY CoreAssumption DEF All, SyncObj, Obj
<1> QED
  BY <1>1 DEF WaitsFor, Blocked

\* Wake-ups end waits.
LEMMA CalmEnds ==
  ASSUME NEW r, Core(r), Calling(r), NEW q, Calm(q, r), q.pc = r.pc, q.wait = r.wait
  PROVE  Ended(q, r) /\ Calling(q)
<1>0. Core(q) /\ \A t \in Task : t \in All
  BY DEF Calm, All
<1>1. \A t \in Task : Kept(q, r, t) \/ Freed(q, r, t)
  BY <1>0 DEF Calm
<1>2. Existing(q) = Existing(r)
  BY <1>1 DEF Existing, Kept, Freed
<1>3. ASSUME NEW t \in Task
      PROVE  WaitsFor(q, SyncObj)[t] = IF t \in Left(q, r) THEN NULL ELSE WaitsFor(r, SyncObj)[t]
  <2>1. Kept(q, r, t) => (t \in Blocked(q) <=> t \in Blocked(r)) /\ q.blkobj[t] = r.blkobj[t]
    BY DEF Kept, Blocked
  <2>2. Freed(q, r, t) => t \notin Blocked(q)
    BY DEF Freed, Blocked
  <2> QED
    BY <1>0, <1>1, <2>1, <2>2, WaitsValue DEF Left
<1>4. ASSUME NEW t \in Task
      PROVE  GrantedOf(q, SyncObj)[t] =
                IF t \in Left(q, r) /\ q.blkst[t] = "FINISH"
                THEN WaitsFor(r, SyncObj)[t] ELSE GrantedOf(r, SyncObj)[t]
  <2>1. CASE Kept(q, r, t)
    <3>1. t \notin Left(q, r)
      BY <2>1, WaitsValue DEF Left, Kept, Blocked
    <3>2. GrantedOf(q, SyncObj)[t] = GrantedOf(r, SyncObj)[t]
      BY <2>1 DEF GrantedOf, Kept
    <3> QED
      BY <3>1, <3>2
  <2>2. CASE Freed(q, r, t)
    <3>1. /\ q.state[t] \in {"RDY", "SUSPENDED"} /\ t \notin Blocked(q)
          /\ r.state[t] \notin {"RDY", "SUSPENDED"}
      BY <2>2 DEF Freed, Blocked
    <3>2. GrantedOf(r, SyncObj)[t] = NULL
      BY <3>1 DEF GrantedOf
    <3>3. CASE t \in Blocked(r)
      <4>1. r.pc[t] \in {"sched_pend", "pend"} /\ r.wait[t] = r.blkobj[t]
        BY <3>3 DEF Calling
      <4>2. GrantedOf(q, SyncObj)[t] = IF q.blkst[t] = "FINISH" /\ r.blkobj[t] \in SyncObj
                                       THEN r.blkobj[t] ELSE NULL
        BY <3>1, <4>1 DEF GrantedOf
      <4> QED
        BY <3>1, <3>2, <3>3, <4>2, WaitsValue DEF Left
    <3>4. CASE t \notin Blocked(r)
      <4>1. r.state[t] \in {"SLEEP", "SLEEP_SUSPENDED"}
        BY <1>0, <2>2, <3>4 DEF Freed, Blocked, Core, Lists, Typed, TaskState
      <4>2. r.wait[t] = NULL /\ NULL \notin SyncObj
        BY <4>1, CoreAssumption DEF Calling, SyncObj, Obj
      <4>3. GrantedOf(q, SyncObj)[t] = NULL
        BY <4>2 DEF GrantedOf
      <4> QED
        BY <3>2, <3>4, <4>3, WaitsValue DEF Left
    <3> QED
      BY <3>3, <3>4
  <2> QED
    BY <1>1, <2>1, <2>2
<1>5. Ended(q, r)
  <2>1. WaitsFor(q, SyncObj) = [t \in Task |-> WaitsFor(q, SyncObj)[t]]
    BY DEF WaitsFor
  <2>2. GrantedOf(q, SyncObj) = [t \in Task |-> GrantedOf(q, SyncObj)[t]]
    BY DEF GrantedOf
  <2> QED
    BY <1>2, <1>3, <1>4, <2>1, <2>2 DEF Ended
<1>6. Calling(q)
  <2> SUFFICES ASSUME NEW t \in Task
               PROVE  /\ t \in Blocked(q) => /\ q.pc[t] \in {"sched_pend", "pend"}
                                             /\ q.wait[t] = q.blkobj[t]
                      /\ q.state[t] \in {"SLEEP", "SLEEP_SUSPENDED"} => q.wait[t] = NULL
    BY DEF Calling
  <2>1. CASE Kept(q, r, t)
    BY <2>1 DEF Kept, Blocked, Calling
  <2>2. CASE Freed(q, r, t)
    BY <2>2 DEF Freed, Blocked
  <2> QED
    BY <1>1, <2>1, <2>2
<1> QED
  BY <1>5, <1>6

\* After that, a step that is not seen.
LEMMA EndedAlike ==
  ASSUME NEW r, NEW s, Ended(s, r), NEW q, Alike(q, s), q.state = s.state, q.blkst = s.blkst
  PROVE  Ended(q, r)
<1>1. Left(q, r) = Left(s, r)
  BY DEF Left, Blocked
<1> QED
  BY <1>1 DEF Ended, Alike

\* where the call of a service may come from
FromHere == k.intr > 0 \/ k.pc[k.active] = "user"

\* The end of a service that wakes tasks.
LEMMA CalmExit ==
  ASSUME Good(k), Calling(k), FromHere, NEW s, Calm(s, k), s.pc = k.pc, s.wait = k.wait,
         s.active = k.active, s.intr = k.intr, k' = s \/ k' = exit_sched(s)
  PROVE  Ended(k', k) /\ Calling(k') /\ SameObjects(k', s) /\ k'.blkst = s.blkst
         /\ Blocked(k') = Blocked(s)
<1>1. Ended(s, k) /\ Calling(s)
  BY CalmEnds DEF Good, Sys
<1>2. SameTasks(k', s) /\ SameObjects(k', s)
  <2>1. IsK(s) /\ k.active \in All /\ k.pc \in [All -> PC]
    BY AllTypes DEF Good, Calm, Core, Lists, Typed
  <2> QED
    BY <2>1, ExitTasks DEF FromHere
<1>3. Alike(k', s) /\ Calling(k')
  BY <1>1, <1>2, Unseen
<1>4. k'.state = s.state /\ k'.blkst = s.blkst
  BY <1>2 DEF SameTasks
<1>5. Ended(k', k)
  BY <1>1, <1>3, <1>4, EndedAlike
<1> QED
  BY <1>2, <1>3, <1>4, <1>5 DEF Blocked

\* Waits end without the object.
LEMMA GivesUp ==
  ASSUME Ended(k', k), SameObjects(k', k) \/ SeenObjects(k', k),
         \A t \in Left(k', k) : k'.blkst[t] # "FINISH"
  PROVE  SyncStep
<1>1. PICK W : W = Left(k', k)
  OBVIOUS
<1>2. W \in SUBSET Task
  BY <1>1 DEF Left
<1>3. GrantedOf(k, SyncObj) = [t \in Task |-> GrantedOf(k, SyncObj)[t]]
  BY DEF GrantedOf
<1>4. /\ GrantedOf(k', SyncObj) = GrantedOf(k, SyncObj) /\ Existing(k') = Existing(k)
      /\ WaitsFor(k', SyncObj) = [t \in Task |-> IF t \in W THEN NULL
                                                 ELSE WaitsFor(k, SyncObj)[t]]
  BY <1>1, <1>3 DEF Ended
<1>5. SeenObjects(k', k)
  BY DEF SeenObjects, LiveOf, SameObjects
<1>6. Sync!GiveUp(W)
  BY <1>4, <1>5 DEF Sync!GiveUp, SeenObjects, SyncObj
<1> QED
  BY <1>2, <1>6 DEF SyncStep, Sync!SNext

\* Tasks are suspended or resumed.
LEMMA Flips ==
  ASSUME NEW r, Calling(r), NEW q, q.blkobj = r.blkobj, q.blkst = r.blkst, q.wait = r.wait,
         q.pc = r.pc,
         \A t \in Task : \/ q.state[t] = r.state[t]
                         \/ {q.state[t], r.state[t]} = {"RDY", "SUSPENDED"}
                         \/ {q.state[t], r.state[t]} = {"SLEEP", "SLEEP_SUSPENDED"}
                         \/ {q.state[t], r.state[t]} = {"PEND", "PEND_SUSPENDED"}
  PROVE  Alike(q, r) /\ Calling(q)
<1>1. \A t \in Task : /\ t \in Blocked(q) <=> t \in Blocked(r)
                      /\ q.state[t] \in {"RDY", "SUSPENDED"} <=> r.state[t] \in {"RDY", "SUSPENDED"}
                      /\ q.state[t] = "DELETED" <=> r.state[t] = "DELETED"
                      /\ q.state[t] \in {"SLEEP", "SLEEP_SUSPENDED"}
                            <=> r.state[t] \in {"SLEEP", "SLEEP_SUSPENDED"}
  BY DEF Blocked, All
<1>2. Existing(q) = Existing(r)
  BY <1>1 DEF Existing
<1>3. WaitsFor(q, SyncObj) = WaitsFor(r, SyncObj)
  <2>1. \A t \in Task : q.state[t] \in {"PEND", "PEND_SUSPENDED"}
                           <=> r.state[t] \in {"PEND", "PEND_SUSPENDED"}
    BY <1>1 DEF Blocked, All
  <2> QED
    BY <2>1 DEF WaitsFor
<1>4. GrantedOf(q, SyncObj) = GrantedOf(r, SyncObj)
  BY <1>1 DEF GrantedOf
<1>5. Calling(q)
  BY <1>1 DEF Calling
<1> QED
  BY <1>2, <1>3, <1>4, <1>5 DEF Alike

\* One step that is not seen after another.
LEMMA AlikeTrans ==
  ASSUME NEW r, NEW s, NEW q, Alike(s, r), Alike(q, s)
  PROVE  Alike(q, r)
BY DEF Alike

\* A step RhinoSync does not see, with the end of the service.
LEMMA UnseenExit ==
  ASSUME Good(k), Calling(k), FromHere, NEW s, IsK(s), Alike(s, k), Calling(s),
         s.pc = k.pc, s.active = k.active, s.intr = k.intr, k' = s \/ k' = exit_sched(s)
  PROVE  Alike(k', k) /\ Calling(k') /\ SameObjects(k', s)
<1>1. SameTasks(k', s) /\ SameObjects(k', s)
  <2>1. k.active \in All /\ k.pc \in [All -> PC]
    BY AllTypes DEF Good
  <2> QED
    BY <2>1, ExitTasks DEF FromHere
<1> QED
  BY <1>1, Unseen, AlikeTrans

\* A service that changes nothing RhinoSync sees.
LEMMA StutterExit ==
  ASSUME Good(k), Calling(k), FromHere, NEW s, IsK(s), SameTasks(s, k), SameObjects(s, k),
         s.pc = k.pc, s.active = k.active, s.intr = k.intr, k' = s \/ k' = exit_sched(s)
  PROVE  SyncStep /\ Calling(k')
<1>1. Alike(s, k) /\ Calling(s)
  BY Unseen
<1>2. Alike(k', k) /\ Calling(k') /\ SameObjects(k', s)
  BY <1>1, UnseenExit
<1> QED
  BY <1>2, Stutter DEF SameObjects

\* A service that blocks its caller on o.
LEMMA BlockTasks ==
  ASSUME Good(k), Calling(k), NEW t \in Task, Calls(t), NEW r, Core(r), r.state = k.state,
         r.blkobj = k.blkobj, r.blkst = k.blkst, r.pc = k.pc, r.wait = k.wait, r.active = t,
         t \notin ToSet(r.tickl), NEW o \in Obj, o \in Mutex => r.owner[o] \in Task,
         NEW n \in (Nat \ {0}) \cup {WAIT_FOREVER}, k' = exit_sched_pend(pend_to_blk_obj(r, o, t, n), o)
  PROVE  /\ Existing(k') = Existing(k) /\ GrantedOf(k', SyncObj) = GrantedOf(k, SyncObj)
         /\ WaitsFor(k', SyncObj) = IF o \in SyncObj THEN [WaitsFor(k, SyncObj) EXCEPT ![t] = o]
                                    ELSE WaitsFor(k, SyncObj)
         /\ Calling(k') /\ SameObjects(k', r)
<1>1. t \in All /\ k.state[t] = "RDY" /\ k.active = t /\ k.pc[t] = "user" /\ IsK(k)
  BY CallerIs DEF Calls
<1>2. PICK s : s = pend_to_blk_obj(r, o, t, n)
  OBVIOUS
<1>3. Waiting(s, r, t, o)
  <2>1. t \in Ready(r)
    BY <1>1 DEF Ready
  <2> QED
    BY <1>2, <2>1, PendToBlkObj
<1>4. /\ s.state = [k.state EXCEPT ![t] = "PEND"] /\ s.blkobj = [k.blkobj EXCEPT ![t] = o]
      /\ s.blkst = k.blkst /\ s.pc = k.pc /\ s.wait = k.wait /\ s.active = t /\ IsK(s)
      /\ s.live = r.live /\ s.owner = r.owner /\ s.nested = r.nested /\ s.count = r.count
  BY <1>3, FieldNames DEF Waiting, Same
<1>5. k' = [s EXCEPT !.pc[t] = "sched_pend", !.wait[t] = o]
  BY <1>2, <1>4 DEF exit_sched_pend
<1>6. /\ k'.state = s.state /\ k'.blkobj = s.blkobj /\ k'.blkst = k.blkst
      /\ k'.pc = [k.pc EXCEPT ![t] = "sched_pend"] /\ k'.wait = [k.wait EXCEPT ![t] = o]
      /\ SameObjects(k', r)
  BY <1>4, <1>5, FieldNames DEF IsK, SameObjects
<1>7. /\ k.state \in [All -> TaskState] /\ k.blkobj \in [All -> Obj \cup {NULL}]
      /\ k.pc \in [All -> PC] /\ k.wait \in [All -> Obj \cup {NULL}]
  BY AllTypes DEF Good
<1>8. /\ k'.state[t] = "PEND" /\ k'.blkobj[t] = o /\ k'.pc[t] = "sched_pend" /\ k'.wait[t] = o
      /\ \A x \in Task \ {t} : /\ k'.state[x] = k.state[x] /\ k'.blkobj[x] = k.blkobj[x]
                               /\ k'.pc[x] = k.pc[x] /\ k'.wait[x] = k.wait[x]
  BY <1>1, <1>4, <1>6, <1>7 DEF All
<1>9. Existing(k') = Existing(k)
  BY <1>1, <1>8 DEF Existing
<1>10. GrantedOf(k', SyncObj) = GrantedOf(k, SyncObj)
  <2>1. \A x \in Task \ {t} : GrantedOf(k', SyncObj)[x] = GrantedOf(k, SyncObj)[x]
    BY <1>6, <1>8 DEF GrantedOf
  <2>2. GrantedOf(k', SyncObj)[t] = NULL /\ GrantedOf(k, SyncObj)[t] = NULL
    BY <1>1, <1>8 DEF GrantedOf
  <2>3. \A q : GrantedOf(q, SyncObj) = [x \in Task |-> GrantedOf(q, SyncObj)[x]]
    BY DEF GrantedOf
  <2> QED
    BY <2>1, <2>2, <2>3
<1>11. WaitsFor(k', SyncObj) = IF o \in SyncObj THEN [WaitsFor(k, SyncObj) EXCEPT ![t] = o]
                               ELSE WaitsFor(k, SyncObj)
  <2>1. \A x \in Task \ {t} : WaitsFor(k', SyncObj)[x] = WaitsFor(k, SyncObj)[x]
    BY <1>8 DEF WaitsFor
  <2>2. /\ WaitsFor(k', SyncObj)[t] = IF o \in SyncObj THEN o ELSE NULL
        /\ WaitsFor(k, SyncObj)[t] = NULL
    BY <1>1, <1>8 DEF WaitsFor
  <2>3. \A q : WaitsFor(q, SyncObj) = [x \in Task |-> WaitsFor(q, SyncObj)[x]]
    BY DEF WaitsFor
  <2> QED
    BY <2>1, <2>2, <2>3
<1>12. Calling(k')
  BY <1>8 DEF Calling, Blocked, All
<1> QED
  BY <1>6, <1>9, <1>10, <1>11, <1>12

-----------------------------------------------------------------------------
\* The scheduler, the interrupt handlers and the tick.

\* core_sched.
LEMMA SyncCoreSched ==
  ASSUME Good(k), Calling(k), NEW t \in All, core_sched(t)
  PROVE  SyncStep /\ Calling(k')
<1>1. IsK(k) /\ k.pc \in [All -> PC]
  BY AllTypes DEF Good
<1>2. /\ SameObjects(k', k) /\ k'.state = k.state /\ k'.blkobj = k.blkobj /\ k'.blkst = k.blkst
      /\ k'.wait = k.wait
      /\ k'.pc = [k.pc EXCEPT ![t] = IF k.pc[t] = "sched" THEN "user" ELSE "pend"]
  BY <1>1, FieldNames DEF IsK, core_sched, SameObjects
<1>3. k.pc[t] \in {"sched", "sched_pend"}
  BY DEF core_sched
<1>4. PcMoves(k', k)
  BY <1>1, <1>2, <1>3 DEF PcMoves, Outside, Inside, All
<1> QED
  BY <1>2, <1>4, Unseen, Stutter DEF SameTasks

\* The return of a call that blocked.
LEMMA SyncReturn ==
  ASSUME Good(k), Calling(k), NEW t \in All, pend_state_end_proc(t)
  PROVE  SyncStep /\ Calling(k')
<1>1. IsK(k) /\ k.pc \in [All -> PC] /\ k.wait \in [All -> Obj \cup {NULL}]
  BY AllTypes DEF Good
<1>2. /\ SameObjects(k', k) /\ k'.state = k.state /\ k'.blkobj = k.blkobj /\ k'.blkst = k.blkst
      /\ k'.wait = [k.wait EXCEPT ![t] = NULL] /\ k'.pc = [k.pc EXCEPT ![t] = "user"]
  BY <1>1, FieldNames DEF IsK, pend_state_end_proc, SameObjects
<1>3. t \notin Blocked(k)
  BY Caller DEF pend_state_end_proc
<1>4. /\ k'.wait[t] = NULL /\ k'.pc[t] = "user"
      /\ \A x \in Task \ {t} : k'.wait[x] = k.wait[x] /\ k'.pc[x] = k.pc[x]
  BY <1>1, <1>2 DEF All
<1>5. Calling(k')
  BY <1>2, <1>3, <1>4 DEF Calling, Blocked
<1>6. Existing(k') = Existing(k) /\ WaitsFor(k', SyncObj) = WaitsFor(k, SyncObj)
  BY <1>2 DEF Existing, WaitsFor
<1>7. \A x \in Task \ {t} : GrantedOf(k', SyncObj)[x] = GrantedOf(k, SyncObj)[x]
  BY <1>2, <1>4 DEF GrantedOf
<1>8. t \in Task => GrantedOf(k', SyncObj)[t] = NULL
  BY <1>4 DEF GrantedOf
<1>9. \A q : GrantedOf(q, SyncObj) = [x \in Task |-> GrantedOf(q, SyncObj)[x]]
  BY DEF GrantedOf
<1>10. CASE t \in Task /\ GrantedOf(k, SyncObj)[t] # NULL
  <2>1. GrantedOf(k', SyncObj) = [GrantedOf(k, SyncObj) EXCEPT ![t] = NULL]
    BY <1>7, <1>8, <1>9, <1>10
  <2>2. LiveOf(k', SyncObj) = LiveOf(k, SyncObj)
    BY <1>2 DEF LiveOf, SameObjects
  <2>3. Sync!Return(t)
    BY <1>2, <1>6, <1>10, <2>1, <2>2 DEF Sync!Return, SameObjects, SyncObj
  <2> QED
    BY <1>5, <1>10, <2>3 DEF SyncStep, Sync!SNext
<1>11. CASE ~ (t \in Task /\ GrantedOf(k, SyncObj)[t] # NULL)
  <2>1. GrantedOf(k', SyncObj) = GrantedOf(k, SyncObj)
    BY <1>7, <1>8, <1>9, <1>11
  <2> QED
    BY <1>2, <1>5, <1>6, <2>1, Stutter DEF Alike
<1> QED
  BY <1>10, <1>11

\* A step that changes nothing RhinoSync sees.
LEMMA SyncQuiet ==
  ASSUME Calling(k), SameTasks(k', k), SameObjects(k', k)
  PROVE  SyncStep /\ Calling(k')
BY Unseen, Stutter

\* krhino_sched_disable, krhino_intrpt_enter and krhino_intrpt_exit.
LEMMA SyncIntrpt ==
  ASSUME Good(k), Calling(k),
         krhino_intrpt_enter \/ krhino_intrpt_exit \/ \E t \in Task : krhino_sched_disable(t)
  PROVE  SyncStep /\ Calling(k')
<1>1. IsK(k)
  BY AllTypes DEF Good
<1>2. /\ SameObjects(k', k) /\ k'.state = k.state /\ k'.blkobj = k.blkobj /\ k'.blkst = k.blkst
      /\ k'.wait = k.wait /\ k'.pc = k.pc
  BY <1>1, FieldNames
     DEF IsK, krhino_intrpt_enter, krhino_intrpt_exit, krhino_sched_disable, SameObjects
<1> QED
  BY <1>2, SyncQuiet DEF SameTasks, PcMoves

\* krhino_sched_enable.
LEMMA SyncSchedEnable ==
  ASSUME Good(k), Calling(k), NEW t \in Task, krhino_sched_enable(t)
  PROVE  SyncStep /\ Calling(k')
<1>1. IsK(k) /\ FromHere
  BY AllTypes DEF Good, FromHere, krhino_sched_enable, Calls
<1>2. PICK s : s = [k EXCEPT !.lock = @ - 1]
  OBVIOUS
<1>3. k' = s \/ k' = exit_sched(s)
  BY <1>2 DEF krhino_sched_enable
<1>4. /\ IsK(s) /\ SameObjects(s, k) /\ s.state = k.state /\ s.blkobj = k.blkobj
      /\ s.blkst = k.blkst /\ s.wait = k.wait /\ s.pc = k.pc /\ s.active = k.active
      /\ s.intr = k.intr
  BY <1>1, <1>2, FieldNames DEF IsK, SameObjects
<1> QED
  BY <1>1, <1>3, <1>4, StutterExit DEF SameTasks, PcMoves

\* krhino_tick_proc: the waits of the tasks whose time is over end.
LEMMA SyncTick ==
  ASSUME Good(k), Calling(k), krhino_tick_proc
  PROVE  SyncStep /\ Calling(k')
<1>0. Sys(k) /\ Core(k) /\ Chains(k) /\ Timed(k) /\ TimeLeft(k)
  BY DEF Good, Sys, Waits, Owns, Chains
<1>1. PICK q : q = tick_list_update(k, 1)
  OBVIOUS
<1>2. /\ Calm(q, k) /\ Same(q, k, EndFields)
      /\ \A t \in Blocked(k) : t \in Blocked(q) \/ q.blkst[t] = "TIMEOUT"
  BY <1>0, <1>1, TickListUpdate
<1>3. Same(k', q, {"rdy", "slice"})
  BY <1>0, <1>1, <1>2, CalmSys, TimeSlice DEF krhino_tick_proc
<1>4. q.pc = k.pc /\ q.wait = k.wait /\ SameObjects(q, k)
  BY <1>2, FieldNames DEF Same, EndFields, WakeFields, PriFields, SameObjects
<1>5. /\ k'.state = q.state /\ k'.blkobj = q.blkobj /\ k'.blkst = q.blkst /\ k'.wait = q.wait
      /\ k'.pc = q.pc /\ SameObjects(k', q)
  BY <1>3, FieldNames DEF Same, SameObjects
<1>6. Ended(q, k) /\ Calling(q)
  BY <1>0, <1>2, <1>4, CalmEnds
<1>7. Alike(k', q) /\ Calling(k')
  BY <1>5, <1>6, Unseen DEF SameTasks, PcMoves
<1>8. Ended(k', k)
  BY <1>5, <1>6, <1>7, EndedAlike
<1>9. \A t \in Left(k', k) : k'.blkst[t] # "FINISH"
  <2>1. \A t \in Left(k', k) : t \in Blocked(k) /\ t \notin Blocked(q)
    BY <1>0, <1>5, WaitsValue DEF Left, Blocked
  <2> QED
    BY <1>2, <1>5, <2>1
<1> QED
  BY <1>4, <1>5, <1>7, <1>8, <1>9, GivesUp DEF SameObjects

-----------------------------------------------------------------------------
\* The services on tasks.

\* A task that calls a service: where it is and what RhinoSync sees of it.
LEMMA SyncCaller ==
  ASSUME Good(k), NEW t \in Task, Calls(t)
  PROVE  /\ t \in All /\ IsK(k) /\ Core(k) /\ k.active = t /\ k.intr = 0 /\ k.pc[t] = "user"
         /\ k.state[t] = "RDY" /\ t \notin ToSet(k.tickl) /\ t \notin Blocked(k)
         /\ k.state \in [All -> TaskState] /\ k.pc \in [All -> PC]
         /\ k.wait \in [All -> Obj \cup {NULL}] /\ FromHere /\ Sync!Free(t)
<1>1. t \in All /\ k.active = t /\ k.intr = 0 /\ k.pc[t] = "user" /\ Core(k)
  BY DEF All, Calls, Good, Sys
<1>2. /\ IsK(k) /\ k.state \in [All -> TaskState] /\ k.pc \in [All -> PC]
      /\ k.wait \in [All -> Obj \cup {NULL}]
  BY AllTypes DEF Good
<1>3. k.state[t] = "RDY" /\ t \notin ToSet(k.tickl) /\ t \notin Blocked(k)
  BY <1>1, Caller
<1>4. Existing(k) = {x \in Task : k.state[x] # "DELETED"} /\ t \in Existing(k)
  BY <1>3 DEF Existing
<1>5. WaitsFor(k, SyncObj)[t] = NULL /\ GrantedOf(k, SyncObj)[t] = NULL
  BY <1>1, <1>3 DEF WaitsFor, GrantedOf
<1>6. Sync!Free(t)
  BY <1>4, <1>5 DEF Sync!Free, SyncObj
<1> QED
  BY <1>1, <1>2, <1>3, <1>6 DEF FromHere

\* krhino_task_sleep.
LEMMA SyncSleep ==
  ASSUME Good(k), Calling(k), NEW t \in Task, NEW n \in SleepTicks, krhino_task_sleep(t, n)
  PROVE  SyncStep /\ Calling(k')
<1>1. /\ t \in All /\ IsK(k) /\ k.active = t /\ k.state[t] = "RDY" /\ k.pc[t] = "user"
      /\ k.state \in [All -> TaskState] /\ k.pc \in [All -> PC]
      /\ k.wait \in [All -> Obj \cup {NULL}]
  BY SyncCaller DEF krhino_task_sleep
<1>2. PICK s1 : s1 = [k EXCEPT !.state[t] = "SLEEP"]
  OBVIOUS
<1>3. PICK s2 : s2 = tick_list_insert(s1, t, n)
  OBVIOUS
<1>4. PICK s : s = ready_list_rm(s2, t)
  OBVIOUS
<1>5. Same(s1, k, {"state"}) /\ s1.state = [k.state EXCEPT ![t] = "SLEEP"]
  BY <1>1, <1>2, FieldNames DEF Same, IsK
<1>6. Same(s2, s1, {"tick", "tickl"})
  BY <1>3, <1>5, FieldNames DEF Same, IsK, tick_list_insert
<1>7. Same(s, s2, {"rdy", "hi"})
  BY <1>4, <1>6, FieldNames DEF Same, IsK, ready_list_rm
<1>8. /\ IsK(s) /\ s.state = [k.state EXCEPT ![t] = "SLEEP"] /\ s.blkobj = k.blkobj
      /\ s.blkst = k.blkst /\ s.pc = k.pc /\ s.wait = k.wait /\ s.active = t
      /\ SameObjects(s, k)
  BY <1>1, <1>5, <1>6, <1>7, FieldNames DEF Same, SameObjects
<1>9. k' = [s EXCEPT !.pc[t] = "sched_pend", !.wait[t] = NULL]
  BY <1>2, <1>3, <1>4, <1>8 DEF krhino_task_sleep, exit_sched_pend
<1>10. /\ k'.state = s.state /\ k'.blkobj = k.blkobj /\ k'.blkst = k.blkst
       /\ k'.pc = [k.pc EXCEPT ![t] = "sched_pend"] /\ k'.wait = [k.wait EXCEPT ![t] = NULL]
       /\ SameObjects(k', k)
  BY <1>8, <1>9, FieldNames DEF IsK, SameObjects
<1>11. /\ k'.state[t] = "SLEEP" /\ k'.pc[t] = "sched_pend" /\ k'.wait[t] = NULL
       /\ \A x \in Task \ {t} : /\ k'.state[x] = k.state[x] /\ k'.pc[x] = k.pc[x]
                                /\ k'.wait[x] = k.wait[x]
  BY <1>1, <1>8, <1>10 DEF All
<1>12. Calling(k')
  BY <1>10, <1>11 DEF Calling, Blocked, All
<1>13. Existing(k') = Existing(k)
  BY <1>1, <1>11 DEF Existing
<1>14. WaitsFor(k', SyncObj) = WaitsFor(k, SyncObj)
  <2>1. \A x \in Task : k'.state[x] \in {"PEND", "PEND_SUSPENDED"}
                           <=> k.state[x] \in {"PEND", "PEND_SUSPENDED"}
    BY <1>1, <1>11
  <2> QED
    BY <1>10, <2>1 DEF WaitsFor
<1>15. GrantedOf(k', SyncObj) = GrantedOf(k, SyncObj)
  <2>1. \A x \in Task \ {t} : GrantedOf(k', SyncObj)[x] = GrantedOf(k, SyncObj)[x]
    BY <1>10, <1>11 DEF GrantedOf
  <2>2. GrantedOf(k', SyncObj)[t] = NULL /\ GrantedOf(k, SyncObj)[t] = NULL
    BY <1>1, <1>11 DEF GrantedOf
  <2>3. \A q : GrantedOf(q, SyncObj) = [x \in Task |-> GrantedOf(q, SyncObj)[x]]
    BY DEF GrantedOf
  <2> QED
    BY <2>1, <2>2, <2>3
<1> QED
  BY <1>10, <1>12, <1>13, <1>14, <1>15, Stutter DEF Alike

\* krhino_task_yield, krhino_task_time_slice_set and krhino_sched_policy_set.
LEMMA SyncRoundRobin ==
  ASSUME Good(k), Calling(k), RoundRobinNext
  PROVE  SyncStep /\ Calling(k')
<1>1. IsK(k)
  BY AllTypes DEF Good
<1>2. ASSUME NEW t \in Task, krhino_task_yield(t)
      PROVE  SyncStep /\ Calling(k')
  <2>1. PICK s : s = ready_list_head_to_tail(k, t)
    OBVIOUS
  <2>2. /\ IsK(s) /\ SameObjects(s, k) /\ s.state = k.state /\ s.blkobj = k.blkobj
        /\ s.blkst = k.blkst /\ s.wait = k.wait /\ s.pc = k.pc /\ s.active = k.active
        /\ s.intr = k.intr
    BY <1>1, <2>1, FieldNames DEF IsK, ready_list_head_to_tail, SameObjects
  <2>3. k' = exit_sched(s) /\ FromHere
    BY <1>2, <2>1, SyncCaller DEF krhino_task_yield
  <2> QED
    BY <2>2, <2>3, StutterExit DEF SameTasks, PcMoves
<1>3. ASSUME NEW t \in Task, NEW u \in Task, NEW n \in Slices,
             krhino_task_time_slice_set(t, u, n)
      PROVE  SyncStep /\ Calling(k')
  <2>1. /\ SameObjects(k', k) /\ k'.state = k.state /\ k'.blkobj = k.blkobj
        /\ k'.blkst = k.blkst /\ k'.wait = k.wait /\ k'.pc = k.pc
    BY <1>1, <1>3, FieldNames DEF IsK, krhino_task_time_slice_set, SameObjects
  <2> QED
    BY <2>1, SyncQuiet DEF SameTasks, PcMoves
<1>4. ASSUME NEW t \in Task, NEW u \in Task, NEW p \in {"RR", "FIFO"},
             krhino_sched_policy_set(t, u, p)
      PROVE  SyncStep /\ Calling(k')
  <2>1. /\ SameObjects(k', k) /\ k'.state = k.state /\ k'.blkobj = k.blkobj
        /\ k'.blkst = k.blkst /\ k'.wait = k.wait /\ k'.pc = k.pc
    BY <1>1, <1>4, FieldNames DEF IsK, krhino_sched_policy_set, SameObjects
  <2> QED
    BY <2>1, SyncQuiet DEF SameTasks, PcMoves
<1> QED
  BY <1>2, <1>3, <1>4 DEF RoundRobinNext

\* A task is suspended or resumed: its state is v from now on.
LEMMA FlipExit ==
  ASSUME Good(k), Calling(k), FromHere, NEW s, IsK(s), SameObjects(s, k), NEW u \in Task,
         NEW v, s.state = [k.state EXCEPT ![u] = v],
         \/ v = k.state[u]
         \/ {v, k.state[u]} = {"RDY", "SUSPENDED"}
         \/ {v, k.state[u]} = {"SLEEP", "SLEEP_SUSPENDED"}
         \/ {v, k.state[u]} = {"PEND", "PEND_SUSPENDED"},
         s.blkobj = k.blkobj, s.blkst = k.blkst, s.wait = k.wait, s.pc = k.pc,
         s.active = k.active, s.intr = k.intr, k' = exit_sched(s)
  PROVE  SyncStep /\ Calling(k')
<1>1. k.state \in [All -> TaskState] /\ u \in All
  BY AllTypes DEF Good, All
<1>2. s.state[u] = v /\ \A t \in Task \ {u} : s.state[t] = k.state[t]
  BY <1>1 DEF All
<1>3. Alike(s, k) /\ Calling(s)
  <2>1. \A t \in Task : \/ s.state[t] = k.state[t]
                        \/ {s.state[t], k.state[t]} = {"RDY", "SUSPENDED"}
                        \/ {s.state[t], k.state[t]} = {"SLEEP", "SLEEP_SUSPENDED"}
                        \/ {s.state[t], k.state[t]} = {"PEND", "PEND_SUSPENDED"}
    BY <1>2
  <2> QED
    BY <2>1, Flips
<1>4. Alike(k', k) /\ Calling(k') /\ SameObjects(k', s)
  BY <1>3, UnseenExit
<1> QED
  BY <1>4, Stutter DEF SameObjects

\* krhino_task_suspend.
LEMMA SyncSuspend ==
  ASSUME Good(k), Calling(k), NEW u \in Task, krhino_task_suspend(u)
  PROVE  SyncStep /\ Calling(k')
<1>1. IsK(k) /\ FromHere /\ k.state \in [All -> TaskState] /\ u \in All
  BY AllTypes DEF Good, FromHere, krhino_task_suspend, InIsr, Calls, All
<1>2. CASE /\ k.state[u] = "RDY"
           /\ k' = exit_sched(ready_list_rm([k EXCEPT !.susp[u] = 1,
                                                      !.state[u] = "SUSPENDED"], u))
  <2>1. PICK s : s = [k EXCEPT !.susp[u] = 1, !.state[u] = "SUSPENDED"]
    OBVIOUS
  <2>2. /\ Same(s, k, {"state", "susp"}) /\ s.state = [k.state EXCEPT ![u] = "SUSPENDED"]
    BY ZenonT(30), <1>1, <2>1, FieldNames DEF Same, IsK
  <2>3. PICK q : q = ready_list_rm(s, u)
    OBVIOUS
  <2>4. Same(q, s, {"rdy", "hi"})
    BY <2>2, <2>3, FieldNames DEF Same, IsK, ready_list_rm
  <2>5. /\ IsK(q) /\ SameObjects(q, k) /\ q.state = [k.state EXCEPT ![u] = "SUSPENDED"]
        /\ q.blkobj = k.blkobj /\ q.blkst = k.blkst /\ q.wait = k.wait /\ q.pc = k.pc
        /\ q.active = k.active /\ q.intr = k.intr
    BY <2>2, <2>4, FieldNames DEF Same, SameObjects
  <2> QED
    BY <1>1, <1>2, <2>1, <2>3, <2>5, FlipExit
<1>3. CASE /\ k.state[u] \in {"SLEEP", "PEND"}
           /\ k' = exit_sched([k EXCEPT !.susp[u] = 1, !.state[u] =
                         IF @ = "SLEEP" THEN "SLEEP_SUSPENDED" ELSE "PEND_SUSPENDED"])
  <2>1. PICK v : v = IF k.state[u] = "SLEEP" THEN "SLEEP_SUSPENDED" ELSE "PEND_SUSPENDED"
    OBVIOUS
  <2>2. PICK q : q = [k EXCEPT !.susp[u] = 1, !.state[u] = v]
    OBVIOUS
  <2>3. /\ IsK(q) /\ SameObjects(q, k) /\ q.state = [k.state EXCEPT ![u] = v]
        /\ q.blkobj = k.blkobj /\ q.blkst = k.blkst /\ q.wait = k.wait /\ q.pc = k.pc
        /\ q.active = k.active /\ q.intr = k.intr
    BY <1>1, <2>2, FieldNames DEF IsK, SameObjects
  <2>4. k' = exit_sched(q)
    <3>1. q = [k EXCEPT !.susp[u] = 1, !.state[u] =
                         IF @ = "SLEEP" THEN "SLEEP_SUSPENDED" ELSE "PEND_SUSPENDED"]
      BY <2>1, <2>2
    <3> QED
      BY <1>3, <3>1
  <2> QED
    BY <1>1, <1>3, <2>1, <2>3, <2>4, FlipExit
<1>4. CASE /\ k.state[u] \in {"SUSPENDED", "SLEEP_SUSPENDED", "PEND_SUSPENDED"}
           /\ k' = exit_sched([k EXCEPT !.susp[u] = @ + 1])
  <2>1. PICK q : q = [k EXCEPT !.susp[u] = @ + 1]
    OBVIOUS
  <2>2. /\ IsK(q) /\ SameObjects(q, k) /\ q.state = k.state
        /\ q.blkobj = k.blkobj /\ q.blkst = k.blkst /\ q.wait = k.wait /\ q.pc = k.pc
        /\ q.active = k.active /\ q.intr = k.intr
    BY <1>1, <2>1, FieldNames DEF IsK, SameObjects
  <2>3. q.state = [k.state EXCEPT ![u] = k.state[u]]
    BY <1>1, <2>2
  <2> QED
    BY <1>1, <1>4, <2>1, <2>2, <2>3, FlipExit
<1> QED
  BY <1>2, <1>3, <1>4 DEF krhino_task_suspend

\* krhino_task_resume.
LEMMA SyncResume ==
  ASSUME Good(k), Calling(k), NEW u \in Task, krhino_task_resume(u)
  PROVE  SyncStep /\ Calling(k')
<1>1. /\ IsK(k) /\ FromHere /\ k.state \in [All -> TaskState] /\ u \in All
      /\ k.state[u] \in {"SUSPENDED", "SLEEP_SUSPENDED", "PEND_SUSPENDED"}
  BY AllTypes DEF Good, FromHere, krhino_task_resume, InIsr, Calls, All
<1>2. PICK k1 : k1 = [k EXCEPT !.susp[u] = @ - 1]
  OBVIOUS
<1>3. Same(k1, k, {"susp"})
  BY <1>1, <1>2, FieldNames DEF Same, IsK
<1>4. k1.state = k.state
  BY <1>3, FieldNames DEF Same
<1>5. CASE k1.susp[u] > 0
  <2>1. k' = exit_sched(k1)
    BY <1>2, <1>5 DEF krhino_task_resume
  <2>2. /\ IsK(k1) /\ SameObjects(k1, k) /\ k1.state = k.state
        /\ k1.blkobj = k.blkobj /\ k1.blkst = k.blkst /\ k1.wait = k.wait /\ k1.pc = k.pc
        /\ k1.active = k.active /\ k1.intr = k.intr
    BY <1>3, FieldNames DEF Same, SameObjects
  <2>3. k1.state = [k.state EXCEPT ![u] = k.state[u]]
    BY <1>1, <1>4
  <2> QED
    BY <1>1, <2>1, <2>2, <2>3, FlipExit
<1>6. CASE ~ (k1.susp[u] > 0) /\ k.state[u] = "SUSPENDED"
  <2>1. PICK s : s = [k1 EXCEPT !.state[u] = "RDY"]
    OBVIOUS
  <2>2. PICK q : q = ready_list_add(s, u)
    OBVIOUS
  <2>3. Same(s, k1, {"state"}) /\ s.state = [k.state EXCEPT ![u] = "RDY"]
    BY <1>3, <1>4, <2>1, FieldNames DEF Same, IsK
  <2>4. Same(q, s, {"rdy", "hi"})
    BY <2>2, <2>3, FieldNames
       DEF Same, IsK, ready_list_add, ready_list_add_tail, ready_list_add_head, ready_list_init
  <2>5. /\ IsK(q) /\ SameObjects(q, k) /\ q.state = [k.state EXCEPT ![u] = "RDY"]
        /\ q.blkobj = k.blkobj /\ q.blkst = k.blkst /\ q.wait = k.wait /\ q.pc = k.pc
        /\ q.active = k.active /\ q.intr = k.intr
    BY <1>3, <2>3, <2>4, FieldNames DEF Same, SameObjects
  <2>6. k' = exit_sched(q)
    BY <1>2, <1>6, <2>1, <2>2 DEF krhino_task_resume
  <2> QED
    BY <1>1, <1>6, <2>5, <2>6, FlipExit
<1>7. CASE ~ (k1.susp[u] > 0) /\ k.state[u] # "SUSPENDED"
  <2>1. PICK v : v = IF k.state[u] = "SLEEP_SUSPENDED" THEN "SLEEP" ELSE "PEND"
    OBVIOUS
  <2>2. PICK q : q = [k1 EXCEPT !.state[u] = v]
    OBVIOUS
  <2>3. Same(q, k1, {"state"}) /\ q.state = [k.state EXCEPT ![u] = v]
    BY <1>3, <1>4, <2>2, FieldNames DEF Same, IsK
  <2>4. /\ IsK(q) /\ SameObjects(q, k)
        /\ q.blkobj = k.blkobj /\ q.blkst = k.blkst /\ q.wait = k.wait /\ q.pc = k.pc
        /\ q.active = k.active /\ q.intr = k.intr
    BY <1>3, <2>3, FieldNames DEF Same, SameObjects
  <2>5. k' = exit_sched(q)
    <3>1. CASE k.state[u] = "SLEEP_SUSPENDED"
      BY <1>2, <1>7, <2>1, <2>2, <3>1 DEF krhino_task_resume
    <3>2. CASE k.state[u] = "PEND_SUSPENDED"
      BY <1>2, <1>7, <2>1, <2>2, <3>2 DEF krhino_task_resume
    <3> QED
      BY <1>1, <1>7, <3>1, <3>2
  <2> QED
    BY <1>1, <1>7, <2>1, <2>3, <2>4, <2>5, FlipExit
<1> QED
  BY <1>5, <1>6, <1>7

\* krhino_task_wait_abort: the wait ends without the object.
LEMMA SyncAbort ==
  ASSUME Good(k), Calling(k), NEW t \in Task, NEW u \in Task, krhino_task_wait_abort(t, u)
  PROVE  SyncStep /\ Calling(k')
<1>0. /\ Sys(k) /\ Core(k) /\ IsK(k) /\ u \in All /\ k.state \in [All -> TaskState]
      /\ Chains(k) /\ FromHere
  BY AllTypes, SyncCaller DEF Good, Sys, All, Owns, Chains, krhino_task_wait_abort
<1>1. PICK off : off = tick_list_rm(k, u)
  OBVIOUS
<1>2. CASE k.state[u] = "RDY" /\ k' = exit_sched(k)
  <2>1. k.state = [k.state EXCEPT ![u] = k.state[u]] /\ SameObjects(k, k)
    BY <1>0 DEF SameObjects
  <2> QED
    BY <1>0, <1>2, <2>1, FlipExit
<1>3. CASE /\ k.state[u] = "SUSPENDED"
           /\ k' = exit_sched(ready_list_add([k EXCEPT !.state[u] = "RDY"], u))
  <2>1. PICK s : s = [k EXCEPT !.state[u] = "RDY"]
    OBVIOUS
  <2>2. PICK q : q = ready_list_add(s, u)
    OBVIOUS
  <2>3. Same(s, k, {"state"}) /\ s.state = [k.state EXCEPT ![u] = "RDY"]
    BY <1>0, <2>1, FieldNames DEF Same, IsK
  <2>4. Same(q, s, {"rdy", "hi"})
    BY <2>2, <2>3, FieldNames
       DEF Same, IsK, ready_list_add, ready_list_add_tail, ready_list_add_head, ready_list_init
  <2>5. /\ IsK(q) /\ SameObjects(q, k) /\ q.state = [k.state EXCEPT ![u] = "RDY"]
        /\ q.blkobj = k.blkobj /\ q.blkst = k.blkst /\ q.wait = k.wait /\ q.pc = k.pc
        /\ q.active = k.active /\ q.intr = k.intr
    BY <2>3, <2>4, FieldNames DEF Same, SameObjects
  <2>6. k' = exit_sched(q)
    BY <1>3, <2>1, <2>2
  <2> QED
    BY <1>0, <1>3, <2>5, <2>6, FlipExit
<1>4. ASSUME NEW q, Calm(q, k), Same(q, k, EndFields), q.blkst[u] = "ABORT",
             \A x \in All \ {u} : x \in Blocked(k) => x \in Blocked(q), k' = exit_sched(q)
      PROVE  SyncStep /\ Calling(k')
  <2>1. /\ q.pc = k.pc /\ q.wait = k.wait /\ q.active = k.active /\ q.intr = k.intr
        /\ SameObjects(q, k)
    BY <1>4, FieldNames DEF Same, EndFields, WakeFields, PriFields, SameObjects
  <2>2. Ended(k', k) /\ Calling(k') /\ SameObjects(k', q) /\ k'.blkst = q.blkst
        /\ Blocked(k') = Blocked(q)
    BY <1>0, <1>4, <2>1, CalmExit
  <2>3. \A x \in Left(k', k) : x \in Blocked(k) /\ x \notin Blocked(q) /\ x \in All
    BY <1>0, <2>2, WaitsValue DEF Left
  <2>4. \A x \in Left(k', k) : k'.blkst[x] # "FINISH"
    BY <1>4, <2>2, <2>3
  <2> QED
    BY <2>1, <2>2, <2>4, GivesUp DEF SameObjects
<1>5. CASE /\ k.state[u] \in {"SLEEP", "SLEEP_SUSPENDED"}
           /\ k' = exit_sched([ready_list_add(off, u) EXCEPT
                                    !.state[u] = "RDY", !.blkst[u] = "ABORT"])
  <2>1. u \notin Blocked(k)
    BY <1>5 DEF Blocked
  <2>2. PICK z : z = ready_list_add(off, u)
    OBVIOUS
  <2>3. PICK s : s = [z EXCEPT !.state[u] = "RDY", !.blkst[u] = "ABORT"]
    OBVIOUS
  <2>4. IsK(z)
    <3>1. Lists(off, Ready(k), Blocked(k), ToSet(k.tickl) \ {u})
      BY <1>0, <1>1, ListsTickRm DEF Core
    <3>2. u \notin Ready(k)
      BY <1>5 DEF Ready
    <3> QED
      BY <1>0, <2>2, <3>1, <3>2, ListsReadyAdd DEF Same
  <2>5. /\ Same(s, z, {"state", "blkst"}) /\ s.state = [z.state EXCEPT ![u] = "RDY"]
        /\ s.blkst = [z.blkst EXCEPT ![u] = "ABORT"]
    BY ZenonT(30), <2>3, <2>4, FieldNames DEF Same, IsK
  <2>6. Aborted(s, k, u)
    BY <1>0, <1>1, <1>5, <2>1, <2>2, <2>5, AbortLists
  <2>7. Calm(s, k) /\ Same(s, k, EndFields)
    BY <1>5, <2>6, AbortSleep
  <2>8. /\ s.blkst[u] = "ABORT"
        /\ \A x \in All \ {u} : x \in Blocked(k) => x \in Blocked(s)
    BY <2>6 DEF Aborted, Kept, Blocked
  <2>9. k' = exit_sched(s)
    BY <1>5, <2>2, <2>3
  <2> QED
    BY <1>4, <2>7, <2>8, <2>9
<1>6. CASE /\ k.state[u] \in {"PEND", "PEND_SUSPENDED"}
           /\ k' = exit_sched([mutex_task_pri_reset(
                                 [ready_list_add(blk_list_rm(off, u), u) EXCEPT
                                    !.state[u] = "RDY", !.blkst[u] = "ABORT"], u)
                               EXCEPT !.blkobj[u] = NULL])
  <2>1. u \in Blocked(k)
    BY <1>0, <1>6 DEF Blocked
  <2>2. PICK y : y = blk_list_rm(off, u)
    OBVIOUS
  <2>3. PICK z : z = ready_list_add(y, u)
    OBVIOUS
  <2>4. PICK s : s = [z EXCEPT !.state[u] = "RDY", !.blkst[u] = "ABORT"]
    OBVIOUS
  <2>5. IsK(z)
    <3>1. Lists(off, Ready(k), Blocked(k), ToSet(k.tickl) \ {u})
      BY <1>0, <1>1, ListsTickRm DEF Core
    <3>2. Lists(y, Ready(k), Blocked(k) \ {u}, ToSet(k.tickl) \ {u})
      BY <2>1, <2>2, <3>1, ListsBlkRm
    <3>3. u \notin Ready(k)
      BY SMTT(30), <1>6 DEF Ready
    <3> QED
      BY <1>0, <2>3, <3>2, <3>3, ListsReadyAdd DEF Same
  <2>6. /\ Same(s, z, {"state", "blkst"}) /\ s.state = [z.state EXCEPT ![u] = "RDY"]
        /\ s.blkst = [z.blkst EXCEPT ![u] = "ABORT"]
    BY ZenonT(30), <2>4, <2>5, FieldNames DEF Same, IsK
  <2>7. Aborted(s, k, u)
    BY <1>0, <1>1, <1>6, <2>1, <2>2, <2>3, <2>6, AbortLists
  <2>8. PICK x : x = mutex_task_pri_reset(s, u)
    OBVIOUS
  <2>9. PICK q : q = [x EXCEPT !.blkobj[u] = NULL]
    OBVIOUS
  <2>10. Calm(q, k) /\ Same(q, k, EndFields) /\ q.state = s.state /\ q.blkst = s.blkst
    <3>1. WaitAborted(q, s, k)
      BY <1>0, <2>1, <2>7, <2>8, <2>9, AbortWait
    <3> QED
      BY <3>1 DEF WaitAborted
  <2>11. /\ q.blkst[u] = "ABORT"
         /\ \A w \in All \ {u} : w \in Blocked(k) => w \in Blocked(q)
    BY <2>7, <2>10 DEF Aborted, Kept, Blocked
  <2>12. k' = exit_sched(q)
    BY <1>6, <2>2, <2>3, <2>4, <2>8, <2>9
  <2> QED
    BY <1>4, <2>10, <2>11, <2>12
<1> QED
  BY <1>1, <1>2, <1>3, <1>5, <1>6 DEF krhino_task_wait_abort

\* krhino_task_pri_change.
LEMMA SyncPriCheck ==
  ASSUME Good(k), Calling(k), NEW t \in Task, NEW u \in Task, NEW p \in NewPris,
         pri_change_check(t, u, p)
  PROVE  SyncStep /\ Calling(k')
<1>1. t \in All /\ IsK(k) /\ k.pc \in [All -> PC] /\ k.pc[t] = "user"
  BY SyncCaller DEF pri_change_check
<1>2. /\ SameObjects(k', k) /\ k'.state = k.state /\ k'.blkobj = k.blkobj
      /\ k'.blkst = k.blkst /\ k'.wait = k.wait /\ k'.pc = [k.pc EXCEPT ![t] = "prichg"]
  BY <1>1, FieldNames DEF IsK, pri_change_check, SameObjects
<1>3. PcMoves(k', k)
  BY <1>1, <1>2 DEF PcMoves, Outside, All
<1> QED
  BY <1>2, <1>3, SyncQuiet DEF SameTasks

\* krhino_task_pri_change, continued.
LEMMA SyncPriSet ==
  ASSUME Good(k), Calling(k), NEW t \in Task, pri_change_set(t)
  PROVE  SyncStep /\ Calling(k')
<1>1. /\ t \in All /\ k.pc \in [All -> PC] /\ k.pc[t] = "prichg"
  BY AllTypes DEF Good, All, pri_change_set
<1>2. PriSet(k', k, t)
  BY PriChangeFields
<1>3. PICK v \in {"user", "sched"} : /\ Same(k', k, PriFields \cup {"bprio", "arg", "pc"})
                                     /\ k'.pc = [k.pc EXCEPT ![t] = v]
  BY <1>2 DEF PriSet
<1>4. /\ SameObjects(k', k) /\ k'.state = k.state /\ k'.blkobj = k.blkobj
      /\ k'.blkst = k.blkst /\ k'.wait = k.wait
  BY <1>3, FieldNames DEF Same, PriFields, SameObjects
<1>5. PcMoves(k', k)
  BY <1>1, <1>3 DEF PcMoves, Outside, All
<1> QED
  BY <1>4, <1>5, SyncQuiet DEF SameTasks

\* krhino_task_create.
LEMMA SyncCreateTask ==
  ASSUME Good(k), Calling(k), NEW t \in Task, NEW u \in Task, NEW p \in NewPris,
         NEW autorun \in BOOLEAN, krhino_task_create(t, u, p, autorun)
  PROVE  SyncStep /\ Calling(k')
<1>0. /\ u \in All /\ u # t /\ k.state[u] = "DELETED" /\ k.pc \in [All -> PC] /\ FromHere
      /\ k.state \in [All -> TaskState] /\ IsK(k) /\ k.wait \in [All -> Obj \cup {NULL}]
      /\ k.blkobj \in [All -> Obj \cup {NULL}] /\ k.blkst \in [All -> BlkState]
      /\ k.active = t /\ k.active \in All /\ k.pc[t] = "user"
  BY AllTypes, SyncCaller DEF Good, All, krhino_task_create
<1>1. PICK st, n : /\ st = IF autorun THEN "RDY" ELSE "SUSPENDED"
                   /\ n = IF autorun THEN 0 ELSE 1
  OBVIOUS
<1>2. PICK s : s = [k EXCEPT
               !.prio = [k.prio EXCEPT ![u] = p], !.bprio = [k.bprio EXCEPT ![u] = p],
               !.state = [k.state EXCEPT ![u] = st], !.susp = [k.susp EXCEPT ![u] = n],
               !.blkst = [k.blkst EXCEPT ![u] = "FINISH"],
               !.blkobj = [k.blkobj EXCEPT ![u] = NULL], !.tick = [k.tick EXCEPT ![u] = 0],
               !.mlist = [k.mlist EXCEPT ![u] = <<>>], !.policy = [k.policy EXCEPT ![u] = "RR"],
               !.slice = [k.slice EXCEPT ![u] = Slice], !.total = [k.total EXCEPT ![u] = Slice],
               !.msg = [k.msg EXCEPT ![u] = NULL], !.want = [k.want EXCEPT ![u] = NULL],
               !.actl = [k.actl EXCEPT ![u] = {}], !.pc = [k.pc EXCEPT ![u] = "user"],
               !.wait = [k.wait EXCEPT ![u] = NULL], !.arg = [k.arg EXCEPT ![u] = NULL]]
  OBVIOUS
<1>3. k' = IF autorun THEN exit_sched(ready_list_add_tail(s, u)) ELSE s
  BY <1>1, <1>2 DEF krhino_task_create
<1>4. /\ IsK(s) /\ SameObjects(s, k) /\ s.active = k.active /\ s.intr = k.intr
      /\ s.state = [k.state EXCEPT ![u] = st] /\ s.blkst = [k.blkst EXCEPT ![u] = "FINISH"]
      /\ s.blkobj = [k.blkobj EXCEPT ![u] = NULL] /\ s.pc = [k.pc EXCEPT ![u] = "user"]
      /\ s.wait = [k.wait EXCEPT ![u] = NULL]
  BY <1>0, <1>2, FieldNames DEF IsK, SameObjects
<1>5. PICK q : q = IF autorun THEN ready_list_add_tail(s, u) ELSE s
  OBVIOUS
<1>6. Same(q, s, {"rdy", "hi"})
  <2>1. Same(s, s, {"rdy", "hi"})
    BY SMTT(30), <1>4 DEF Same
  <2>2. Same(ready_list_add_tail(s, u), s, {"rdy", "hi"})
    BY <1>4, FieldNames DEF Same, IsK, ready_list_add_tail, ready_list_init
  <2> QED
    BY <1>5, <2>1, <2>2
<1>7. /\ IsK(q) /\ SameObjects(q, s) /\ q.active = s.active /\ q.intr = s.intr
      /\ q.state = s.state /\ q.blkst = s.blkst /\ q.blkobj = s.blkobj /\ q.pc = s.pc
      /\ q.wait = s.wait
  BY <1>6, FieldNames DEF Same, SameObjects
<1>8. k' = q \/ k' = exit_sched(q)
  BY <1>3, <1>5
<1>9. SameTasks(k', q) /\ SameObjects(k', q)
  <2>1. q.active \in All /\ q.pc \in [All -> PC] /\ q.pc[q.active] = "user"
    BY <1>0, <1>4, <1>7 DEF PC
  <2> QED
    BY <1>7, <1>8, <2>1, ExitTasks
<1>10. /\ q.state[u] \in {"RDY", "SUSPENDED"} /\ q.blkobj[u] = NULL /\ q.pc[u] = "user"
       /\ q.wait[u] = NULL
       /\ \A x \in Task \ {u} : /\ q.state[x] = k.state[x] /\ q.blkobj[x] = k.blkobj[x]
                                /\ q.pc[x] = k.pc[x] /\ q.wait[x] = k.wait[x]
                                /\ q.blkst[x] = k.blkst[x]
  BY <1>0, <1>1, <1>4, <1>7 DEF All
<1>11. Calling(q)
  BY <1>10 DEF Calling, Blocked, All
<1>12. Existing(q) = Existing(k) \cup {u} /\ u \notin Existing(k)
  BY <1>0, <1>10 DEF Existing
<1>13. WaitsFor(q, SyncObj) = WaitsFor(k, SyncObj)
  <2>1. \A x \in Task \ {u} : WaitsFor(q, SyncObj)[x] = WaitsFor(k, SyncObj)[x]
    BY <1>10 DEF WaitsFor
  <2>2. WaitsFor(q, SyncObj)[u] = NULL /\ WaitsFor(k, SyncObj)[u] = NULL
    BY <1>0, <1>10 DEF WaitsFor
  <2>3. \A r : WaitsFor(r, SyncObj) = [x \in Task |-> WaitsFor(r, SyncObj)[x]]
    BY DEF WaitsFor
  <2> QED
    BY <2>1, <2>2, <2>3
<1>14. GrantedOf(q, SyncObj) = GrantedOf(k, SyncObj)
  <2>1. \A x \in Task \ {u} : GrantedOf(q, SyncObj)[x] = GrantedOf(k, SyncObj)[x]
    BY <1>10 DEF GrantedOf
  <2>2. GrantedOf(q, SyncObj)[u] = NULL /\ GrantedOf(k, SyncObj)[u] = NULL
    BY <1>0, <1>10 DEF GrantedOf
  <2>3. \A r : GrantedOf(r, SyncObj) = [x \in Task |-> GrantedOf(r, SyncObj)[x]]
    BY DEF GrantedOf
  <2> QED
    BY <2>1, <2>2, <2>3
<1>15. Alike(k', q) /\ Calling(k')
  BY <1>9, <1>11, Unseen
<1>16. LiveOf(k', SyncObj) = LiveOf(k, SyncObj)
  BY <1>4, <1>7, <1>9 DEF LiveOf, SameObjects
<1>17. Sync!Spawn(u)
  BY <1>4, <1>7, <1>9, <1>12, <1>13, <1>14, <1>15, <1>16
     DEF Sync!Spawn, Alike, SameObjects, SyncObj
<1> QED
  BY <1>15, <1>17 DEF SyncStep, Sync!SNext

-----------------------------------------------------------------------------
\* The deletion of a task.

\* in q somebody who waited for mutex m in r has inherited it, if anybody did
Inherited(q, r, m) ==
    IF q.owner[m] = NULL THEN \A x \in Blocked(r) : r.blkobj[x] # m
    ELSE /\ q.owner[m] \in Blocked(r) /\ r.blkobj[q.owner[m]] = m
         /\ q.owner[m] \notin Blocked(q)

\* x has been served with one of the mutexes on l
ServedOf(q, l, x) == q.blkst[x] = "FINISH" /\ \E m \in l : q.owner[m] = x

\* the first n elements of a list
FirstOf(l, n) == {l[i] : i \in 1..n}

\* the mutexes of L have been inherited, and nobody else was served
Heirs(q, r, L) ==
    /\ \A m \in Mutex \ L : q.owner[m] = r.owner[m]
    /\ \A m \in L : Inherited(q, r, m)
    /\ \A x \in Blocked(r) : x \in Blocked(q) \/ ServedOf(q, L, x)

\* the loop of task_mutex_free once more
HeirInv(c, q, n) == FreeInv(c, q, n) /\ Heirs(q, c[1], FirstOf(c[2], n))

H == INSTANCE LoopTheorems WITH Step <- FreeStep, Inv <- HeirInv

\* A mutex nobody waits for is inherited by nobody.
LEMMA HeirNobody ==
  ASSUME NEW r, NEW q, Core(q), Calm(q, r), NEW L \in SUBSET Mutex, Heirs(q, r, L),
         NEW m \in Mutex \ L, q.blk[m] = <<>>, NEW s, s = mutex_free_one(q, m)
  PROVE  Heirs(s, r, L \cup {m})
<1>0. IsK(q) /\ q.owner \in [Mutex -> Task \cup {NULL}] /\ NULL \notin All
  BY CoreAssumption DEF Core, Lists, Typed, All
<1>1. s = [q EXCEPT !.owner[m] = NULL]
  BY DEF mutex_free_one
<1>2. /\ s.owner = [q.owner EXCEPT ![m] = NULL] /\ s.state = q.state /\ s.blkst = q.blkst
  BY <1>0, <1>1, FieldNames DEF IsK
<1>3. s.owner[m] = NULL /\ \A x \in Mutex \ {m} : s.owner[x] = q.owner[x]
  BY <1>0, <1>2
<1>4. Blocked(s) = Blocked(q)
  BY <1>2 DEF Blocked
<1>5. \A t \in Blocked(q) : q.blkobj[t] # m
  <2>1. ToSet(q.blk[m]) = {t \in Blocked(q) : q.blkobj[t] = m} /\ q.blk[m] \in Seq(Task)
    BY SMTT(30) DEF Core, Lists, Blk, Obj
  <2>2. ToSet(q.blk[m]) = {}
    BY <2>1, ToSetDef
  <2> QED
    BY <2>1, <2>2
<1>6. \A x \in Blocked(r) : r.blkobj[x] # m
  <2> SUFFICES ASSUME NEW x \in Blocked(r), r.blkobj[x] = m
               PROVE  FALSE
    OBVIOUS
  <2>1. x \in All
    BY DEF Blocked
  <2>2. CASE x \in Blocked(q)
    <3>1. q.blkobj[x] = r.blkobj[x]
      BY <2>1, <2>2 DEF Calm, Kept, Freed, Blocked
    <3> QED
      BY <1>5, <2>2, <3>1
  <2>3. CASE ServedOf(q, L, x)
    <3>1. PICK y \in L : q.owner[y] = x
      BY <2>3 DEF ServedOf
    <3>2. Inherited(q, r, y)
      BY DEF Heirs
    <3>3. r.blkobj[x] = y
      BY <1>0, <2>1, <3>1, <3>2 DEF Inherited
    <3> QED
      BY <3>3
  <2> QED
    BY <2>2, <2>3 DEF Heirs
<1>7. Inherited(s, r, m)
  BY <1>3, <1>6 DEF Inherited
<1>8. \A y \in L : Inherited(s, r, y)
  BY <1>3, <1>4 DEF Inherited, Heirs
<1>9. \A x \in Blocked(r) : x \in Blocked(s) \/ ServedOf(s, L \cup {m}, x)
  BY <1>2, <1>3, <1>4 DEF Heirs, ServedOf
<1>10. \A y \in Mutex \ (L \cup {m}) : s.owner[y] = r.owner[y]
  BY <1>3 DEF Heirs
<1> QED
  BY <1>7, <1>8, <1>9, <1>10 DEF Heirs

\* A mutex somebody waits for is inherited by the first of them.
LEMMA HeirFirst ==
  ASSUME NEW r, NEW q, Core(q), Calm(q, r), NEW L \in SUBSET Mutex, Heirs(q, r, L),
         NEW m \in Mutex \ L, q.blk[m] # <<>>, NEW s, s = mutex_free_one(q, m)
  PROVE  Heirs(s, r, L \cup {m})
<1>0. IsK(q) /\ q.owner \in [Mutex -> Task \cup {NULL}] /\ NULL \notin All
  BY CoreAssumption DEF Core, Lists, Typed, All
<1>1. PICK t : t = Head(q.blk[m])
  OBVIOUS
<1>2. t \in Blocked(q) /\ q.blkobj[t] = m /\ t \in Task /\ t \in All
  BY <1>1, FirstWaiter DEF Obj
<1>3. PICK w : w = pend_task_wakeup(q, t)
  OBVIOUS
<1>4. Wakes(w, q, t)
  BY <1>2, <1>3, WakeUp
<1>5. /\ \A x \in All : x \in Blocked(w) <=> x \in Blocked(q) /\ x # t
      /\ w.blkst[t] = "FINISH" /\ \A x \in All \ {t} : w.blkst[x] = q.blkst[x]
      /\ IsK(w) /\ Same(w, q, WakeFields)
  BY <1>4 DEF Wakes
<1>6. w.owner = q.owner
  BY <1>5, FieldNames DEF Same, WakeFields
<1>7. s = [w EXCEPT !.owner[m] = t, !.mlist[t] = <<m>> \o @]
  BY <1>1, <1>3 DEF mutex_free_one, mutex_to_task
<1>8. /\ s.owner = [q.owner EXCEPT ![m] = t] /\ s.state = w.state /\ s.blkst = w.blkst
  BY <1>5, <1>6, <1>7, FieldNames DEF IsK
<1>9. s.owner[m] = t /\ \A x \in Mutex \ {m} : s.owner[x] = q.owner[x]
  BY <1>0, <1>8
<1>10. \A x \in All : x \in Blocked(s) <=> x \in Blocked(q) /\ x # t
  BY <1>5, <1>8 DEF Blocked
<1>11. t \in Blocked(r) /\ r.blkobj[t] = m
  BY <1>2 DEF Calm, Kept, Freed, Blocked
<1>12. Inherited(s, r, m)
  BY <1>0, <1>2, <1>9, <1>10, <1>11 DEF Inherited
<1>13. \A y \in L : Inherited(s, r, y)
  <2>1. \A y \in L : Inherited(q, r, y) /\ s.owner[y] = q.owner[y]
    BY <1>9 DEF Heirs
  <2>2. \A x \in Blocked(r) : x \in All
    BY DEF Blocked
  <2> QED
    BY <1>10, <2>1, <2>2 DEF Inherited
<1>14. \A x \in Blocked(r) : x \in Blocked(s) \/ ServedOf(s, L \cup {m}, x)
  <2> SUFFICES ASSUME NEW x \in Blocked(r), x \notin Blocked(s)
               PROVE  ServedOf(s, L \cup {m}, x)
    OBVIOUS
  <2>1. x \in All
    BY DEF Blocked
  <2>2. CASE x = t
    BY <1>5, <1>8, <1>9, <2>2 DEF ServedOf
  <2>3. CASE x # t
    <3>1. ServedOf(q, L, x)
      BY <1>10, <2>1, <2>3 DEF Heirs
    <3> QED
      BY <1>5, <1>8, <1>9, <2>1, <2>3, <3>1 DEF ServedOf
  <2> QED
    BY <2>2, <2>3
<1>15. \A y \in Mutex \ (L \cup {m}) : s.owner[y] = r.owner[y]
  BY <1>9 DEF Heirs
<1> QED
  BY <1>12, <1>13, <1>14, <1>15 DEF Heirs

\* what task_mutex_free does with the mutexes of task u, in the terms of RhinoSync
HandsOver(q, r, u) ==
    /\ MutexesFreed(q, r, u) /\ Calm(q, r) /\ Heirs(q, r, ToSet(r.mlist[u]))

\* task_mutex_free hands the mutexes of the task over to those who wait.
LEMMA TaskMutexHeirs ==
  ASSUME NEW r, Sys(r), NEW u \in Task, r.state[u] # "DELETED", NEW q, q = task_mutex_free(r, u)
  PROVE  HandsOver(q, r, u)
<1>0. /\ Core(r) /\ IsK(r) /\ u \in All /\ r.mlist \in [All -> Seq(Mutex)]
      /\ Owns(r.mlist, r.live, r.owner, r.nested, r.state)
  BY AllTypes DEF Sys, All
<1>1. PICK l : l = r.mlist[u]
  OBVIOUS
<1>2. l \in Seq(Mutex) /\ IsInjective(l) /\ \A m \in ToSet(l) : r.live[m] /\ r.owner[m] = u
  BY <1>0, <1>1 DEF Owns
<1>3. PICK c : c = <<r, l, u>>
  OBVIOUS
<1>4. c[1] = r /\ c[2] = l /\ c[3] = u
  BY <1>3
<1>5. HeirInv(c, r, 0)
  <2>1. FreeInv(c, r, 0)
    BY <1>1, <1>4, FreeStart
  <2>2. FirstOf(l, 0) = {}
    BY DEF FirstOf
  <2> QED
    BY <1>4, <2>1, <2>2 DEF HeirInv, Heirs
<1>6. \A n \in 0..(Len(l) - 1) : \A x : HeirInv(c, x, n) => HeirInv(c, FreeStep(c, x, l[n + 1]), n + 1)
  <2>1. SUFFICES ASSUME NEW n \in 0..(Len(l) - 1), NEW x, HeirInv(c, x, n)
                 PROVE  HeirInv(c, FreeStep(c, x, l[n + 1]), n + 1)
    OBVIOUS
  <2>2. PICK m : m = l[n + 1]
    OBVIOUS
  <2>3. r.live[m] /\ m \in Mutex
    <3>1. n + 1 \in 1..Len(l)
      BY <1>2
    <3> QED
      BY <1>2, <2>2, <3>1, ToSetDef
  <2>4. PICK y : y = FreeStep(c, x, m)
    OBVIOUS
  <2>5. FreeInv(c, x, n)
    BY <2>1 DEF HeirInv
  <2>6. FreeInv(c, y, n + 1)
    <3>1. CASE x.blk[m] = <<>>
      BY <1>2, <1>4, <2>2, <2>4, <2>5, <3>1, FreeNobody
    <3>2. CASE x.blk[m] # <<>>
      BY <1>2, <1>4, <2>2, <2>3, <2>4, <2>5, <3>2, FreeFirst
    <3> QED
      BY <3>1, <3>2
  <2>7. Calm(x, r) /\ Core(x)
    BY <1>4, <2>5 DEF FreeInv, Calm
  <2>8. FirstOf(l, n) \in SUBSET Mutex /\ m \notin FirstOf(l, n)
        /\ FirstOf(l, n + 1) = FirstOf(l, n) \cup {m}
    <3>1. \A i \in 1..n : i \in 1..Len(l) /\ i # n + 1 /\ n + 1 \in 1..Len(l)
      BY <1>2
    <3>2. \A i \in 1..n : l[i] \in Mutex /\ l[i] # m
      BY <1>2, <2>2, <3>1 DEF IsInjective
    <3>3. 1..(n + 1) = (1..n) \cup {n + 1}
      OBVIOUS
    <3> QED
      BY <2>2, <3>2, <3>3 DEF FirstOf
  <2>9. Heirs(x, r, FirstOf(l, n))
    BY <1>4, <2>1 DEF HeirInv
  <2>10. y = mutex_free_one(x, m)
    BY <2>4 DEF FreeStep
  <2>11. Heirs(y, r, FirstOf(l, n + 1))
    <3>1. PICK L : L = FirstOf(l, n)
      OBVIOUS
    <3>2. Heirs(y, r, L \cup {m})
      BY <2>3, <2>7, <2>8, <2>9, <2>10, <3>1, HeirNobody, HeirFirst
    <3> QED
      BY <2>8, <3>1, <3>2
  <2> QED
    BY <1>4, <2>2, <2>4, <2>6, <2>11 DEF HeirInv
<1>7. PICK w : w = H!Walk(c, r, l)
  OBVIOUS
<1>8. HeirInv(c, w, Len(l))
  BY <1>2, <1>5, <1>6, <1>7, H!WalkInduction
<1>9. q = [w EXCEPT !.mlist[u] = <<>>]
  <2>1. H!Walk(c, r, l) = FoldLeft(mutex_free_one, r, l)
    BY DEF FreeStep, H!Walk, FoldLeft, MapThenFoldSet, Max, H!FoldLeft, H!MapThenFoldSet, H!Max
  <2> QED
    BY <1>1, <1>7, <2>1 DEF task_mutex_free
<1>10. Calm(w, r) /\ IsK(w) /\ Heirs(w, r, FirstOf(l, Len(l)))
  BY <1>4, <1>8 DEF HeirInv, FreeInv, Calm, Core, Lists, Typed
<1>11. /\ q.state = w.state /\ q.owner = w.owner /\ q.blkst = w.blkst /\ q.blkobj = w.blkobj
       /\ q.tick = w.tick /\ q.tickl = w.tickl
  BY <1>9, <1>10, FieldNames DEF IsK
<1>12. FirstOf(l, Len(l)) = ToSet(l)
  BY <1>2, ToSetDef DEF FirstOf
<1>13. Heirs(q, r, ToSet(l))
  <2>1. Heirs(w, r, ToSet(l)) /\ Blocked(q) = Blocked(w)
    BY <1>10, <1>11, <1>12 DEF Blocked
  <2> QED
    BY <1>11, <2>1 DEF Heirs, Inherited, ServedOf
<1>14. MutexesFreed(q, r, u)
  BY TaskMutexFree
<1>15. Calm(q, r)
  <2>1. Core(q)
    BY <1>14 DEF MutexesFreed, Sys
  <2> QED
    BY <1>10, <1>11, <2>1 DEF Calm, Kept, Freed
<1> QED
  BY <1>1, <1>13, <1>14, <1>15 DEF HandsOver

\* Who waits for a mutex or a semaphore.
LEMMA WaitersOf ==
  ASSUME Good(k), NEW o \in SyncObj
  PROVE  Sync!Waiters(o) = {x \in Blocked(k) : k.blkobj[x] = o}
<1>1. Core(k) /\ NULL \notin SyncObj /\ Blocked(k) \in SUBSET Task
  BY CoreAssumption DEF Good, Sys, SyncObj, Obj, Core, Lists
<1>2. \A x \in Task : WaitsFor(k, SyncObj)[x] = o <=> x \in Blocked(k) /\ k.blkobj[x] = o
  BY <1>1, WaitsValue
<1> QED
  BY <1>1, <1>2 DEF Sync!Waiters, SyncObj

\* u is gone
LEMMA GoneSync ==
  ASSUME NEW f, Core(f), NEW u \in Task, NEW q, Gone(q, f, u), Calling(f)
  PROVE  /\ Existing(q) = Existing(f) \ {u}
         /\ WaitsFor(q, SyncObj) = [x \in Task |-> IF x = u THEN NULL ELSE WaitsFor(f, SyncObj)[x]]
         /\ GrantedOf(q, SyncObj) = [x \in Task |-> IF x = u THEN NULL
                                                    ELSE GrantedOf(f, SyncObj)[x]]
         /\ Calling(q) /\ SameObjects(q, f) /\ IsK(q)
         /\ q.pc = f.pc /\ q.active = f.active /\ q.intr = f.intr
<1>1. /\ q.state[u] = "DELETED" /\ q.blkst = f.blkst /\ Same(q, f, EndFields)
      /\ \A x \in Task \ {u} : q.state[x] = f.state[x] /\ q.blkobj[x] = f.blkobj[x]
  BY DEF Gone, Kept, All
<1>2. /\ q.pc = f.pc /\ q.active = f.active /\ q.intr = f.intr /\ q.wait = f.wait
      /\ SameObjects(q, f) /\ IsK(q)
  BY <1>1, FieldNames DEF Same, EndFields, WakeFields, PriFields, SameObjects
<1>3. Existing(q) = Existing(f) \ {u}
  BY <1>1 DEF Existing
<1>4. \A x \in Task : WaitsFor(q, SyncObj)[x] = IF x = u THEN NULL ELSE WaitsFor(f, SyncObj)[x]
  BY <1>1 DEF WaitsFor
<1>5. \A x \in Task : GrantedOf(q, SyncObj)[x] = IF x = u THEN NULL ELSE GrantedOf(f, SyncObj)[x]
  BY <1>1, <1>2 DEF GrantedOf
<1>6. \A r : /\ WaitsFor(r, SyncObj) = [x \in Task |-> WaitsFor(r, SyncObj)[x]]
             /\ GrantedOf(r, SyncObj) = [x \in Task |-> GrantedOf(r, SyncObj)[x]]
  BY DEF WaitsFor, GrantedOf
<1>7. Calling(q)
  BY <1>1, <1>2 DEF Calling, Blocked, All
<1> QED
  BY <1>1, <1>2, <1>3, <1>4, <1>5, <1>6, <1>7

\* krhino_task_del.
LEMMA SyncDelTask ==
  ASSUME Good(k), Calling(k), NEW t \in Task, NEW u \in Task, krhino_task_del(t, u)
  PROVE  SyncStep /\ Calling(k')
<1>0. /\ Sys(k) /\ Core(k) /\ u \in All /\ k.state[u] # "DELETED" /\ NULL \notin Task
      /\ k.active = t /\ t \in All /\ k.pc[t] = "user" /\ k.pc \in [All -> PC]
      /\ k.owner \in [Mutex -> Task \cup {NULL}] /\ k.mlist \in [All -> Seq(Mutex)]
  BY SyncCaller, AllTypes, CoreAssumption DEF Good, Sys, All, krhino_task_del
<1>1. PICK f : f = task_mutex_free(k, u)
  OBVIOUS
<1>2. HandsOver(f, k, u)
  BY <1>0, <1>1, TaskMutexHeirs
<1>3. /\ Sys(f) /\ Core(f) /\ Calm(f, k) /\ f.state[u] # "DELETED"
      /\ Same(f, k, EndFields \cup {"owner", "mlist"})
  BY <1>2 DEF HandsOver, MutexesFreed, Sys
<1>4. PICK q : Gone(q, f, u) /\ k' = exit_sched(q)
  BY <1>1, <1>3, TaskGone DEF EndsWithout
<1>5. /\ f.pc = k.pc /\ f.wait = k.wait /\ f.active = k.active /\ f.intr = k.intr
      /\ f.live = k.live /\ f.nested = k.nested /\ f.count = k.count
  BY <1>3, FieldNames DEF Same, EndFields, WakeFields, PriFields
<1>6. Ended(f, k) /\ Calling(f)
  BY <1>0, <1>3, <1>5, CalmEnds
<1>7. /\ Existing(q) = Existing(f) \ {u}
      /\ WaitsFor(q, SyncObj) = [x \in Task |-> IF x = u THEN NULL ELSE WaitsFor(f, SyncObj)[x]]
      /\ GrantedOf(q, SyncObj) = [x \in Task |-> IF x = u THEN NULL
                                                 ELSE GrantedOf(f, SyncObj)[x]]
      /\ Calling(q) /\ SameObjects(q, f) /\ IsK(q)
      /\ q.pc = f.pc /\ q.active = f.active /\ q.intr = f.intr
  BY <1>3, <1>4, <1>6, GoneSync
<1>8. Alike(k', q) /\ Calling(k') /\ SameObjects(k', q)
  <2>1. SameTasks(k', q) /\ SameObjects(k', q)
    BY <1>0, <1>4, <1>5, <1>7, ExitTasks
  <2> QED
    BY <1>7, <2>1, Unseen
<1>9. PICK L : L = ToSet(k.mlist[u])
  OBVIOUS
<1>10. L \in SUBSET Mutex /\ \A m \in Mutex : m \in L <=> k.live[m] /\ k.owner[m] = u
  <2>1. k.mlist[u] \in Seq(Mutex)
    BY <1>0
  <2>2. ToSet(k.mlist[u]) \in SUBSET Mutex
    BY <2>1, ToSetDef
  <2>3. Owns(k.mlist, k.live, k.owner, k.nested, k.state)
    BY <1>0 DEF Sys
  <2>4. \A m \in L : k.live[m] /\ k.owner[m] = u
    BY <1>0, <1>9, <2>3 DEF Owns
  <2>5. ASSUME NEW m \in Mutex, k.live[m], k.owner[m] = u
        PROVE  m \in L
    <3>1. k.owner[m] # NULL
      BY <1>0, <2>5
    <3> QED
      BY <1>9, <2>3, <2>5, <3>1 DEF Owns
  <2> QED
    BY <1>9, <2>2, <2>4, <2>5
<1>11. Heirs(f, k, L)
  BY <1>2, <1>9 DEF HandsOver
<1>12. PICK heir : heir = [m \in Mutex |-> IF m \in L THEN f.owner[m] ELSE NULL]
  OBVIOUS
<1>13. f.owner \in [Mutex -> Task \cup {NULL}] /\ heir \in [Mutex -> Task \cup {NULL}]
  <2>1. f.owner \in [Mutex -> Task \cup {NULL}]
    BY <1>3 DEF Core, Lists, Typed
  <2> QED
    BY <1>12, <2>1
<1>14. \A m \in L : /\ m \in SyncObj /\ heir[m] = f.owner[m] /\ Inherited(f, k, m)
  BY <1>10, <1>11, <1>12 DEF SyncObj, Heirs
<1>15. Left(f, k) = {heir[m] : m \in L} \ {NULL}
  <2>1. ASSUME NEW x \in Left(f, k)
        PROVE  x \in {heir[m] : m \in L} \ {NULL}
    <3>1. x \in Task /\ x \in Blocked(k) /\ x \notin Blocked(f)
      BY <1>0, <2>1, WaitsValue DEF Left
    <3>2. PICK m \in L : f.owner[m] = x
      BY <1>11, <3>1 DEF Heirs, ServedOf
    <3> QED
      BY <1>0, <1>14, <3>1, <3>2
  <2>2. ASSUME NEW m \in L, heir[m] # NULL
        PROVE  heir[m] \in Left(f, k)
    <3>1. heir[m] \in Blocked(k) /\ k.blkobj[heir[m]] = m /\ heir[m] \notin Blocked(f)
      BY <1>14, <2>2 DEF Inherited
    <3>2. heir[m] \in Task
      BY <1>10, <1>13, <2>2
    <3> QED
      BY <1>0, <1>14, <3>1, <3>2, WaitsValue DEF Left
  <2> QED
    BY <2>1, <2>2
<1>16. \A x \in Left(f, k) : f.blkst[x] = "FINISH"
  <2>1. \A x \in Left(f, k) : x \in Blocked(k) /\ x \notin Blocked(f)
    BY <1>0, WaitsValue DEF Left
  <2> QED
    BY <1>11, <2>1 DEF Heirs, ServedOf
<1>17. PICK W : W = {heir[m] : m \in L} \ {NULL}
  OBVIOUS
<1>18. /\ Existing(k') = Existing(k) \ {u}
       /\ WaitsFor(k', SyncObj) = [x \in Task |-> IF x = u \/ x \in W THEN NULL
                                                  ELSE WaitsFor(k, SyncObj)[x]]
       /\ GrantedOf(k', SyncObj) = [x \in Task |-> IF x = u THEN NULL
                                                   ELSE IF x \in W THEN WaitsFor(k, SyncObj)[x]
                                                   ELSE GrantedOf(k, SyncObj)[x]]
  BY <1>6, <1>7, <1>8, <1>15, <1>16, <1>17 DEF Ended, Alike
<1>19. {m \in LiveOf(k, SyncObj) \cap Mutex : k.owner[m] = u} = L
  BY <1>10 DEF LiveOf, SyncObj
<1>20. \A m \in L : IF Sync!Waiters(m) = {} THEN heir[m] = NULL ELSE heir[m] \in Sync!Waiters(m)
  <2> SUFFICES ASSUME NEW m \in L
               PROVE  IF Sync!Waiters(m) = {} THEN heir[m] = NULL ELSE heir[m] \in Sync!Waiters(m)
    OBVIOUS
  <2>1. Sync!Waiters(m) = {x \in Blocked(k) : k.blkobj[x] = m}
    BY <1>14, WaitersOf
  <2> QED
    BY <1>14, <2>1 DEF Inherited
<1>21. k'.owner = [m \in Mutex |-> IF m \in L THEN heir[m] ELSE k.owner[m]]
  <2>1. k'.owner = f.owner
    BY <1>7, <1>8 DEF SameObjects
  <2>2. \A m \in Mutex \ L : f.owner[m] = k.owner[m]
    BY <1>11 DEF Heirs
  <2> QED
    BY <1>13, <1>14, <2>1, <2>2
<1>22. /\ LiveOf(k', SyncObj) = LiveOf(k, SyncObj) /\ k'.nested = k.nested
       /\ k'.count = k.count
  BY <1>5, <1>7, <1>8 DEF LiveOf, SameObjects
<1>23. u \in Existing(k)
  BY <1>0 DEF Existing
<1>24. Sync!Exit(u, heir)
  BY <1>17, <1>18, <1>19, <1>20, <1>21, <1>22, <1>23 DEF Sync!Exit, SyncObj
<1> QED
  BY <1>8, <1>13, <1>24 DEF SyncStep, Sync!SNext

-----------------------------------------------------------------------------
\* The services on mutexes.

\* Some tasks were woken in w; the service then changes what the tasks do not see.
LEMMA WokenExit ==
  ASSUME Good(k), Calling(k), FromHere, NEW w, Calm(w, k), w.pc = k.pc, w.wait = k.wait,
         NEW q, IsK(q), SameTasks(q, w), q.pc = k.pc, q.active = k.active, q.intr = k.intr,
         k' = q \/ k' = exit_sched(q)
  PROVE  /\ Ended(k', k) /\ Calling(k') /\ SameObjects(k', q)
         /\ k'.blkst = w.blkst /\ Blocked(k') = Blocked(w)
<1>1. Ended(w, k) /\ Calling(w)
  BY CalmEnds DEF Good, Sys
<1>2. SameTasks(k', q) /\ SameObjects(k', q)
  <2>1. k.active \in All /\ k.pc \in [All -> PC]
    BY AllTypes DEF Good
  <2> QED
    BY <2>1, ExitTasks DEF FromHere
<1>3. Alike(q, w) /\ Calling(q)
  BY <1>1, Unseen
<1>4. Alike(k', q) /\ Calling(k')
  BY <1>2, <1>3, Unseen
<1>5. Alike(k', w)
  BY <1>3, <1>4, AlikeTrans
<1>6. k'.state = w.state /\ k'.blkst = w.blkst
  BY <1>2 DEF SameTasks
<1>7. Ended(k', k)
  BY <1>1, <1>5, <1>6, EndedAlike
<1> QED
  BY <1>2, <1>4, <1>6, <1>7 DEF Blocked

\* Only tasks that waited for something else were woken.
LEMMA Elsewhere ==
  ASSUME Good(k), Calling(k), FromHere, NEW w, Calm(w, k), w.pc = k.pc, w.wait = k.wait,
         w.active = k.active, w.intr = k.intr, SameObjects(w, k),
         \A x \in Blocked(k) \ Blocked(w) : k.blkobj[x] \notin SyncObj,
         k' = w \/ k' = exit_sched(w)
  PROVE  SyncStep /\ Calling(k')
<1>1. Ended(k', k) /\ Calling(k') /\ SameObjects(k', w) /\ Blocked(k') = Blocked(w)
  BY CalmExit
<1>2. Left(k', k) = {}
  <2>1. Core(k)
    BY DEF Good, Sys
  <2> QED
    BY <1>1, <2>1, WaitsValue DEF Left
<1> QED
  BY <1>1, <1>2, GivesUp DEF SameObjects

\* Only the objects change.
LEMMA ObjectStep ==
  ASSUME Good(k), Calling(k), k'.state = k.state, k'.blkobj = k.blkobj, k'.blkst = k.blkst,
         k'.wait = k.wait, k'.pc = k.pc
  PROVE  Alike(k', k) /\ Calling(k')
BY Unseen DEF SameTasks, PcMoves

\* krhino_mutex_create.
LEMMA SyncMutexCreate ==
  ASSUME Good(k), Calling(k), NEW t \in Task, NEW m \in Mutex, krhino_mutex_create(t, m)
  PROVE  SyncStep /\ Calling(k')
<1>1. /\ IsK(k) /\ ~ k.live[m] /\ k.live \in [Obj -> BOOLEAN] /\ m \in Obj /\ m \in SyncObj
      /\ \A u \in Task : k.wait[u] # m
  BY AllTypes, Kinds DEF Good, krhino_mutex_create, SyncObj
<1>2. /\ k'.state = k.state /\ k'.blkobj = k.blkobj /\ k'.blkst = k.blkst /\ k'.wait = k.wait
      /\ k'.pc = k.pc /\ k'.live = [k.live EXCEPT ![m] = TRUE]
      /\ k'.owner = [k.owner EXCEPT ![m] = NULL] /\ k'.nested = k.nested /\ k'.count = k.count
  BY <1>1, FieldNames DEF IsK, krhino_mutex_create
<1>3. Alike(k', k) /\ Calling(k')
  BY <1>2, ObjectStep
<1>4. LiveOf(k', SyncObj) = LiveOf(k, SyncObj) \cup {m} /\ m \notin LiveOf(k, SyncObj)
  <2>1. SyncObj \in SUBSET Obj
    BY DEF SyncObj, Obj
  <2>2. k'.live[m] /\ \A o \in Obj \ {m} : k'.live[o] = k.live[o]
    BY <1>1, <1>2
  <2> QED
    BY <1>1, <2>1, <2>2 DEF LiveOf
<1>5. \A u \in Task : GrantedOf(k, SyncObj)[u] # m
  <2>1. NULL # m
    BY <1>1, CoreAssumption
  <2> QED
    BY <1>1, <2>1 DEF GrantedOf
<1>6. Sync!CreateMutex(m)
  BY <1>2, <1>3, <1>4, <1>5 DEF Sync!CreateMutex, Alike, SyncObj
<1> QED
  BY <1>3, <1>6 DEF SyncStep, Sync!SNext

\* krhino_mutex_lock by the owner and by the first who wants the mutex, and the
\* krhino_mutex_unlock of a nested lock.
LEMMA SyncMutexCount ==
  ASSUME Good(k), Calling(k), NEW t \in Task, NEW m \in Mutex,
         mutex_lock_nested(t, m) \/ mutex_lock_free(t, m) \/ mutex_unlock_nested(t, m)
  PROVE  SyncStep /\ Calling(k')
<1>1. /\ IsK(k) /\ Sync!Free(t) /\ k.live[m] /\ m \in SyncObj /\ k.nested \in [Mutex -> Nat]
  BY SyncCaller, AllTypes
     DEF Good, mutex_lock_nested, mutex_lock_free, mutex_unlock_nested, SyncObj
<1>2. m \in LiveOf(k, SyncObj)
  BY <1>1 DEF LiveOf
<1>3. CASE mutex_lock_nested(t, m)
  <2>1. /\ k'.state = k.state /\ k'.blkobj = k.blkobj /\ k'.blkst = k.blkst /\ k'.wait = k.wait
        /\ k'.pc = k.pc /\ k'.live = k.live /\ k'.owner = k.owner /\ k'.count = k.count
        /\ k'.nested = [k.nested EXCEPT ![m] = @ + 1]
    BY <1>1, <1>3, FieldNames DEF IsK, mutex_lock_nested
  <2>2. Alike(k', k) /\ Calling(k')
    BY <2>1, ObjectStep
  <2>3. LiveOf(k', SyncObj) = LiveOf(k, SyncObj) /\ k.owner[m] = t
    BY <1>3, <2>1 DEF LiveOf, mutex_lock_nested
  <2>4. Sync!Relock(t, m)
    BY <1>1, <1>2, <2>1, <2>2, <2>3 DEF Sync!Relock, Alike, SyncObj
  <2> QED
    BY <2>2, <2>4 DEF SyncStep, Sync!SNext
<1>4. CASE mutex_lock_free(t, m)
  <2>1. /\ k'.state = k.state /\ k'.blkobj = k.blkobj /\ k'.blkst = k.blkst /\ k'.wait = k.wait
        /\ k'.pc = k.pc /\ k'.live = k.live /\ k'.count = k.count
        /\ k'.owner = [k.owner EXCEPT ![m] = t] /\ k'.nested = [k.nested EXCEPT ![m] = 1]
    BY ZenonT(30), <1>1, <1>4, FieldNames DEF IsK, mutex_lock_free, mutex_to_task
  <2>2. Alike(k', k) /\ Calling(k')
    BY <2>1, ObjectStep
  <2>3. LiveOf(k', SyncObj) = LiveOf(k, SyncObj) /\ k.owner[m] = NULL
    BY <1>4, <2>1 DEF LiveOf, mutex_lock_free
  <2>4. Sync!Lock(t, m)
    BY <1>1, <1>2, <2>1, <2>2, <2>3 DEF Sync!Lock, Alike, SyncObj
  <2> QED
    BY <2>2, <2>4 DEF SyncStep, Sync!SNext
<1>5. CASE mutex_unlock_nested(t, m)
  <2>1. /\ k'.state = k.state /\ k'.blkobj = k.blkobj /\ k'.blkst = k.blkst /\ k'.wait = k.wait
        /\ k'.pc = k.pc /\ k'.live = k.live /\ k'.owner = k.owner /\ k'.count = k.count
        /\ k'.nested = [k.nested EXCEPT ![m] = @ - 1]
    BY <1>1, <1>5, FieldNames DEF IsK, mutex_unlock_nested
  <2>2. Alike(k', k) /\ Calling(k')
    BY <2>1, ObjectStep
  <2>3. LiveOf(k', SyncObj) = LiveOf(k, SyncObj) /\ k.owner[m] = t /\ k.nested[m] > 1
    BY <1>5, <2>1 DEF LiveOf, mutex_unlock_nested
  <2>4. Sync!Unnest(t, m)
    BY <1>1, <1>2, <2>1, <2>2, <2>3 DEF Sync!Unnest, Alike, SyncObj
  <2> QED
    BY <2>2, <2>4 DEF SyncStep, Sync!SNext
<1> QED
  BY <1>3, <1>4, <1>5

\* krhino_mutex_lock of a mutex another task owns.
LEMMA SyncMutexPend ==
  ASSUME Good(k), Calling(k), NEW t \in Task, NEW m \in Mutex, NEW n \in LockTicks,
         mutex_lock_pend(t, m, n)
  PROVE  SyncStep /\ Calling(k')
<1>0. /\ Core(k) /\ IsK(k) /\ k.active = t /\ Calls(t) /\ t \notin ToSet(k.tickl) /\ Sync!Free(t)
      /\ m \in Obj /\ m \in SyncObj /\ k.live[m] /\ k.owner[m] \in Task \ {t}
      /\ k.owner[m] \notin {NULL, t} /\ k.prio \in [All -> Prio] /\ t \in All
  BY AllTypes, Kinds, SyncCaller DEF Good, mutex_lock_pend, SyncObj
<1>1. PICK own : own = k.owner[m]
  OBVIOUS
<1>2. PICK r : r = IF k.prio[t] < k.prio[own] THEN task_pri_change(k, own, k.prio[t]) ELSE k
  OBVIOUS
<1>3. k' = exit_sched_pend(pend_to_blk_obj(r, m, t, n), m)
  BY <1>1, <1>2 DEF mutex_lock_pend
<1>4. Core(r) /\ Same(r, k, PriFields)
  <2>1. CASE r = k
    BY <1>0, <2>1 DEF Same
  <2>2. CASE r = task_pri_change(k, own, k.prio[t])
    <3>1. own \in Task /\ k.prio[t] \in Prio
      BY <1>0, <1>1
    <3> QED
      BY <1>0, <2>2, <3>1, TaskPriChange
  <2> QED
    BY <1>2, <2>1, <2>2
<1>5. /\ r.state = k.state /\ r.blkobj = k.blkobj /\ r.blkst = k.blkst /\ r.pc = k.pc
      /\ r.wait = k.wait /\ r.active = t /\ r.tickl = k.tickl /\ r.owner = k.owner
      /\ SameObjects(r, k)
  BY <1>0, <1>4, FieldNames DEF Same, PriFields, SameObjects
<1>6. n \in (Nat \ {0}) \cup {WAIT_FOREVER}
  BY MutexAssumption
<1>7. t \notin ToSet(r.tickl) /\ (m \in Mutex => r.owner[m] \in Task)
  BY <1>0, <1>5
<1>8. /\ Existing(k') = Existing(k) /\ GrantedOf(k', SyncObj) = GrantedOf(k, SyncObj)
      /\ WaitsFor(k', SyncObj) = IF m \in SyncObj THEN [WaitsFor(k, SyncObj) EXCEPT ![t] = m]
                                 ELSE WaitsFor(k, SyncObj)
      /\ Calling(k') /\ SameObjects(k', r)
  BY <1>0, <1>3, <1>4, <1>5, <1>6, <1>7, BlockTasks
<1>9. LiveOf(k', SyncObj) = LiveOf(k, SyncObj) /\ m \in LiveOf(k, SyncObj) /\ SameObjects(k', k)
  BY <1>0, <1>5, <1>8 DEF LiveOf, SameObjects
<1>10. Sync!Wait(t, m)
  BY <1>0, <1>8, <1>9, Kinds DEF Sync!Wait, SameObjects, SyncObj
<1> QED
  BY <1>8, <1>10 DEF SyncStep, Sync!SNext, Sync!Obj

-----------------------------------------------------------------------------
\* The last krhino_mutex_unlock, with nobody waiting.
LEMMA SyncUnlock ==
  ASSUME Good(k), Calling(k), NEW t \in Task, NEW m \in Mutex, Calls(t), k.live[m], k.owner[m] = t,
         k.nested[m] = 1, NEW s, Released(s, t, m), s.blk[m] = <<>>, k' = [s EXCEPT !.owner[m] = NULL]
  PROVE  SyncStep /\ Calling(k')
<1>0. /\ Sync!Free(t) /\ m \in SyncObj /\ m \in Obj /\ m \in LiveOf(k, SyncObj)
  BY SyncCaller, Kinds DEF LiveOf, SyncObj
<1>1. /\ Core(s) /\ IsK(s) /\ Same(s, k, PriFields \cup {"mlist", "nested"})
      /\ s.nested = [k.nested EXCEPT ![m] = 0]
  BY DEF Released, Core, Lists, Typed
<1>2. /\ s.state = k.state /\ s.blkobj = k.blkobj /\ s.blkst = k.blkst /\ s.wait = k.wait
      /\ s.pc = k.pc /\ s.live = k.live /\ s.count = k.count /\ s.owner = k.owner
  BY <1>1, FieldNames DEF Same, PriFields
<1>3. /\ k'.state = k.state /\ k'.blkobj = k.blkobj /\ k'.blkst = k.blkst /\ k'.wait = k.wait
      /\ k'.pc = k.pc /\ k'.live = k.live /\ k'.count = k.count
      /\ k'.owner = [k.owner EXCEPT ![m] = NULL] /\ k'.nested = [k.nested EXCEPT ![m] = 0]
  BY <1>1, <1>2, FieldNames DEF IsK
<1>4. Alike(k', k) /\ Calling(k')
  BY <1>3, ObjectStep
<1>5. Sync!Waiters(m) = {}
  <2>1. ToSet(s.blk[m]) = {x \in Blocked(s) : s.blkobj[x] = m} /\ s.blk[m] \in Seq(Task)
    BY SMTT(30), <1>0, <1>1 DEF Core, Lists, Blk
  <2>2. ToSet(s.blk[m]) = {}
    BY <2>1, ToSetDef
  <2>3. Blocked(s) = Blocked(k)
    BY <1>2 DEF Blocked
  <2>4. {x \in Blocked(k) : k.blkobj[x] = m} = {}
    BY <1>2, <2>1, <2>2, <2>3
  <2> QED
    BY <1>0, <2>4, WaitersOf
<1>6. LiveOf(k', SyncObj) = LiveOf(k, SyncObj)
  BY <1>3 DEF LiveOf
<1>7. Sync!Unlock(t, m)
  BY <1>0, <1>3, <1>4, <1>5, <1>6 DEF Sync!Unlock, Alike, SyncObj
<1> QED
  BY <1>4, <1>7 DEF SyncStep, Sync!SNext

\* of the tasks that waited, exactly those of W do not any more, and found the object
OnlyServed(W) ==
    /\ \A x \in Task : x \in Blocked(k) /\ x \notin Blocked(k') <=> x \in W
    /\ \A x \in W : k'.blkst[x] = "FINISH"

\* what RhinoSync sees of that
GivenTo(o, W) ==
    /\ Existing(k') = Existing(k) /\ W \in SUBSET Sync!Waiters(o)
    /\ WaitsFor(k', SyncObj) = [x \in Task |-> IF x \in W THEN NULL ELSE WaitsFor(k, SyncObj)[x]]
    /\ GrantedOf(k', SyncObj) = [x \in Task |-> IF x \in W THEN o ELSE GrantedOf(k, SyncObj)[x]]

\* Some of those who waited for an object were woken with it.
LEMMA ServedSync ==
  ASSUME Good(k), NEW o \in SyncObj, NEW W \in SUBSET {x \in Blocked(k) : k.blkobj[x] = o},
         Ended(k', k), OnlyServed(W)
  PROVE  GivenTo(o, W)
<1>1. Core(k) /\ NULL \notin SyncObj /\ Blocked(k) \in SUBSET Task
  BY CoreAssumption DEF Good, Sys, SyncObj, Obj, Core, Lists
<1>2. Left(k', k) = W
  <2>1. \A x \in Task : x \in Left(k', k) <=> /\ x \in Blocked(k) /\ k.blkobj[x] \in SyncObj
                                              /\ x \notin Blocked(k')
    BY <1>1, WaitsValue DEF Left
  <2> QED
    BY <1>1, <2>1 DEF OnlyServed, Left
<1>3. \A x \in W : WaitsFor(k, SyncObj)[x] = o
  BY <1>1, WaitsValue
<1>4. /\ Existing(k') = Existing(k)
      /\ WaitsFor(k', SyncObj) = [x \in Task |-> IF x \in W THEN NULL ELSE WaitsFor(k, SyncObj)[x]]
  BY <1>2 DEF Ended
<1>5. GrantedOf(k', SyncObj) = [x \in Task |-> IF x \in W THEN o ELSE GrantedOf(k, SyncObj)[x]]
  <2>1. \A x \in Task : (x \in W /\ k'.blkst[x] = "FINISH") <=> x \in W
    BY DEF OnlyServed
  <2>2. GrantedOf(k', SyncObj) = [x \in Task |-> IF x \in W /\ k'.blkst[x] = "FINISH"
                                                 THEN WaitsFor(k, SyncObj)[x]
                                                 ELSE GrantedOf(k, SyncObj)[x]]
    BY <1>2 DEF Ended
  <2> QED
    BY <1>3, <2>1, <2>2
<1>6. W \in SUBSET Sync!Waiters(o)
  BY SMTT(30), WaitersOf
<1> QED
  BY <1>4, <1>5, <1>6 DEF GivenTo

\* The last krhino_mutex_unlock hands the mutex to the first of those who wait.
LEMMA SyncHandOver ==
  ASSUME Good(k), Calling(k), NEW t \in Task, NEW m \in Mutex, Calls(t), k.live[m], k.owner[m] = t,
         k.nested[m] = 1, NEW s, Released(s, t, m), s.blk[m] # <<>>,
         NEW u, u = Head(s.blk[m]), NEW w, w = pend_task_wakeup(s, u),
         NEW q, q = [mutex_to_task(w, m, u) EXCEPT !.nested[m] = 1], k' = exit_sched(q)
  PROVE  SyncStep /\ Calling(k')
<1>0. /\ Sync!Free(t) /\ m \in SyncObj /\ m \in Obj /\ m \in LiveOf(k, SyncObj) /\ FromHere
      /\ k.nested \in [Mutex -> Nat] /\ k.owner \in [Mutex -> Task \cup {NULL}]
  BY SyncCaller, Kinds, AllTypes DEF LiveOf, SyncObj, Good
<1>1. /\ Core(s) /\ IsK(s) /\ Calm(s, k) /\ Same(s, k, PriFields \cup {"mlist", "nested"})
      /\ s.nested = [k.nested EXCEPT ![m] = 0]
  BY DEF Released, Core, Lists, Typed
<1>2. /\ s.state = k.state /\ s.blkobj = k.blkobj /\ s.wait = k.wait /\ s.pc = k.pc
      /\ s.live = k.live /\ s.count = k.count /\ s.owner = k.owner /\ s.active = k.active
      /\ s.intr = k.intr
  BY <1>1, FieldNames DEF Same, PriFields
<1>3. u \in Blocked(s) /\ s.blkobj[u] = m /\ u \in Task
  BY SMTT(30), <1>0, <1>1, FirstWaiter
<1>4. Wakes(w, s, u)
  BY <1>1, <1>3, WakeUp
<1>5. /\ Calm(w, s) /\ Same(w, s, WakeFields) /\ IsK(w) /\ w.blkst[u] = "FINISH"
      /\ \A x \in All : x \in Blocked(w) <=> x \in Blocked(s) /\ x # u
  BY <1>4 DEF Wakes
<1>6. Calm(w, k)
  BY <1>1, <1>5, CalmTrans
<1>7. /\ w.wait = k.wait /\ w.pc = k.pc /\ w.live = k.live /\ w.count = k.count
      /\ w.owner = k.owner /\ w.active = k.active /\ w.intr = k.intr
      /\ w.nested = [k.nested EXCEPT ![m] = 0]
  BY <1>1, <1>2, <1>5, FieldNames DEF Same, WakeFields
<1>8. Handed(q, w, m, u)
  BY ZenonT(30), <1>5, FieldNames DEF Same, IsK, mutex_to_task, Handed
<1>9. /\ Same(q, w, {"owner", "mlist", "nested"}) /\ IsK(q)
      /\ q.owner = [k.owner EXCEPT ![m] = u] /\ q.nested = [[k.nested EXCEPT ![m] = 0] EXCEPT ![m] = 1]
  BY ZenonT(40), <1>7, <1>8 DEF Handed, Same
<1>10. /\ SameTasks(q, w) /\ q.pc = k.pc /\ q.active = k.active /\ q.intr = k.intr
       /\ q.live = k.live /\ q.count = k.count
  BY ZenonT(40), <1>7, <1>9, FieldNames DEF Same, SameTasks, PcMoves
<1>11. q.nested = k.nested
  BY SMTT(30), <1>0, <1>9
<1>12. /\ Ended(k', k) /\ Calling(k') /\ SameObjects(k', q)
       /\ k'.blkst = w.blkst /\ Blocked(k') = Blocked(w)
  BY <1>0, <1>6, <1>7, <1>9, <1>10, WokenExit
<1>13. Blocked(s) = Blocked(k)
  BY SMTT(30), <1>2 DEF Blocked
<1>14. u \in Blocked(k) /\ k.blkobj[u] = m /\ k'.blkst[u] = "FINISH"
  BY <1>2, <1>3, <1>5, <1>12, <1>13
<1>15. OnlyServed({u})
  BY <1>5, <1>12, <1>13, <1>14 DEF OnlyServed, All
<1>16. /\ Existing(k') = Existing(k) /\ u \in Sync!Waiters(m)
       /\ WaitsFor(k', SyncObj) = [WaitsFor(k, SyncObj) EXCEPT ![u] = NULL]
       /\ GrantedOf(k', SyncObj) = [GrantedOf(k, SyncObj) EXCEPT ![u] = m]
  <2>1. GivenTo(m, {u})
    BY <1>0, <1>12, <1>14, <1>15, ServedSync
  <2>2. /\ WaitsFor(k, SyncObj) = [x \in Task |-> WaitsFor(k, SyncObj)[x]]
        /\ GrantedOf(k, SyncObj) = [x \in Task |-> GrantedOf(k, SyncObj)[x]]
    BY SMTT(30) DEF WaitsFor, GrantedOf
  <2> QED
    BY ZenonT(40), <2>1, <2>2 DEF GivenTo
<1>17. LiveOf(k', SyncObj) = LiveOf(k, SyncObj)
  BY ZenonT(40), <1>10, <1>12 DEF LiveOf, SameObjects
<1>18. Sync!HandOver(t, m, u)
  BY <1>0, <1>9, <1>10, <1>11, <1>12, <1>16, <1>17 DEF Sync!HandOver, SameObjects, SyncObj
<1> QED
  BY <1>3, <1>12, <1>18 DEF SyncStep, Sync!SNext

\* krhino_mutex_unlock that gives the mutex up.
LEMMA SyncUnlockLast ==
  ASSUME Good(k), Calling(k), NEW t \in Task, NEW m \in Mutex, mutex_unlock_last(t, m)
  PROVE  SyncStep /\ Calling(k')
<1>1. Calls(t) /\ k.live[m] /\ k.owner[m] = t /\ k.nested[m] = 1
  BY DEF mutex_unlock_last
<1>2. PICK s : s = mutex_release([k EXCEPT !.nested[m] = 0], t, m)
  OBVIOUS
<1>3. Released(s, t, m)
  BY <1>1, <1>2, Release
<1>4. CASE s.blk[m] = <<>>
  BY <1>1, <1>2, <1>3, <1>4, SyncUnlock DEF mutex_unlock_last
<1>5. CASE s.blk[m] # <<>>
  <2>1. PICK u : u = Head(s.blk[m])
    OBVIOUS
  <2>2. PICK w : w = pend_task_wakeup(s, u)
    OBVIOUS
  <2>3. PICK q : q = [mutex_to_task(w, m, u) EXCEPT !.nested[m] = 1]
    BY ZenonT(60)
  <2>4. k' = exit_sched(q)
    BY <1>2, <1>5, <2>1, <2>2, <2>3 DEF mutex_unlock_last
  <2> QED
    BY <1>1, <1>3, <1>5, <2>1, <2>2, <2>3, <2>4, SyncHandOver
<1> QED
  BY <1>4, <1>5

\* An object is deleted: the waits for it are over, in vain.
LEMMA DeletedSync ==
  ASSUME Good(k), Calling(k), NEW o \in SyncObj, k.live[o], FromHere, NEW w, Dismissed(w, k, o),
         Vain(w, k), \A x \in Blocked(k) : k.blkobj[x] # o => x \in Blocked(w),
         w.pc = k.pc, w.wait = k.wait, w.active = k.active, w.intr = k.intr,
         w.live = [k.live EXCEPT ![o] = FALSE], w.owner = k.owner, w.nested = k.nested,
         w.count = k.count, k' = exit_sched(w)
  PROVE  SyncStep /\ Calling(k')
<1>0. /\ Core(k) /\ Calm(w, k) /\ k.live \in [Obj -> BOOLEAN] /\ o \in Obj /\ SyncObj \in SUBSET Obj
  BY AllTypes DEF Good, Sys, Dismissed, SyncObj, Obj
<1>1. /\ Ended(k', k) /\ Calling(k') /\ SameObjects(k', w) /\ k'.blkst = w.blkst
      /\ Blocked(k') = Blocked(w)
  BY <1>0, CalmExit
<1>2. \A x \in Blocked(w) : k.blkobj[x] # o
  BY DEF Dismissed
<1>3. Left(k', k) = {x \in Task : WaitsFor(k, SyncObj)[x] = o}
  <2>1. \A x \in Task : x \in Left(k', k) <=> /\ x \in Blocked(k) /\ k.blkobj[x] \in SyncObj
                                              /\ x \notin Blocked(w)
    BY <1>0, <1>1, WaitsValue DEF Left
  <2>2. \A x \in Task : WaitsFor(k, SyncObj)[x] = o <=> x \in Blocked(k) /\ k.blkobj[x] = o
    <3>1. NULL \notin SyncObj
      BY <1>0, CoreAssumption
    <3> QED
      BY <1>0, <3>1, WaitsValue
  <2> QED
    BY <1>2, <2>1, <2>2 DEF Left
<1>4. \A x \in Left(k', k) : k'.blkst[x] # "FINISH"
  <2>1. \A x \in Left(k', k) : x \in Blocked(k) /\ x \notin Blocked(w)
    BY <1>0, <1>1, WaitsValue DEF Left
  <2> QED
    BY <1>1, <2>1 DEF Vain
<1>5. GrantedOf(k, SyncObj) = [x \in Task |-> GrantedOf(k, SyncObj)[x]]
  BY DEF GrantedOf
<1>6. /\ Existing(k') = Existing(k) /\ GrantedOf(k', SyncObj) = GrantedOf(k, SyncObj)
      /\ WaitsFor(k', SyncObj) = [x \in Task |-> IF WaitsFor(k, SyncObj)[x] = o THEN NULL
                                                 ELSE WaitsFor(k, SyncObj)[x]]
  <2>1. \A x \in Task : x \in Left(k', k) <=> WaitsFor(k, SyncObj)[x] = o
    BY <1>3
  <2> QED
    BY <1>1, <1>4, <1>5, <2>1 DEF Ended
<1>7. LiveOf(k', SyncObj) = LiveOf(k, SyncObj) \ {o} /\ o \in LiveOf(k, SyncObj)
  <2>1. k'.live = w.live
    BY <1>1 DEF SameObjects
  <2>2. ~ k'.live[o] /\ \A x \in Obj \ {o} : k'.live[x] = k.live[x]
    BY <1>0, <2>1
  <2> QED
    BY <1>0, <2>2 DEF LiveOf
<1>8. Sync!Delete(o)
  BY <1>1, <1>6, <1>7 DEF Sync!Delete, SameObjects, SyncObj
<1> QED
  BY <1>1, <1>8 DEF SyncStep, Sync!SNext, Sync!Obj, SyncObj

-----------------------------------------------------------------------------
\* Only those who waited for the object are dismissed.
LEMMA DismissOnly ==
  ASSUME NEW r, Core(r), NEW s, Calm(s, r), s.state = r.state, s.blkobj = r.blkobj,
         NEW o \in Obj, NEW q, q = pend_rm_all(s, o)
  PROVE  \A x \in Blocked(r) : r.blkobj[x] # o => x \in Blocked(q)
<1>0. Core(s) /\ Typed(s)
  BY DEF Calm, Core, Lists
<1>1. PICK W : W = ToSet(s.blk[o])
  OBVIOUS
<1>2. W = {t \in Blocked(s) : s.blkobj[t] = o}
  BY <1>0, <1>1 DEF Core, Lists, Blk
<1>3. Woken(q, s, W)
  BY <1>0, <1>1, PendRmAll
<1>4. Blocked(q) = Blocked(s) \ W
  BY <1>0, <1>2, <1>3, WokenSets
<1>5. Blocked(s) = Blocked(r)
  BY DEF Blocked
<1> QED
  BY <1>2, <1>4, <1>5

\* krhino_mutex_del.
LEMMA SyncMutexDel ==
  ASSUME Good(k), Calling(k), NEW t \in Task, NEW m \in Mutex, krhino_mutex_del(t, m)
  PROVE  SyncStep /\ Calling(k')
<1>0. /\ Core(k) /\ FromHere /\ k.live[m] /\ m \in Obj /\ m \in SyncObj
  BY SyncCaller, Kinds DEF krhino_mutex_del, SyncObj
<1>1. PICK rel : DroppedIn(rel, m)
  BY MutexDrop
<1>2. Core(rel) /\ Same(rel, k, PriFields \cup {"mlist", "live"})
  BY <1>1 DEF DroppedIn
<1>3. PICK w : w = pend_rm_all(rel, m)
  OBVIOUS
<1>4. k' = exit_sched(w) /\ rel.live = [k.live EXCEPT ![m] = FALSE]
  BY <1>1, <1>3 DEF DroppedIn
<1>5. Same(rel, k, PriFields \cup {"mlist", "live", "owner", "nested"})
  BY <1>2 DEF Same
<1>6. Calm(rel, k)
  BY <1>2, <1>5, CalmPri
<1>7. /\ rel.state = k.state /\ rel.blkobj = k.blkobj /\ rel.pc = k.pc /\ rel.wait = k.wait
      /\ rel.active = k.active /\ rel.intr = k.intr /\ rel.owner = k.owner
      /\ rel.nested = k.nested /\ rel.count = k.count
  BY <1>2, FieldNames DEF Same, PriFields
<1>8. Dismissed(w, k, m) /\ Same(w, rel, WakeFields) /\ Vain(w, k)
  BY <1>0, <1>3, <1>6, <1>7, Dismiss
<1>9. \A x \in Blocked(k) : k.blkobj[x] # m => x \in Blocked(w)
  BY <1>0, <1>3, <1>6, <1>7, DismissOnly
<1>10. /\ w.pc = k.pc /\ w.wait = k.wait /\ w.active = k.active /\ w.intr = k.intr
       /\ w.live = [k.live EXCEPT ![m] = FALSE] /\ w.owner = k.owner /\ w.nested = k.nested
       /\ w.count = k.count
  BY <1>4, <1>7, <1>8, FieldNames DEF Same, WakeFields
<1> QED
  BY <1>0, <1>4, <1>8, <1>9, <1>10, DeletedSync

\* Another object ceases to exist: only those who waited for it are dismissed.
LEMMA DropOnly ==
  ASSUME Good(k), NEW o \in Obj, NEW dead, Same(dead, k, {"live"}), NEW w,
         w = pend_rm_all(dead, o)
  PROVE  \A x \in Blocked(k) : k.blkobj[x] # o => x \in Blocked(w)
<1>1. Core(k) /\ k.active \in All
  BY AllTypes DEF Good, Sys
<1>2. Core(dead) /\ dead.state = k.state /\ dead.blkobj = k.blkobj
  <2>1. Same(dead, k, StillFields) /\ dead.active \in All
    BY <1>1, FieldNames DEF Same, StillFields
  <2> QED
    BY <1>1, <2>1, CoreStill, FieldNames DEF Same
<1>3. Calm(dead, k)
  BY <1>2, CalmPri DEF Same
<1> QED
  BY <1>1, <1>2, <1>3, DismissOnly

\* The deletion of an object other than a mutex.
LEMMA ObjDropped ==
  ASSUME Good(k), NEW o \in Obj, NEW dead, dead = [k EXCEPT !.live[o] = FALSE], NEW w,
         w = pend_rm_all(dead, o)
  PROVE  /\ Dead(w, k, o) /\ \A x \in Blocked(k) : k.blkobj[x] # o => x \in Blocked(w)
         /\ w.pc = k.pc /\ w.wait = k.wait /\ w.active = k.active /\ w.intr = k.intr
         /\ w.owner = k.owner /\ w.nested = k.nested /\ w.count = k.count
         /\ w.live = [k.live EXCEPT ![o] = FALSE] /\ IsK(w)
<1>1. Sys(k) /\ IsK(k) /\ Dead(w, k, o)
  BY ObjDead, AllTypes DEF Good, Sys
<1>2. Same(dead, k, {"live"})
  BY <1>1, FieldNames DEF Same, IsK
<1>3. \A x \in Blocked(k) : k.blkobj[x] # o => x \in Blocked(w)
  BY ZenonT(30), <1>2, DropOnly
<1>4. /\ w.pc = k.pc /\ w.wait = k.wait /\ w.active = k.active /\ w.intr = k.intr
      /\ w.owner = k.owner /\ w.nested = k.nested /\ w.count = k.count
      /\ w.live = [k.live EXCEPT ![o] = FALSE] /\ IsK(w)
  BY <1>1, FieldNames DEF Dead, Same, WakeFields
<1> QED
  BY <1>1, <1>3, <1>4

-----------------------------------------------------------------------------
\* The services on semaphores.

\* krhino_sem_del.
LEMMA SyncSemDel ==
  ASSUME Good(k), Calling(k), NEW t \in Task, NEW s \in Sem, krhino_sem_del(t, s)
  PROVE  SyncStep /\ Calling(k')
<1>0. /\ FromHere /\ k.live[s] /\ s \in Obj /\ s \in SyncObj
  BY SyncCaller, Kinds DEF krhino_sem_del, SyncObj
<1>1. PICK dead : dead = [k EXCEPT !.live[s] = FALSE]
  OBVIOUS
<1>2. PICK w : w = pend_rm_all(dead, s)
  OBVIOUS
<1>3. k' = exit_sched(w)
  BY <1>1, <1>2 DEF krhino_sem_del
<1>4. /\ Dead(w, k, s) /\ \A x \in Blocked(k) : k.blkobj[x] # s => x \in Blocked(w)
      /\ w.pc = k.pc /\ w.wait = k.wait /\ w.active = k.active /\ w.intr = k.intr
      /\ w.owner = k.owner /\ w.nested = k.nested /\ w.count = k.count
      /\ w.live = [k.live EXCEPT ![s] = FALSE]
  BY <1>0, <1>1, <1>2, ObjDropped
<1>5. Dismissed(w, k, s) /\ Vain(w, k)
  BY <1>4 DEF Dead
<1> QED
  BY <1>0, <1>3, <1>4, <1>5, DeletedSync

\* krhino_sem_create.
LEMMA SyncSemCreate ==
  ASSUME Good(k), Calling(k), NEW t \in Task, NEW s \in Sem, NEW n \in Counts,
         krhino_sem_create(t, s, n)
  PROVE  SyncStep /\ Calling(k')
<1>1. /\ IsK(k) /\ ~ k.live[s] /\ k.live \in [Obj -> BOOLEAN] /\ s \in Obj /\ s \in SyncObj
  BY AllTypes, Kinds DEF Good, krhino_sem_create, SyncObj
<1>2. /\ k'.state = k.state /\ k'.blkobj = k.blkobj /\ k'.blkst = k.blkst /\ k'.wait = k.wait
      /\ k'.pc = k.pc /\ k'.live = [k.live EXCEPT ![s] = TRUE]
      /\ k'.owner = k.owner /\ k'.nested = k.nested /\ k'.count = [k.count EXCEPT ![s] = n]
  BY <1>1, FieldNames DEF IsK, krhino_sem_create
<1>3. Alike(k', k) /\ Calling(k')
  BY <1>2, ObjectStep
<1>4. LiveOf(k', SyncObj) = LiveOf(k, SyncObj) \cup {s} /\ s \notin LiveOf(k, SyncObj)
  <2>1. SyncObj \in SUBSET Obj
    BY DEF SyncObj, Obj
  <2>2. k'.live[s] /\ \A o \in Obj \ {s} : k'.live[o] = k.live[o]
    BY <1>1, <1>2
  <2> QED
    BY <1>1, <2>1, <2>2 DEF LiveOf
<1>5. Sync!CreateSem(s, n)
  BY <1>2, <1>3, <1>4 DEF Sync!CreateSem, Alike, SyncObj
<1> QED
  BY <1>3, <1>5 DEF SyncStep, Sync!SNext

\* Nobody waits for an object whose list is empty.
LEMMA NoWaiters ==
  ASSUME Good(k), NEW o \in SyncObj, k.blk[o] = <<>>
  PROVE  Sync!Waiters(o) = {}
<1>1. Core(k) /\ o \in Obj
  BY DEF Good, Sys, SyncObj, Obj
<1>2. ToSet(k.blk[o]) = {x \in Blocked(k) : k.blkobj[x] = o} /\ k.blk[o] \in Seq(Task)
  BY <1>1 DEF Core, Lists, Blk
<1>3. ToSet(k.blk[o]) = {}
  BY <1>2, ToSetDef
<1> QED
  BY <1>2, <1>3, WaitersOf

\* The count of a semaphore changes.
LEMMA CountStep ==
  ASSUME Good(k), Calling(k), NEW s \in Sem, k.live[s], NEW n, k' = [k EXCEPT !.count[s] = n]
  PROVE  /\ Alike(k', k) /\ Calling(k') /\ s \in LiveOf(k, SyncObj)
         /\ LiveOf(k', SyncObj) = LiveOf(k, SyncObj) /\ k'.owner = k.owner
         /\ k'.nested = k.nested /\ k'.count = [k.count EXCEPT ![s] = n] /\ s \in SyncObj
<1>1. IsK(k) /\ s \in SyncObj
  BY AllTypes DEF Good, SyncObj
<1>2. /\ k'.state = k.state /\ k'.blkobj = k.blkobj /\ k'.blkst = k.blkst /\ k'.wait = k.wait
      /\ k'.pc = k.pc /\ k'.live = k.live
      /\ k'.owner = k.owner /\ k'.nested = k.nested /\ k'.count = [k.count EXCEPT ![s] = n]
  BY <1>1, FieldNames DEF IsK
<1>3. Alike(k', k) /\ Calling(k')
  BY <1>2, ObjectStep
<1>4. s \in LiveOf(k, SyncObj) /\ LiveOf(k', SyncObj) = LiveOf(k, SyncObj)
  BY <1>1, <1>2 DEF LiveOf
<1> QED
  BY <1>1, <1>2, <1>3, <1>4

\* krhino_sem_count_set.
LEMMA SyncCountSet ==
  ASSUME Good(k), Calling(k), NEW t \in Task, NEW s \in Sem, NEW n \in Counts,
         krhino_sem_count_set(t, s, n)
  PROVE  SyncStep /\ Calling(k')
<1>1. /\ Alike(k', k) /\ Calling(k') /\ s \in LiveOf(k, SyncObj)
      /\ LiveOf(k', SyncObj) = LiveOf(k, SyncObj) /\ k'.owner = k.owner
      /\ k'.nested = k.nested /\ k'.count = [k.count EXCEPT ![s] = n] /\ s \in SyncObj
  BY CountStep DEF krhino_sem_count_set
<1>2. k.count[s] > 0 \/ Sync!Waiters(s) = {}
  BY <1>1, NoWaiters DEF krhino_sem_count_set
<1>3. Sync!SetCount(s, n)
  BY <1>1, <1>2 DEF Sync!SetCount, Alike, SyncObj
<1> QED
  BY <1>1, <1>3 DEF SyncStep, Sync!SNext

\* krhino_sem_take.
LEMMA SyncSemTake ==
  ASSUME Good(k), Calling(k), NEW t \in Task, NEW s \in Sem, NEW n \in TakeTicks,
         krhino_sem_take(t, s, n)
  PROVE  SyncStep /\ Calling(k')
<1>0. /\ Core(k) /\ IsK(k) /\ k.active = t /\ Calls(t) /\ t \notin ToSet(k.tickl) /\ Sync!Free(t)
      /\ s \in Obj /\ s \in SyncObj /\ s \notin Mutex /\ k.live[s] /\ k.count \in [Sem -> Nat]
  BY AllTypes, Kinds, SyncCaller DEF Good, krhino_sem_take, SyncObj
<1>1. CASE k.count[s] > 0
  <2>1. k' = [k EXCEPT !.count[s] = k.count[s] - 1]
    BY <1>0, <1>1 DEF krhino_sem_take
  <2>2. /\ Alike(k', k) /\ Calling(k') /\ s \in LiveOf(k, SyncObj)
        /\ LiveOf(k', SyncObj) = LiveOf(k, SyncObj) /\ k'.owner = k.owner
        /\ k'.nested = k.nested /\ k'.count = [k.count EXCEPT ![s] = k.count[s] - 1]
    BY <1>0, <2>1, CountStep
  <2>3. Sync!Take(t, s)
    BY <1>0, <1>1, <2>2 DEF Sync!Take, Alike, SyncObj
  <2> QED
    BY <2>2, <2>3 DEF SyncStep, Sync!SNext
<1>2. CASE ~ (k.count[s] > 0)
  <2>1. k.count[s] = 0 /\ k' = exit_sched_pend(pend_to_blk_obj(k, s, t, n), s)
    BY <1>2 DEF krhino_sem_take
  <2>2. n \in (Nat \ {0}) \cup {WAIT_FOREVER}
    BY SemAssumption
  <2>3. /\ Existing(k') = Existing(k) /\ GrantedOf(k', SyncObj) = GrantedOf(k, SyncObj)
        /\ WaitsFor(k', SyncObj) = IF s \in SyncObj THEN [WaitsFor(k, SyncObj) EXCEPT ![t] = s]
                                   ELSE WaitsFor(k, SyncObj)
        /\ Calling(k') /\ SameObjects(k', k)
    BY <1>0, <2>1, <2>2, BlockTasks
  <2>4. LiveOf(k', SyncObj) = LiveOf(k, SyncObj) /\ s \in LiveOf(k, SyncObj)
    BY <1>0, <2>3 DEF LiveOf, SameObjects
  <2>5. Sync!Wait(t, s)
    BY <1>0, <2>1, <2>3, <2>4 DEF Sync!Wait, SameObjects, SyncObj
  <2> QED
    BY <1>0, <2>3, <2>5 DEF SyncStep, Sync!SNext, Sync!Obj
<1> QED
  BY <1>1, <1>2

\* A semaphore is given to one of those who wait, or to all.
LEMMA SyncGiveTo ==
  ASSUME Good(k), Calling(k), FromHere, NEW s \in Sem, k.live[s], k.blk[s] # <<>>,
         NEW W \in SUBSET {x \in Blocked(k) : k.blkobj[x] = s}, W # {}, NEW w, Calm(w, k),
         Same(w, k, WakeFields), \A x \in All : x \in Blocked(w) <=> x \in Blocked(k) /\ x \notin W,
         \A x \in W : w.blkst[x] = "FINISH", k' = exit_sched(w)
  PROVE  SyncStep /\ Calling(k')
<1>1. /\ w.pc = k.pc /\ w.wait = k.wait /\ w.active = k.active /\ w.intr = k.intr
      /\ SameObjects(w, k) /\ s \in SyncObj
  BY FieldNames DEF Same, WakeFields, SameObjects, SyncObj
<1>2. /\ Ended(k', k) /\ Calling(k') /\ SameObjects(k', w) /\ k'.blkst = w.blkst
      /\ Blocked(k') = Blocked(w)
  BY <1>1, CalmExit
<1>3. OnlyServed(W)
  BY <1>2 DEF OnlyServed, All
<1>4. GivenTo(s, W)
  BY <1>1, <1>2, <1>3, ServedSync
<1>5. LiveOf(k', SyncObj) = LiveOf(k, SyncObj) /\ s \in LiveOf(k, SyncObj)
  BY <1>1, <1>2 DEF LiveOf, SameObjects
<1>6. Sync!GiveTo(s, W)
  BY <1>1, <1>2, <1>4, <1>5 DEF Sync!GiveTo, GivenTo, SameObjects, SyncObj
<1>7. W \in SUBSET Task
  BY DEF Good, Sys, Core, Lists
<1> QED
  BY <1>2, <1>6, <1>7 DEF SyncStep, Sync!SNext

\* A service an interrupt handler or a task calls.
LEMMA FromAnywhere ==
  ASSUME Good(k), InIsr \/ Calls(k.active)
  PROVE  FromHere
BY DEF FromHere, InIsr, Calls

\* krhino_sem_give.
LEMMA SyncSemGive ==
  ASSUME Good(k), Calling(k), NEW s \in Sem, NEW wake_all \in BOOLEAN, krhino_sem_give(s, wake_all)
  PROVE  SyncStep /\ Calling(k')
<1>0. /\ Core(k) /\ Typed(k) /\ FromHere /\ k.live[s] /\ s \in Obj /\ s \in SyncObj
  BY FromAnywhere, Kinds DEF Good, Sys, Core, Lists, krhino_sem_give, SyncObj
<1>1. CASE k.blk[s] = <<>>
  <2>1. k' = [k EXCEPT !.count[s] = k.count[s] + 1]
    BY <1>1 DEF krhino_sem_give
  <2>2. /\ Alike(k', k) /\ Calling(k') /\ s \in LiveOf(k, SyncObj)
        /\ LiveOf(k', SyncObj) = LiveOf(k, SyncObj) /\ k'.owner = k.owner
        /\ k'.nested = k.nested /\ k'.count = [k.count EXCEPT ![s] = k.count[s] + 1]
    BY <1>0, <2>1, CountStep
  <2>3. Sync!Waiters(s) = {}
    BY <1>0, <1>1, NoWaiters
  <2>4. Sync!Give(s)
    BY <2>2, <2>3 DEF Sync!Give, Alike, SyncObj
  <2> QED
    BY <2>2, <2>4 DEF SyncStep, Sync!SNext
<1>2. CASE k.blk[s] # <<>>
  <2>1. PICK w : w = IF wake_all THEN pend_wakeup_all(k, s) ELSE pend_task_wakeup(k, Head(k.blk[s]))
    OBVIOUS
  <2>2. k' = exit_sched(w)
    BY <1>2, <2>1 DEF krhino_sem_give
  <2>3. PICK u : u = Head(k.blk[s])
    OBVIOUS
  <2>4. u \in Blocked(k) /\ k.blkobj[u] = s
    BY <1>0, <1>2, <2>3, FirstWaiter
  <2>5. CASE ~ wake_all
    <3>1. Wakes(w, k, u)
      BY <1>0, <2>1, <2>3, <2>4, <2>5, WakeUp
    <3>2. /\ Calm(w, k) /\ Same(w, k, WakeFields) /\ w.blkst[u] = "FINISH"
          /\ \A x \in All : x \in Blocked(w) <=> x \in Blocked(k) /\ x # u
      BY <3>1 DEF Wakes
    <3>3. PICK W : W = {u}
      OBVIOUS
    <3>4. /\ W \in SUBSET {x \in Blocked(k) : k.blkobj[x] = s} /\ W # {}
          /\ \A x \in W : w.blkst[x] = "FINISH"
          /\ \A x \in All : x \in Blocked(w) <=> x \in Blocked(k) /\ x \notin W
      BY <2>4, <3>2, <3>3
    <3> QED
      BY <1>0, <1>2, <2>2, <3>2, <3>4, SyncGiveTo
  <2>6. CASE wake_all
    <3>1. PICK W : W = ToSet(k.blk[s])
      OBVIOUS
    <3>2. /\ W \in SUBSET Blocked(k) /\ W = {x \in Blocked(k) : k.blkobj[x] = s}
      BY <1>0, <3>1 DEF Core, Lists, Blk
    <3>3. W # {}
      BY <2>4, <3>2
    <3>4. /\ Woken(w, k, W) /\ Same(w, k, WakeFields)
          /\ \A x \in All : w.blkst[x] = IF x \in W THEN "FINISH" ELSE k.blkst[x]
      BY <1>0, <2>1, <2>6, <3>1, PendWakeupAll
    <3>5. Calm(w, k)
      BY <1>0, <3>2, <3>4, CalmWoken
    <3>6. Blocked(w) = Blocked(k) \ W
      <4>1. Typed(k) /\ W \in SUBSET Blocked(k) /\ Woken(w, k, W)
        BY <1>0, <3>2, <3>4
      <4> QED
        BY SMTT(30), <4>1, WokenSets
    <3>7. \A x \in W : w.blkst[x] = "FINISH"
      BY <3>2, <3>4 DEF Blocked
    <3>8. W \in SUBSET {x \in Blocked(k) : k.blkobj[x] = s}
      BY <3>2
    <3>9. \A x \in All : x \in Blocked(w) <=> x \in Blocked(k) /\ x \notin W
      BY <3>6
    <3> QED
      BY <1>0, <1>2, <2>2, <3>3, <3>4, <3>5, <3>7, <3>8, <3>9, SyncGiveTo
  <2> QED
    BY <2>5, <2>6
<1> QED
  BY <1>1, <1>2

-----------------------------------------------------------------------------
\* The services on queues and event groups, which RhinoSync does not see.

\* Neither a queue nor an event group is a mutex or a semaphore.
LEMMA NotSync ==
  ASSUME NEW o \in AnyQueue \cup Event
  PROVE  o \in Obj /\ o \in Obj \ Mutex /\ o \notin Mutex /\ o \notin SyncObj
BY Kinds DEF SyncObj

\* the fields of the queues and event groups
OtherFields == {"blk", "live", "ring", "num", "flags", "msg", "actl"}

\* A queue or an event group comes or goes.
LEMMA OtherLive ==
  ASSUME Good(k), NEW o \in AnyQueue \cup Event, NEW q, NEW v, q.live = [k.live EXCEPT ![o] = v]
  PROVE  LiveOf(q, SyncObj) = LiveOf(k, SyncObj)
<1>1. k.live \in [Obj -> BOOLEAN] /\ SyncObj \in SUBSET Obj
  BY AllTypes DEF Good, SyncObj, Obj
<1>2. \A x \in SyncObj : q.live[x] = k.live[x]
  BY <1>1, NotSync
<1> QED
  BY <1>2 DEF LiveOf

\* Only queues and event groups change.
LEMMA OtherStep ==
  ASSUME Good(k), Calling(k), NEW q, Same(q, k, OtherFields),
         LiveOf(q, SyncObj) = LiveOf(k, SyncObj), k' = q
  PROVE  SyncStep /\ Calling(k')
<1>1. /\ q.state = k.state /\ q.blkobj = k.blkobj /\ q.blkst = k.blkst /\ q.wait = k.wait
      /\ q.pc = k.pc /\ q.owner = k.owner /\ q.nested = k.nested /\ q.count = k.count
  BY FieldNames DEF Same, OtherFields
<1>2. Alike(k', k) /\ Calling(k')
  BY <1>1, ObjectStep
<1>3. SeenObjects(k', k)
  BY <1>1 DEF SeenObjects
<1> QED
  BY <1>2, <1>3, Stutter

\* So does none of them come or go.
LEMMA OtherQuiet ==
  ASSUME Good(k), Calling(k), NEW q, Same(q, k, OtherFields), q.live = k.live, k' = q
  PROVE  SyncStep /\ Calling(k')
BY OtherStep DEF LiveOf

\* Tasks that waited for a queue or an event group are woken; then the service
\* changes what RhinoSync does not see.
LEMMA OtherWoken ==
  ASSUME Good(k), Calling(k), FromHere, NEW o \in AnyQueue \cup Event, NEW w, Calm(w, k),
         w.pc = k.pc, w.wait = k.wait, w.active = k.active, w.intr = k.intr,
         w.owner = k.owner, w.nested = k.nested, w.count = k.count,
         \A x \in Blocked(k) \ Blocked(w) : k.blkobj[x] = o, IsK(w),
         LiveOf(w, SyncObj) = LiveOf(k, SyncObj),
         NEW q, Same(q, w, {"ring", "num", "flags"}), k' = exit_sched(q)
  PROVE  SyncStep /\ Calling(k')
<1>1. /\ IsK(q) /\ SameTasks(q, w) /\ q.pc = k.pc /\ q.active = k.active /\ q.intr = k.intr
      /\ q.owner = k.owner /\ q.nested = k.nested /\ q.count = k.count /\ q.live = w.live
  BY FieldNames DEF Same, SameTasks, PcMoves
<1>2. Ended(k', k) /\ Calling(k') /\ SameObjects(k', q) /\ Blocked(k') = Blocked(w)
  BY <1>1, WokenExit
<1>3. Left(k', k) = {}
  <2>1. Core(k)
    BY DEF Good, Sys
  <2> QED
    BY <1>2, <2>1, WaitsValue, NotSync DEF Left
<1>4. SeenObjects(k', k)
  BY <1>1, <1>2 DEF SeenObjects, SameObjects, LiveOf
<1> QED
  BY <1>2, <1>3, <1>4, GivesUp

\* A queue or an event group is deleted.
LEMMA OtherDel ==
  ASSUME Good(k), Calling(k), FromHere, NEW o \in AnyQueue \cup Event,
         NEW dead, dead = [k EXCEPT !.live[o] = FALSE], NEW w, w = pend_rm_all(dead, o),
         NEW q, Same(q, w, {"ring", "num", "flags"}), k' = exit_sched(q)
  PROVE  SyncStep /\ Calling(k')
<1>1. /\ Dead(w, k, o) /\ \A x \in Blocked(k) : k.blkobj[x] # o => x \in Blocked(w)
      /\ w.pc = k.pc /\ w.wait = k.wait /\ w.active = k.active /\ w.intr = k.intr
      /\ w.owner = k.owner /\ w.nested = k.nested /\ w.count = k.count
      /\ w.live = [k.live EXCEPT ![o] = FALSE] /\ IsK(w)
  BY NotSync, ObjDropped
<1>2. Calm(w, k) /\ \A x \in Blocked(k) \ Blocked(w) : k.blkobj[x] = o
  BY <1>1 DEF Dead, Dismissed
<1>3. LiveOf(w, SyncObj) = LiveOf(k, SyncObj)
  BY <1>1, OtherLive
<1> QED
  BY <1>1, <1>2, <1>3, OtherWoken

\* A task blocks on a queue or an event group.
LEMMA OtherPend ==
  ASSUME Good(k), Calling(k), NEW t \in Task, Calls(t), NEW o \in AnyQueue \cup Event,
         NEW r, Core(r), Same(r, k, {"want"}), NEW n \in (Nat \ {0}) \cup {WAIT_FOREVER},
         k' = exit_sched_pend(pend_to_blk_obj(r, o, t, n), o)
  PROVE  SyncStep /\ Calling(k')
<1>1. k.active = t /\ t \notin ToSet(k.tickl) /\ o \in Obj /\ o \notin Mutex /\ o \notin SyncObj
  BY SyncCaller, NotSync
<1>2. /\ r.state = k.state /\ r.blkobj = k.blkobj /\ r.blkst = k.blkst /\ r.pc = k.pc
      /\ r.wait = k.wait /\ r.active = t /\ r.tickl = k.tickl /\ SameObjects(r, k)
  BY <1>1, FieldNames DEF Same, SameObjects
<1>3. t \notin ToSet(r.tickl) /\ (o \in Mutex => r.owner[o] \in Task)
  BY <1>1, <1>2
<1>4. /\ Existing(k') = Existing(k) /\ GrantedOf(k', SyncObj) = GrantedOf(k, SyncObj)
      /\ WaitsFor(k', SyncObj) = IF o \in SyncObj THEN [WaitsFor(k, SyncObj) EXCEPT ![t] = o]
                                 ELSE WaitsFor(k, SyncObj)
      /\ Calling(k') /\ SameObjects(k', r)
  BY <1>1, <1>2, <1>3, BlockTasks
<1>5. Alike(k', k) /\ SameObjects(k', k)
  BY <1>1, <1>2, <1>4 DEF Alike, SameObjects
<1> QED
  BY <1>4, <1>5, Stutter

\* krhino_queue_create and krhino_buf_queue_create.
LEMMA SyncQueueCreate ==
  ASSUME Good(k), Calling(k), NEW t \in Task, NEW o \in AnyQueue, krhino_queue_create(t, o)
  PROVE  SyncStep /\ Calling(k')
<1>0. IsK(k)
  BY AllTypes DEF Good
<1>1. PICK q : q = [k EXCEPT !.blk[o] = <<>>, !.ring[o] = ringbuf_reset(@), !.num[o] = 0,
                             !.live[o] = TRUE]
  OBVIOUS
<1>2. Same(q, k, OtherFields)
  BY ZenonT(30), <1>0, <1>1, FieldNames DEF Same, IsK, OtherFields
<1>3. q.live = [k.live EXCEPT ![o] = TRUE]
  BY <1>0, <1>1, FieldNames DEF IsK
<1>4. LiveOf(q, SyncObj) = LiveOf(k, SyncObj) /\ k' = q
  BY <1>1, <1>3, OtherLive DEF krhino_queue_create
<1> QED
  BY <1>2, <1>4, OtherStep

\* krhino_event_create.
LEMMA SyncEventCreate ==
  ASSUME Good(k), Calling(k), NEW t \in Task, NEW e \in Event, NEW f \in SetFlags,
         krhino_event_create(t, e, f)
  PROVE  SyncStep /\ Calling(k')
<1>0. IsK(k)
  BY AllTypes DEF Good
<1>1. PICK q : q = [k EXCEPT !.blk[e] = <<>>, !.flags[e] = f, !.live[e] = TRUE]
  OBVIOUS
<1>2. Same(q, k, OtherFields)
  BY ZenonT(30), <1>0, <1>1, FieldNames DEF Same, IsK, OtherFields
<1>3. q.live = [k.live EXCEPT ![e] = TRUE]
  BY <1>0, <1>1, FieldNames DEF IsK
<1>4. LiveOf(q, SyncObj) = LiveOf(k, SyncObj) /\ k' = q
  BY <1>1, <1>3, OtherLive DEF krhino_event_create
<1> QED
  BY <1>2, <1>4, OtherStep

\* krhino_queue_del and krhino_buf_queue_del.
LEMMA SyncQueueDel ==
  ASSUME Good(k), Calling(k), NEW t \in Task, NEW o \in AnyQueue, krhino_queue_del(t, o)
  PROVE  SyncStep /\ Calling(k')
<1>0. FromHere
  BY SyncCaller DEF krhino_queue_del
<1>1. PICK dead : dead = [k EXCEPT !.live[o] = FALSE]
  OBVIOUS
<1>2. PICK w : w = pend_rm_all(dead, o)
  OBVIOUS
<1>3. PICK s : s = [w EXCEPT !.ring[o] = ringbuf_reset(@), !.num[o] = 0]
  OBVIOUS
<1>4. IsK(w)
  BY <1>1, <1>2, NotSync, ObjDropped
<1>5. Same(s, w, {"ring", "num", "flags"})
  BY ZenonT(30), <1>3, <1>4, FieldNames DEF Same, IsK
<1>6. k' = exit_sched(s)
  BY <1>1, <1>2, <1>3 DEF krhino_queue_del
<1> QED
  BY <1>0, <1>1, <1>2, <1>5, <1>6, OtherDel

\* krhino_event_del.
LEMMA SyncEventDel ==
  ASSUME Good(k), Calling(k), NEW t \in Task, NEW e \in Event, krhino_event_del(t, e)
  PROVE  SyncStep /\ Calling(k')
<1>0. FromHere
  BY SyncCaller DEF krhino_event_del
<1>1. PICK dead : dead = [k EXCEPT !.live[e] = FALSE]
  OBVIOUS
<1>2. PICK w : w = pend_rm_all(dead, e)
  OBVIOUS
<1>3. PICK s : s = [w EXCEPT !.flags[e] = {}]
  OBVIOUS
<1>4. IsK(w)
  BY <1>1, <1>2, NotSync, ObjDropped
<1>5. Same(s, w, {"ring", "num", "flags"})
  BY <1>3, <1>4, FieldNames DEF Same, IsK
<1>6. k' = exit_sched(s)
  BY <1>1, <1>2, <1>3 DEF krhino_event_del
<1> QED
  BY <1>0, <1>1, <1>2, <1>5, <1>6, OtherDel

-----------------------------------------------------------------------------
\* A message is queued, the queue is flushed, an interrupt handler receives.
LEMMA SyncRing ==
  ASSUME Good(k), Calling(k), NEW o \in AnyQueue,
         \/ \E m \in Msg : queue_push(o, m)
         \/ \E t \in Task : queue_flush(t, o)
         \/ queue_recv_isr(o)
  PROVE  SyncStep /\ Calling(k')
<1>0. IsK(k)
  BY AllTypes DEF Good
<1>1. CASE \E m \in Msg : queue_push(o, m)
  <2>1. PICK m \in Msg : queue_push(o, m)
    BY <1>1
  <2>2. PICK q : q = [k EXCEPT !.ring[o] = ringbuf_push(@, m), !.num[o] = @ + 1]
    OBVIOUS
  <2>3. Same(q, k, OtherFields) /\ q.live = k.live
    BY ZenonT(30), <1>0, <2>2, FieldNames DEF Same, IsK, OtherFields
  <2>4. k' = q
    BY <2>1, <2>2 DEF queue_push
  <2> QED
    BY <2>3, <2>4, OtherQuiet
<1>2. CASE \E t \in Task : queue_flush(t, o)
  <2>1. PICK q : q = [k EXCEPT !.num[o] = 0, !.ring[o] = ringbuf_reset(@)]
    OBVIOUS
  <2>2. Same(q, k, OtherFields) /\ q.live = k.live
    BY ZenonT(30), <1>0, <2>1, FieldNames DEF Same, IsK, OtherFields
  <2>3. k' = q
    BY <1>2, <2>1 DEF queue_flush
  <2> QED
    BY <2>2, <2>3, OtherQuiet
<1>3. CASE queue_recv_isr(o)
  <2>1. PICK q : q = recv_pop(o).k
    OBVIOUS
  <2>2. Same(q, k, MsgFields)
    BY <2>1, RecvPop
  <2>3. Same(q, k, OtherFields) /\ q.live = k.live
    BY <2>2, FieldNames DEF Same, MsgFields, OtherFields
  <2>4. k' = q
    BY <1>3, <2>1 DEF queue_recv_isr
  <2> QED
    BY <2>3, <2>4, OtherQuiet
<1> QED
  BY <1>1, <1>2, <1>3

\* A task calls a service that has what it wants, which is no mutex and no semaphore:
\* the call is going to return.
LEMMA SyncGot ==
  ASSUME Good(k), Calling(k), NEW t \in Task, Calls(t), NEW o \in AnyQueue, NEW q,
         Same(q, k, MsgFields \cup {"pc", "wait"}), q.pc = [k.pc EXCEPT ![t] = "pend"],
         q.wait = [k.wait EXCEPT ![t] = o], k' = q
  PROVE  SyncStep /\ Calling(k')
<1>1. /\ k.pc \in [All -> PC] /\ k.wait \in [All -> Obj \cup {NULL}] /\ t \in All
      /\ k.pc[t] = "user" /\ k.state[t] = "RDY" /\ t \notin Blocked(k) /\ o \notin SyncObj
  BY SyncCaller, NotSync
<1>2. q.state = k.state /\ q.blkobj = k.blkobj /\ q.blkst = k.blkst /\ SameObjects(q, k)
  BY FieldNames DEF Same, MsgFields, SameObjects
<1>3. \A x \in Task \ {t} : q.pc[x] = k.pc[x] /\ q.wait[x] = k.wait[x]
  BY <1>1 DEF All
<1>4. q.wait[t] = o
  BY <1>1
<1>5. GrantedOf(q, SyncObj) = GrantedOf(k, SyncObj)
  BY <1>1, <1>2, <1>3, <1>4 DEF GrantedOf
<1>6. Alike(q, k)
  BY <1>2, <1>5 DEF Alike, Existing, WaitsFor
<1>7. Calling(q)
  BY <1>1, <1>2, <1>3 DEF Calling, Blocked
<1> QED
  BY <1>2, <1>6, <1>7, Stutter

\* krhino_queue_recv and krhino_buf_queue_recv.
LEMMA SyncQueueRecv ==
  ASSUME Good(k), Calling(k), NEW t \in Task, NEW o \in AnyQueue, NEW n \in RecvTicks,
         queue_recv(t, o, n)
  PROVE  SyncStep /\ Calling(k')
<1>0. Calls(t) /\ IsK(k) /\ Core(k)
  BY SyncCaller DEF queue_recv
<1>1. CASE has_msg(o)
  <2>1. PICK s : s = recv_pop(o).k
    OBVIOUS
  <2>2. PICK m : m = recv_pop(o).msg
    OBVIOUS
  <2>3. Same(s, k, MsgFields) /\ s.msg = k.msg
    BY <2>1, RecvPop
  <2>4. IsK(s) /\ s.pc = k.pc /\ s.wait = k.wait
    BY <2>3, FieldNames DEF Same, MsgFields
  <2>5. PICK q : q = [s EXCEPT !.msg[t] = m, !.pc[t] = "pend", !.wait[t] = o]
    OBVIOUS
  <2>6. /\ Same(q, s, {"msg", "pc", "wait"})
        /\ q.pc = [s.pc EXCEPT ![t] = "pend"] /\ q.wait = [s.wait EXCEPT ![t] = o]
    BY ZenonT(30), <2>4, <2>5, FieldNames DEF Same, IsK
  <2>7. Same(q, k, MsgFields \cup {"pc", "wait"})
    BY <2>3, <2>6 DEF Same, MsgFields
  <2>8. k' = q
    BY <1>1, <2>1, <2>2, <2>5 DEF queue_recv
  <2> QED
    BY <1>0, <2>4, <2>6, <2>7, <2>8, SyncGot
<1>2. CASE ~ has_msg(o)
  <2>1. k' = exit_sched_pend(pend_to_blk_obj(k, o, t, n), o)
    BY <1>2 DEF queue_recv
  <2>2. n \in (Nat \ {0}) \cup {WAIT_FOREVER}
    BY QueueAssumption
  <2>3. Same(k, k, {"want"})
    BY <1>0 DEF Same
  <2> QED
    BY <1>0, <2>1, <2>2, <2>3, OtherPend
<1> QED
  BY <1>1, <1>2

\* A message is handed to the first of those who wait for one.
LEMMA SyncHanded ==
  ASSUME Good(k), Calling(k), FromHere, NEW o \in AnyQueue, NEW m \in Msg, k.blk[o] # <<>>,
         k' = exit_sched(task_msg_recv(k, Head(k.blk[o]), m))
  PROVE  SyncStep /\ Calling(k')
<1>0. IsK(k) /\ k.msg = [x \in All |-> k.msg[x]] /\ o \in Obj
  BY AllTypes, NotSync DEF Good, Sys, Types
<1>1. PICK t : t = Head(k.blk[o])
  OBVIOUS
<1>2. PICK r : r = [k EXCEPT !.msg[t] = m]
  OBVIOUS
<1>3. Same(r, k, MsgFields) /\ r.msg = [k.msg EXCEPT ![t] = m] /\ r.blk = k.blk
  BY <1>0, <1>2, FieldNames DEF Same, IsK, MsgFields
<1>4. r.msg = [x \in All |-> r.msg[x]]
  BY <1>0, <1>3
<1>5. Core(r)
  BY <1>3, <1>4, MsgGood DEF Good, Sys
<1>6. PICK w : w = pend_task_wakeup(r, t)
  OBVIOUS
<1>7. k' = exit_sched(w)
  BY <1>1, <1>2, <1>6 DEF task_msg_recv
<1>8. t \in Blocked(r) /\ r.blkobj[t] = o
  BY <1>0, <1>1, <1>3, <1>5, FirstWaiter
<1>9. Wakes(w, r, t)
  BY <1>5, <1>6, <1>8, WakeUp
<1>10. Calm(w, r) /\ Same(w, r, WakeFields) /\ IsK(w)
       /\ \A x \in All : x \in Blocked(w) <=> x \in Blocked(r) /\ x # t
  BY <1>9 DEF Wakes
<1>11. /\ r.state = k.state /\ r.blkobj = k.blkobj /\ r.blkst = k.blkst /\ r.tickl = k.tickl
       /\ r.tick = k.tick /\ r.pc = k.pc /\ r.wait = k.wait /\ r.active = k.active
       /\ r.intr = k.intr /\ SameObjects(r, k)
  BY <1>3, FieldNames DEF Same, MsgFields, SameObjects
<1>12. Calm(w, k)
  BY <1>10, <1>11 DEF Calm, Kept, Freed
<1>13. /\ w.pc = k.pc /\ w.wait = k.wait /\ w.active = k.active /\ w.intr = k.intr
       /\ SameObjects(w, k)
  BY <1>10, <1>11, FieldNames DEF Same, WakeFields, SameObjects
<1>14. \A x \in Blocked(k) \ Blocked(w) : k.blkobj[x] \notin SyncObj
  <2>1. Blocked(r) = Blocked(k)
    BY <1>11 DEF Blocked
  <2>2. Blocked(k) \in SUBSET All
    BY DEF Blocked
  <2> QED
    BY <1>8, <1>10, <1>11, <2>1, <2>2, NotSync
<1> QED
  BY <1>7, <1>12, <1>13, <1>14, Elsewhere

\* A message is handed to all of them.
LEMMA SyncToAll ==
  ASSUME Good(k), Calling(k), FromHere, NEW o \in AnyQueue, NEW m \in Msg,
         k' = exit_sched(FoldLeft(LAMBDA r, t : task_msg_recv(r, t, m), k, k.blk[o]))
  PROVE  SyncStep /\ Calling(k')
<1>1. PICK w : SentAll(w, o)
  BY SendLoop
<1>2. /\ Calm(w, k) /\ Same(w, k, EndFields \cup {"msg"}) /\ k' = exit_sched(w)
      /\ \A x \in All : x \in Blocked(w) <=> x \in Blocked(k) /\ k.blkobj[x] # o
  BY <1>1 DEF SentAll
<1>3. /\ w.pc = k.pc /\ w.wait = k.wait /\ w.active = k.active /\ w.intr = k.intr
      /\ SameObjects(w, k)
  BY <1>2, FieldNames DEF Same, EndFields, WakeFields, PriFields, SameObjects
<1>4. \A x \in Blocked(k) \ Blocked(w) : k.blkobj[x] \notin SyncObj
  BY <1>2, NotSync DEF Blocked
<1> QED
  BY <1>2, <1>3, <1>4, Elsewhere

\* krhino_queue_back_send, krhino_queue_all_send and krhino_buf_queue_send.
LEMMA SyncSend ==
  ASSUME Good(k), Calling(k), NEW o \in AnyQueue, NEW m \in Msg,
         buf_queue_send(o, m) \/ \E all \in BOOLEAN : msg_send(o, m, all)
  PROVE  SyncStep /\ Calling(k')
<1>1. CASE queue_push(o, m)
  BY <1>1, SyncRing
<1>2. CASE ~ queue_push(o, m)
  <2>1. /\ Sends /\ k.blk[o] # <<>>
        /\ \/ k' = exit_sched(task_msg_recv(k, Head(k.blk[o]), m))
           \/ k' = exit_sched(FoldLeft(LAMBDA r, t : task_msg_recv(r, t, m), k, k.blk[o]))
    BY <1>2 DEF buf_queue_send, msg_send
  <2>2. FromHere
    BY <2>1, FromAnywhere DEF Sends
  <2> QED
    BY <2>1, <2>2, SyncHanded, SyncToAll
<1> QED
  BY <1>1, <1>2

\* krhino_event_get.
LEMMA SyncEventGet ==
  ASSUME Good(k), Calling(k), NEW t \in Task, NEW e \in Event, NEW w \in Wants, NEW n \in GetTicks,
         krhino_event_get(t, e, w, n)
  PROVE  SyncStep /\ Calling(k')
<1>0. /\ Calls(t) /\ IsK(k) /\ Core(k) /\ k.active \in All
  BY SyncCaller, AllTypes DEF krhino_event_get
<1>1. CASE Met(w, k.flags[e])
  <2>1. PICK f : f = Cleared(w, k.flags[e])
    OBVIOUS
  <2>2. PICK q : q = [k EXCEPT !.flags[e] = f]
    OBVIOUS
  <2>3. Same(q, k, OtherFields) /\ q.live = k.live
    BY <1>0, <2>2, FieldNames DEF Same, IsK, OtherFields
  <2>4. k' = q
    BY <1>1, <2>1, <2>2 DEF krhino_event_get
  <2> QED
    BY <2>3, <2>4, OtherQuiet
<1>2. CASE ~ Met(w, k.flags[e])
  <2>1. PICK r : r = [k EXCEPT !.want[t] = w]
    OBVIOUS
  <2>2. k' = exit_sched_pend(pend_to_blk_obj(r, e, t, n), e)
    BY <1>2, <2>1 DEF krhino_event_get
  <2>3. Same(r, k, {"want"})
    BY <1>0, <2>1, FieldNames DEF Same, IsK
  <2>4. Same(r, k, StillFields) /\ r.active \in All
    BY <1>0, <2>3, FieldNames DEF Same, StillFields
  <2>5. Core(r)
    BY <1>0, <2>4, CoreStill
  <2>6. n \in (Nat \ {0}) \cup {WAIT_FOREVER}
    BY EventAssumption
  <2> QED
    BY <1>0, <2>2, <2>3, <2>5, <2>6, OtherPend
<1> QED
  BY <1>1, <1>2

\* krhino_event_set.
LEMMA SyncEventSet ==
  ASSUME Good(k), Calling(k), NEW e \in Event, NEW f \in SetFlags, NEW opt \in {"AND", "OR"},
         krhino_event_set(e, f, opt)
  PROVE  SyncStep /\ Calling(k')
<1>0. IsK(k) /\ FromHere
  BY AllTypes, FromAnywhere DEF Good, krhino_event_set
<1>1. CASE opt = "AND"
  <2>1. PICK g : g = k.flags[e] \cap f
    OBVIOUS
  <2>2. PICK q : q = [k EXCEPT !.flags[e] = g]
    OBVIOUS
  <2>3. Same(q, k, OtherFields) /\ q.live = k.live
    BY <1>0, <2>2, FieldNames DEF Same, IsK, OtherFields
  <2>4. k' = q
    BY <1>1, <2>1, <2>2 DEF krhino_event_set
  <2> QED
    BY <2>3, <2>4, OtherQuiet
<1>2. CASE opt = "OR"
  <2>1. PICK w : FlagsSet(w, e, k.flags[e] \cup f)
    BY <1>2, EventOr
  <2>2. Calm(w, k) /\ Same(w, k, EndFields \cup {"actl", "flags"}) /\ k' = exit_sched(w)
    BY <2>1 DEF FlagsSet
  <2>3. \A x \in Blocked(k) \ Blocked(w) : k.blkobj[x] = e
    BY <2>1 DEF FlagsSet
  <2>4. /\ w.pc = k.pc /\ w.wait = k.wait /\ w.active = k.active /\ w.intr = k.intr
        /\ SameObjects(w, k)
    BY <2>2, FieldNames DEF Same, EndFields, WakeFields, PriFields, SameObjects
  <2>5. \A x \in Blocked(k) \ Blocked(w) : k.blkobj[x] \notin SyncObj
    BY <2>3, NotSync
  <2> QED
    BY <1>0, <2>2, <2>4, <2>5, Elsewhere
<1> QED
  BY <1>1, <1>2

-----------------------------------------------------------------------------
\* Every step of the kernel is a step of RhinoSync or one it does not see.
LEMMA SyncNext ==
  ASSUME Good(k), Calling(k), Next
  PROVE  SyncStep /\ Calling(k')
<1>1. CASE SchedNext
  <2>1. CASE \E t \in All : core_sched(t) \/ pend_state_end_proc(t)
    BY <2>1, SyncCoreSched, SyncReturn
  <2>2. CASE krhino_intrpt_enter \/ krhino_intrpt_exit
    BY <2>2, SyncIntrpt
  <2>3. CASE krhino_tick_proc
    BY <2>3, SyncTick
  <2> QED
    BY <1>1, <2>1, <2>2, <2>3 DEF SchedNext
<1>2. CASE LockNext
  BY <1>2, SyncIntrpt, SyncSchedEnable DEF LockNext
<1>3. CASE SleepNext \/ SuspendNext \/ AbortNext
  BY <1>3, SyncSleep, SyncSuspend, SyncResume, SyncAbort DEF SleepNext, SuspendNext, AbortNext
<1>4. CASE PriNext
  BY <1>4, SyncPriSet, SyncPriCheck DEF PriNext
<1>5. CASE LifeNext
  BY <1>5, SyncDelTask, SyncCreateTask DEF LifeNext
<1>6. CASE RoundRobinNext
  BY <1>6, SyncRoundRobin
<1>7. CASE MutexNext
  BY <1>7, SyncMutexCount, SyncMutexPend, SyncUnlockLast
     DEF MutexNext, krhino_mutex_lock, krhino_mutex_unlock
<1>8. CASE MutexDelNext
  BY <1>8, SyncMutexCreate, SyncMutexDel DEF MutexDelNext
<1>9. CASE SemNext \/ SemDelNext
  BY <1>9, SyncSemGive, SyncSemTake, SyncSemDel, SyncSemCreate, SyncCountSet
     DEF SemNext, SemDelNext
<1>10. CASE QueueNext
  <2>1. CASE \/ \E q \in Queue, m \in Msg, w \in BOOLEAN : msg_send(q, m, w)
             \/ \E q \in BufQueue, m \in Msg : buf_queue_send(q, m)
    BY <2>1, SyncSend DEF AnyQueue
  <2>2. CASE \E q \in AnyQueue :
               \/ queue_recv_isr(q)
               \/ \E t \in Task : queue_flush(t, q) \/ \E n \in RecvTicks : queue_recv(t, q, n)
    BY <2>2, SyncRing, SyncQueueRecv
  <2> QED
    BY <1>10, <2>1, <2>2 DEF QueueNext
<1>11. CASE QueueDelNext
  BY <1>11, SyncQueueCreate, SyncQueueDel DEF QueueDelNext
<1>12. CASE EventNext
  BY <1>12, SyncEventSet, SyncEventGet DEF EventNext
<1>13. CASE EventDelNext
  BY <1>13, SyncEventDel, SyncEventCreate DEF EventDelNext
<1> QED
  BY <1>1, <1>2, <1>3, <1>4, <1>5, <1>6, <1>7, <1>8, <1>9, <1>10, <1>11, <1>12, <1>13 DEF Next

\* The kernel starts as RhinoSync does: nothing is owned and nobody waits.
LEMMA SyncStart ==
  ASSUME Init
  PROVE  Sync!SInit /\ Calling(k)
<1>1. PICK r : r = krhino_init
  OBVIOUS
<1>2. Same(k, r, {"rdy", "hi", "active"}) /\ IsK(r)
  BY <1>1, StartSame, InitFields
<1>3. /\ r.state = [t \in All |-> "RDY"] /\ r.pc = [t \in All |-> "user"]
      /\ r.owner = [m \in Mutex |-> NULL] /\ r.nested = [m \in Mutex |-> 0]
      /\ r.count = [s \in Sem |-> 0]
  BY <1>1 DEF krhino_init
<1>4. /\ k.state = [t \in All |-> "RDY"] /\ k.pc = [t \in All |-> "user"]
      /\ k.owner = [m \in Mutex |-> NULL] /\ k.nested = [m \in Mutex |-> 0]
      /\ k.count = [s \in Sem |-> 0]
  BY <1>2, <1>3, FieldNames DEF Same
<1>5. \A t \in Task : t \in All /\ k.state[t] = "RDY" /\ k.pc[t] = "user"
  BY <1>4 DEF All
<1>6. /\ Existing(k) = Task /\ WaitsFor(k, SyncObj) = [t \in Task |-> NULL]
      /\ GrantedOf(k, SyncObj) = [t \in Task |-> NULL]
  BY <1>5 DEF Existing, WaitsFor, GrantedOf
<1>7. LiveOf(k, SyncObj) \in SUBSET SyncObj
  BY DEF LiveOf
<1>8. Calling(k)
  BY <1>5 DEF Calling, Blocked
<1> QED
  BY <1>4, <1>6, <1>7, <1>8 DEF Sync!SInit, SyncObj, Sync!Obj

\* The kernel implements RhinoSync (ImplementsSync): whatever the interrupts cut
\* into, whoever is preempted, times out, is aborted, suspended, deleted or changes
\* its priority, what the callers of the mutexes and semaphores see is one of the
\* atomic steps RhinoSync lists.
THEOREM KernelImplementsSync == Spec => ImplementsSync
<1>1. Init => Sync!SInit /\ Calling(k)
  BY SyncStart
<1>2. KInv /\ Calling(k) /\ [Next]_vars => SyncStep /\ Calling(k)'
  <2>1. SUFFICES ASSUME KInv, Calling(k), [Next]_vars
                 PROVE  SyncStep /\ Calling(k)'
    OBVIOUS
  <2>2. Good(k)
    BY <2>1 DEF KInv
  <2>3. CASE Next
    <3>1. SyncStep /\ Calling(k')
      BY <2>1, <2>2, <2>3, SyncNext
    <3> QED
      BY <3>1 DEF Calling, Blocked
  <2>4. CASE UNCHANGED vars
    <3>1. k' = k
      BY <2>4 DEF vars
    <3>2. Calling(k)'
      BY <2>1, <3>1 DEF Calling, Blocked
    <3>3. SyncStep
      BY <3>1 DEF SyncStep, Sync!svars
    <3> QED
      BY <3>2, <3>3
  <2> QED
    BY <2>1, <2>3, <2>4
<1>3. SyncStep => [Sync!SNext]_(Sync!svars)
  BY DEF SyncStep
<1>4. Spec => []KInv
  BY KernelInvariant
<1> QED
  BY <1>1, <1>2, <1>3, <1>4, PTL DEF Spec, ImplementsSync, Sync!SSpec

\* What RhinoSync assumes of its constants the kernel guarantees.
LEMMA SyncConstants == Sync!SyncAssumption
BY CoreAssumption, SemAssumption DEF Sync!SyncAssumption, Sync!Obj, Obj, All

\* The inductive invariant of RhinoSync holds of the kernel.
LEMMA KernelSInv == Spec => []Sync!SInv
<1>1. Sync!SInit => Sync!SInv
  BY SyncConstants, Sync!InitSInv
<1>2. Sync!SInv /\ [Sync!SNext]_(Sync!svars) => Sync!SInv'
  BY SyncConstants, Sync!NextSInv
<1> QED
  BY <1>1, <1>2, KernelImplementsSync, PTL DEF ImplementsSync, Sync!SSpec

\* In the kernel nobody waits in vain (NoLostWakeup of RhinoSync): the owner of the
\* mutex a task waits for is another task that exists and has an unlock to do, the
\* semaphore a task waits for is empty, and what is waited for has not been deleted.
THEOREM KernelNoLostWakeup == Spec => []Sync!NoLostWakeup
<1>1. Sync!SInv => Sync!NoLostWakeup
  BY DEF Sync!SInv
<1> QED
  BY <1>1, KernelSInv, PTL

\* In the kernel a task whose blocked krhino_mutex_lock is going to return
\* RHINO_SUCCESS owns the mutex, and goes on to until the call returns, unless the
\* mutex is deleted before (GrantedIsOwner of RhinoSync).
THEOREM KernelGrantedIsOwner == Spec => []Sync!GrantedIsOwner
<1>1. Sync!SInv => Sync!GrantedIsOwner
  BY DEF Sync!SInv
<1> QED
  BY <1>1, KernelSInv, PTL
=============================================================================
