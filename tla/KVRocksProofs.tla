--------------------------- MODULE KVRocksProofs ---------------------------
(***************************************************************************)
(* For every number of objects, versions, failures and restarts: the types *)
(* of KVRocks, that backup and restore implement DataDir, that data or     *)
(* backup is whole unless a removal was cut short, and that a backup is    *)
(* ready only with data as new as when it, or a save still running then,   *)
(* began.                                                                  *)
(***************************************************************************)
EXTENDS KVRocks, FiniteSetTheorems, TLAPS

----------------------------------------------------------------------------
(* Types.                                                                  *)

\* A worker that is not idle has an item, and past the Running update a copy
\* with a resourceVersion.
TaskShape ==
    \A w \in Workers :
        /\ task[w].phase # "idle" => task[w].item \in Items
        /\ task[w].phase \notin {"idle", "handler"} => task[w].local \in Copies

TInv == TypeOK /\ TaskShape

\* A task that goes on in another phase keeps its item and its copy.
LEMMA GotoType ==
    ASSUME TInv, NEW w \in Workers, NEW p \in Phases \ {"idle", "handler"},
           task[w].phase \notin {"idle", "handler"},
           task' = [task EXCEPT ![w].phase = p]
    PROVE  task' \in [Workers -> Tasks] /\ TaskShape'
<1>1. task \in [Workers -> Tasks]  BY DEF TInv, TypeOK
<1>2. task[w] \in Tasks  BY <1>1
<1>3. [task[w] EXCEPT !.phase = p] \in Tasks  BY <1>2 DEF Tasks
<1>4. task' = [task EXCEPT ![w] = [task[w] EXCEPT !.phase = p]]  OBVIOUS
<1>5. task' \in [Workers -> Tasks]  BY <1>1, <1>3, <1>4
<1>6. ASSUME NEW v \in Workers
      PROVE  /\ task'[v].phase # "idle" => task'[v].item \in Items
             /\ task'[v].phase \notin {"idle", "handler"} => task'[v].local \in Copies
  <2>1. CASE v = w
    <3>1. task'[v] = [task[w] EXCEPT !.phase = p]  BY <1>1, <1>4, <2>1
    <3>2. task'[v].item = task[w].item /\ task'[v].local = task[w].local
      BY <1>2, <3>1 DEF Tasks
    <3> QED  BY <3>2 DEF TInv, TaskShape
  <2>2. CASE v # w
    <3>1. task'[v] = task[v]  BY <1>1, <1>4, <2>2
    <3> QED  BY <3>1 DEF TInv, TaskShape
  <2> QED  BY <2>1, <2>2
<1> QED  BY <1>5, <1>6 DEF TaskShape

\* A task becomes idle.
LEMMA IdleType ==
    ASSUME TInv, NEW w \in Workers, task' = [task EXCEPT ![w] = Idle]
    PROVE  task' \in [Workers -> Tasks] /\ TaskShape'
<1>1. task \in [Workers -> Tasks]  BY DEF TInv, TypeOK
<1>2. Idle \in Tasks /\ Idle.phase = "idle"
  BY BoundAssumption DEF Idle, Tasks, Phases, Versions, Contents, Gone
<1>3. task' \in [Workers -> Tasks]  BY <1>1, <1>2
<1>4. \A v \in Workers : task'[v] = IF v = w THEN Idle ELSE task[v]  BY <1>1
<1> QED  BY <1>2, <1>3, <1>4 DEF TInv, TaskShape

\* An item that fails goes to the set of delayed items.
LEMMA FailType ==
    ASSUME TInv, NEW w \in Workers, NEW c \in Copies, task[w].item \in Items, Fail(w, c)
    PROVE  /\ task' \in [Workers -> Tasks] /\ TaskShape'
           /\ retry' \in [Workers -> SUBSET Items]
<1>1. [task[w].item EXCEPT !.copy = c] \in Items  BY DEF Items
<1>2. retry \in [Workers -> SUBSET Items]  BY DEF TInv, TypeOK
<1>3. retry' \in [Workers -> SUBSET Items]  BY <1>1, <1>2 DEF Fail
<1> QED  BY <1>3, IdleType DEF Fail

\* What updateStatus writes is a copy.
LEMMA UpdateStatusType ==
    ASSUME TInv, NEW w \in Workers, NEW c \in Copies, NEW s \in States,
           NEW ok \in BOOLEAN, UpdateStatus(w, c, s, ok)
    PROVE  /\ cr' \in [Objects -> Copies \cup {NoCopy}]
           /\ faults' \in 0 .. MaxFaults
           /\ Marked(c, s) \in Copies /\ Stored(c, s) \in Copies
<1>1. Marked(c, s) \in Copies  BY DEF Copies, Marked
<1>2. Stored(c, s) \in Copies  BY <1>1 DEF Copies, Stored
<1>3. cr \in [Objects -> Copies \cup {NoCopy}]  BY DEF TInv, TypeOK
<1>4. cr' \in [Objects -> Copies \cup {NoCopy}]
  BY <1>2, <1>3 DEF UpdateStatus
<1>5. faults' \in 0 .. MaxFaults
  BY BoundAssumption DEF UpdateStatus, Works, Breaks, TInv, TypeOK
<1> QED  BY <1>1, <1>2, <1>4, <1>5

\* An event for a copy can be queued.
LEMMA EnqueueType ==
    ASSUME TInv, NEW o \in Objects, NEW c \in Copies, NEW a \in {"ADD", "DELETE"},
           Enqueue(a, o, c)
    PROVE  queue' \in [Workers -> Seq(Items)]
<1>1. [action |-> a, name |-> o, copy |-> c] \in Items  BY DEF Items
<1>2. queue \in [Workers -> Seq(Items)]  BY DEF TInv, TypeOK
<1>3. WorkerOf(o) \in Workers  BY DEF WorkerOf, Workers
<1>4. Append(queue[WorkerOf(o)], [action |-> a, name |-> o, copy |-> c]) \in Seq(Items)
  BY <1>1, <1>2, <1>3
<1> QED  BY <1>2, <1>4 DEF Enqueue

\* The initial state.
LEMMA TInvInit == Init => TInv
<1> SUFFICES ASSUME Init PROVE TInv  OBVIOUS
<1>1. \A w \in Workers : task[w] = Idle  BY DEF Init
<1>2. Idle \in Tasks /\ Idle.phase = "idle"
  BY BoundAssumption DEF Idle, Tasks, Phases, Versions, Contents, Gone
<1>3. TaskShape  BY <1>1, <1>2 DEF TaskShape
<1>4. task \in [Workers -> Tasks]  BY <1>2 DEF Init
<1>5. queue \in [Workers -> Seq(Items)] /\ retry \in [Workers -> SUBSET Items]  BY DEF Init
<1>6. cr \in [Objects -> Copies \cup {NoCopy}]  BY DEF Init
<1>7. pod \in BOOLEAN /\ overlapped \in BOOLEAN /\ cut \in BOOLEAN  BY Zenon DEF Init
<1>8. /\ uids \in 0 .. MaxUids /\ replicas \in {0, 1} /\ writes \in 1 .. MaxWrites
      /\ saving \in Contents /\ db \in Contents /\ bak \in Contents
      /\ faults \in 0 .. MaxFaults /\ crashes \in 0 .. MaxCrashes
  BY BoundAssumption DEF Init, Versions, Contents, Gone
<1> QED  BY <1>3, <1>4, <1>5, <1>6, <1>7, <1>8 DEF TInv, TypeOK

\* An item a worker handles.
LEMMA HandlerItem ==
    ASSUME TInv, NEW w \in Workers, task[w].phase # "idle"
    PROVE  /\ task[w].item \in Items /\ Copy(w) \in Copies
           /\ task[w].phase \notin {"idle", "handler"} => task[w].local \in Copies
<1>1. task[w].item \in Items  BY DEF TInv, TaskShape
<1>2. Copy(w) \in Copies  BY <1>1 DEF Copy, Items
<1> QED  BY <1>1, <1>2 DEF TInv, TaskShape

\* The steps that only move a worker to its next phase, or change kvrocks or its
\* directories at the same time.
LEMMA TInvMoves ==
    ASSUME TInv, BackupSteps \/ RestoreSteps \/ \E w \in Workers : CallFails(w)
    PROVE  TInv'
<1>1. ASSUME NEW w \in Workers, NEW p \in Phases \ {"idle", "handler"},
             task[w].phase \notin {"idle", "handler"}, Goto(w, p), UNCHANGED <<obj_vars, queue>>,
             replicas' \in {0, 1}, UNCHANGED <<pod, writes, crashes>>,
             saving' \in Contents, db' \in Contents, bak' \in Contents,
             faults' \in 0 .. MaxFaults, overlapped' \in BOOLEAN, cut' \in BOOLEAN
      PROVE  TInv'
  BY <1>1, GotoType DEF Goto, obj_vars, TInv, TypeOK
<1>w. "backup" \in Workers /\ "restore" \in Workers  BY DEF Workers
<1>g. Gone \in Contents /\ Part \in Contents  BY DEF Contents
<1>h. HalfRemoved \in BOOLEAN /\ Relies \in BOOLEAN /\ BackingUp \in BOOLEAN
  BY DEF HalfRemoved, Removing, Relies, BackingUp
<1>2. ASSUME Breaks PROVE faults' \in 0 .. MaxFaults
  BY <1>2, BoundAssumption DEF Breaks, TInv, TypeOK
<1>3. CASE Connect
  <2>1. task["backup"] \in Tasks /\ task \in [Workers -> Tasks]  BY <1>w DEF TInv, TypeOK
  <2>2. task["backup"].item \in Items /\ task["backup"].local \in Copies
    BY <1>3, <1>w, HandlerItem DEF Connect
  <2> DEFINE t == [task["backup"] EXCEPT !.phase = IF pod THEN "remove" ELSE "error",
                                         !.since = IF saving = Gone THEN db ELSE saving]
  <2>3. db \in Contents /\ saving \in Contents  BY DEF TInv, TypeOK
  <2>4. t \in Tasks /\ t.item \in Items /\ t.local \in Copies
    BY <2>1, <2>2, <2>3 DEF Tasks, Phases
  <2>5. task' = [task EXCEPT !["backup"] = t]  BY <1>3 DEF Connect
  <2> HIDE DEF t
  <2>6. task' \in [Workers -> Tasks]  BY <2>1, <2>4, <2>5
  <2>7. \A v \in Workers : task'[v] = IF v = "backup" THEN t ELSE task[v]  BY <2>1, <2>5
  <2>8. TaskShape'  BY <2>4, <2>7 DEF TaskShape, TInv
  <2> QED
    BY <1>3, <2>6, <2>8 DEF Connect, Local, TInv, TypeOK, obj_vars, kvr_vars, cnt_vars
<1>4. CASE RemovePrev
  BY <1>1, <1>4, <1>w, <1>g, <1>h DEF RemovePrev, Phases, TInv, TypeOK, cnt_vars
<1>5. CASE BgSave
  BY <1>1, <1>2, <1>5, <1>w DEF BgSave, Phases, TInv, TypeOK, Works
<1>6. CASE BackupComplete
  <2>1. task["backup"] \in Tasks /\ task \in [Workers -> Tasks]  BY <1>w DEF TInv, TypeOK
  <2>2. task["backup"].item \in Items /\ task["backup"].local \in Copies
    BY <1>6, <1>w, HandlerItem DEF BackupComplete
  <2> DEFINE c == [task["backup"].local EXCEPT !.path = TRUE]
             t == [task["backup"] EXCEPT !.phase = "ready", !.local = c]
  <2>3. c \in Copies  BY <2>2 DEF Copies
  <2>5. task' = [task EXCEPT !["backup"] = t]  BY <1>6 DEF BackupComplete
  <2> HIDE DEF c
  <2>4. t \in Tasks /\ t.item \in Items /\ t.local \in Copies
    BY <2>1, <2>2, <2>3 DEF Tasks, Phases
  <2> HIDE DEF t
  <2>6. task' \in [Workers -> Tasks]  BY <2>1, <2>4, <2>5
  <2>7. \A v \in Workers : task'[v] = IF v = "backup" THEN t ELSE task[v]  BY <2>1, <2>5
  <2>8. TaskShape'  BY <2>4, <2>7 DEF TaskShape, TInv
  <2> QED
    BY <1>6, <2>6, <2>8 DEF BackupComplete, Local, TInv, TypeOK, obj_vars, kvr_vars, cnt_vars
<1>7. CASE BackupTimeout
  BY <1>1, <1>7, <1>w DEF BackupTimeout, Phases, TInv, TypeOK, Local, kvr_vars, cnt_vars
<1>8. CASE RemoveFiles
  <2>1. task' \in [Workers -> Tasks] /\ TaskShape' /\ UNCHANGED retry
    BY <1>8, <1>w, IdleType DEF RemoveFiles, Return
  <2>2. faults' \in 0 .. MaxFaults  BY <1>2, <1>8 DEF RemoveFiles, Works, TInv, TypeOK
  <2>3. bak' \in Contents /\ overlapped' \in BOOLEAN /\ cut' \in BOOLEAN
    BY <1>8, <1>g, <1>h DEF RemoveFiles, TInv, TypeOK
  <2> QED  BY <1>8, <2>1, <2>2, <2>3 DEF RemoveFiles, TInv, TypeOK, obj_vars
<1>9. CASE StatBackup
  BY <1>1, <1>9, <1>w, <1>h DEF StatBackup, Phases, TInv, TypeOK, kvr_vars, cnt_vars
<1>10. CASE ScaleDown
  BY <1>1, <1>2, <1>10, <1>w DEF ScaleDown, Scale, Phases, TInv, TypeOK, Works
<1>11. CASE PodsClosed
  BY <1>1, <1>11, <1>w DEF PodsClosed, Phases, TInv, TypeOK, Local, kvr_vars, cnt_vars
<1>12. CASE EraseDb
  BY <1>1, <1>12, <1>w, <1>g DEF EraseDb, Phases, TInv, TypeOK, cnt_vars
<1>13. CASE Rename
  BY <1>1, <1>13, <1>w, <1>g, <1>h DEF Rename, Phases, TInv, TypeOK, cnt_vars
<1>14. CASE ScaleUp
  BY <1>1, <1>2, <1>14, <1>w DEF ScaleUp, Scale, Phases, TInv, TypeOK, Works
<1>15. CASE PodsStarted
  BY <1>1, <1>15, <1>w DEF PodsStarted, Phases, TInv, TypeOK, Local, kvr_vars, cnt_vars
<1>16. CASE IgnoreDelete
  <2>1. task' \in [Workers -> Tasks] /\ TaskShape' /\ UNCHANGED retry
    BY <1>16, <1>w, IdleType DEF IgnoreDelete, Return
  <2> QED  BY <1>16, <2>1 DEF IgnoreDelete, Local, TInv, TypeOK, obj_vars, kvr_vars, cnt_vars
<1>17. CASE \E w \in Workers : CallFails(w)
  BY <1>1, <1>2, <1>17, <1>h DEF CallFails, Phases, TInv, TypeOK, kvr_vars
<1>18. CASE RemoveSome \/ EraseSome
  <2>1. UNCHANGED <<obj_vars, ctl_vars, task, replicas, pod, saving, writes, cnt_vars, cut>>
    BY <1>18 DEF RemoveSome, EraseSome
  <2>2. db' \in Contents /\ bak' \in Contents /\ overlapped' \in BOOLEAN
    BY <1>18, <1>g, <1>h DEF RemoveSome, EraseSome, TInv, TypeOK
  <2> QED  BY <2>1, <2>2 DEF TInv, TypeOK, TaskShape, obj_vars, ctl_vars, cnt_vars
<1> QED
  BY <1>18, <1>3, <1>4, <1>5, <1>6, <1>7, <1>8, <1>9, <1>10, <1>11, <1>12, <1>13, <1>14, <1>15,
     <1>16, <1>17 DEF BackupSteps, RestoreSteps

\* The part of handler() that both controllers share.
LEMMA TInvHandler ==
    ASSUME TInv, NEW w \in Workers, Handler(w) \/ FindFails(w)
    PROVE  TInv'
<1> DEFINE Rest == UNCHANGED <<uids, queue, kvr_vars, crashes, overlapped, cut>>
<1>1. ASSUME cr' \in [Objects -> Copies \cup {NoCopy}], faults' \in 0 .. MaxFaults, Rest,
             task' \in [Workers -> Tasks], TaskShape', retry' \in [Workers -> SUBSET Items]
      PROVE  TInv'
  BY <1>1 DEF TInv, TypeOK, kvr_vars
<1>2. cr \in [Objects -> Copies \cup {NoCopy}] /\ retry \in [Workers -> SUBSET Items]
  BY DEF TInv, TypeOK
<1>3. ASSUME Works \/ Breaks PROVE faults' \in 0 .. MaxFaults
  BY <1>3, BoundAssumption DEF Works, Breaks, TInv, TypeOK
<1>s. "error" \in States /\ "running" \in States /\ "ready" \in States  BY DEF States
<1>4. CASE IgnoreFinished(w)
  <2>1. task' \in [Workers -> Tasks] /\ TaskShape' /\ UNCHANGED retry
    BY <1>4, IdleType DEF IgnoreFinished, Return
  <2>2. Rest /\ UNCHANGED <<cr, faults>>  BY <1>4 DEF IgnoreFinished, obj_vars, cnt_vars
  <2>3. faults \in 0 .. MaxFaults  BY DEF TInv, TypeOK
  <2> QED  BY <1>1, <1>2, <2>1, <2>2, <2>3
<1>5. CASE RefuseUnnamed(w)
  <2>1. task[w].item \in Items /\ Copy(w) \in Copies
    BY <1>5, HandlerItem DEF RefuseUnnamed, InHandler
  <2>2. PICK ok \in BOOLEAN : UpdateStatus(w, Copy(w), "error", ok)
    BY <1>5 DEF RefuseUnnamed
  <2>3. /\ cr' \in [Objects -> Copies \cup {NoCopy}] /\ faults' \in 0 .. MaxFaults
        /\ Marked(Copy(w), "error") \in Copies
    BY <1>s, <2>1, <2>2, UpdateStatusType
  <2>4. PICK c \in Copies : Fail(w, c)  BY <1>5, <2>1, <2>3 DEF RefuseUnnamed
  <2>5. /\ task' \in [Workers -> Tasks] /\ TaskShape' /\ retry' \in [Workers -> SUBSET Items]
    BY <2>1, <2>4, FailType
  <2>6. Rest  BY <1>5 DEF RefuseUnnamed
  <2> QED  BY <1>1, <2>3, <2>5, <2>6
<1>6. CASE MarkRunning(w)
  <2>1. task[w].item \in Items /\ Copy(w) \in Copies
    BY <1>6, HandlerItem DEF MarkRunning, InHandler
  <2>2. Rest  BY <1>6 DEF MarkRunning
  <2>3. PICK ok \in BOOLEAN :
          /\ UpdateStatus(w, Copy(w), "running", ok)
          /\ IF ok
               THEN /\ task' = [task EXCEPT ![w] =
                         [phase |-> IF w = "backup" THEN "connect" ELSE "stat",
                          item  |-> [@.item EXCEPT !.copy = Marked(Copy(w), "running")],
                          local |-> Stored(Copy(w), "running"),
                          since |-> 0]]
                    /\ UNCHANGED retry
               ELSE Fail(w, Marked(Copy(w), "running"))
    BY <1>6 DEF MarkRunning
  <2> DEFINE m == Marked(Copy(w), "running")
             l == Stored(Copy(w), "running")
             i == [task[w].item EXCEPT !.copy = m]
             t == [phase |-> IF w = "backup" THEN "connect" ELSE "stat",
                   item |-> i, local |-> l, since |-> 0]
  <2>4. /\ cr' \in [Objects -> Copies \cup {NoCopy}] /\ faults' \in 0 .. MaxFaults
        /\ m \in Copies /\ l \in Copies
    BY <1>s, <2>1, <2>3, UpdateStatusType
  <2>5. CASE ~ok
    <3>1. Fail(w, m)  BY <2>3, <2>5
    <3>2. task' \in [Workers -> Tasks] /\ TaskShape' /\ retry' \in [Workers -> SUBSET Items]
      BY <2>1, <2>4, <3>1, FailType
    <3> QED  BY <1>1, <2>2, <2>4, <3>2
  <2>6. CASE ok
    <3>1. task' = [task EXCEPT ![w] = t] /\ UNCHANGED retry  BY <2>3, <2>6
    <3> HIDE DEF m, l
    <3>2. i \in Items  BY <2>1, <2>4 DEF Items
    <3> HIDE DEF i
    <3>3. t \in Tasks /\ t.item \in Items /\ t.local \in Copies
      BY <2>4, <3>2, BoundAssumption DEF Tasks, Phases, Versions, Contents
    <3> HIDE DEF t
    <3>4. task \in [Workers -> Tasks]  BY DEF TInv, TypeOK
    <3>5. task' \in [Workers -> Tasks]  BY <3>1, <3>3, <3>4
    <3>6. \A v \in Workers : task'[v] = IF v = w THEN t ELSE task[v]  BY <3>1, <3>4
    <3>7. TaskShape'  BY <3>3, <3>6 DEF TaskShape, TInv
    <3> QED  BY <1>1, <1>2, <2>2, <2>4, <3>1, <3>5, <3>7
  <2> QED  BY <2>5, <2>6
<1>7. CASE MarkReady(w)
  <2>1. task[w].local \in Copies  BY <1>7, HandlerItem DEF MarkReady
  <2>2. cr' \in [Objects -> Copies \cup {NoCopy}] /\ faults' \in 0 .. MaxFaults
    BY <1>7, <1>s, <2>1, UpdateStatusType DEF MarkReady
  <2>3. task' \in [Workers -> Tasks] /\ TaskShape' /\ UNCHANGED retry /\ Rest
    BY <1>7, IdleType DEF MarkReady, Return
  <2> QED  BY <1>1, <1>2, <2>2, <2>3
<1>8. CASE MarkError(w)
  <2>1. task[w].local \in Copies /\ task[w].item \in Items /\ Copy(w) \in Copies
    BY <1>8, HandlerItem DEF MarkError
  <2>2. cr' \in [Objects -> Copies \cup {NoCopy}] /\ faults' \in 0 .. MaxFaults
    BY <1>8, <1>s, <2>1, UpdateStatusType DEF MarkError
  <2>3. task' \in [Workers -> Tasks] /\ TaskShape' /\ retry' \in [Workers -> SUBSET Items] /\ Rest
    BY <1>8, <2>1, FailType DEF MarkError
  <2> QED  BY <1>1, <2>2, <2>3
<1>9. CASE FindFails(w)
  <2>1. task[w].item \in Items /\ Copy(w) \in Copies
    BY <1>9, HandlerItem DEF FindFails, InHandler
  <2>2. task' \in [Workers -> Tasks] /\ TaskShape' /\ retry' \in [Workers -> SUBSET Items]
    BY <1>9, <2>1, FailType DEF FindFails
  <2>3. Rest /\ UNCHANGED cr /\ faults' \in 0 .. MaxFaults
    BY <1>3, <1>9 DEF FindFails, obj_vars
  <2> QED  BY <1>1, <1>2, <2>2, <2>3
<1> QED  BY <1>4, <1>5, <1>6, <1>7, <1>8, <1>9 DEF Handler

\* Objects, queues and kvrocks itself.
LEMMA TInvQueue ==
    ASSUME TInv,
           \/ \E o \in Objects : CreateObject(o) \/ DeleteObject(o)
           \/ \E w \in Workers : Get(w) \/ Requeue(w)
    PROVE  TInv'
<1>1. ASSUME queue' \in [Workers -> Seq(Items)], retry' \in [Workers -> SUBSET Items],
             cr' \in [Objects -> Copies \cup {NoCopy}], uids' \in 0 .. MaxUids,
             task' \in [Workers -> Tasks], TaskShape', UNCHANGED <<kvr_vars, cnt_vars, overlapped, cut>>
      PROVE  TInv'
  BY <1>1 DEF TInv, TypeOK, kvr_vars, cnt_vars
<1>2. /\ cr \in [Objects -> Copies \cup {NoCopy}] /\ uids \in 0 .. MaxUids
      /\ queue \in [Workers -> Seq(Items)] /\ retry \in [Workers -> SUBSET Items]
      /\ task \in [Workers -> Tasks] /\ TaskShape
  BY DEF TInv, TypeOK
<1>3. ASSUME UNCHANGED task PROVE task' \in [Workers -> Tasks] /\ TaskShape'
  BY <1>2, <1>3 DEF TaskShape
<1>4. ASSUME NEW o \in Objects, CreateObject(o) PROVE TInv'
  <2>1. PICK n \in BOOLEAN :
          /\ cr' = [cr EXCEPT ![o] = [NoCopy EXCEPT !.uid = uids + 1, !.named = n]]
          /\ Enqueue("ADD", o, [NoCopy EXCEPT !.uid = uids + 1, !.named = n])
    BY <1>4 DEF CreateObject
  <2> DEFINE c == [NoCopy EXCEPT !.uid = uids + 1, !.named = n]
  <2>a. uids < MaxUids /\ uids' = uids + 1  BY <1>4 DEF CreateObject
  <2>b. uids \in 0 .. MaxUids  BY <1>2
  <2>2. uids + 1 \in 1 .. MaxUids /\ uids' = uids + 1  BY <2>a, <2>b, BoundAssumption
  <2>3. c \in Copies  BY <2>2 DEF NoCopy, Copies, States
  <2>4. Enqueue("ADD", o, c) /\ cr' = [cr EXCEPT ![o] = c]  BY <2>1
  <2> HIDE DEF c
  <2>5. queue' \in [Workers -> Seq(Items)]  BY <2>3, <2>4, EnqueueType
  <2>6. cr' \in [Objects -> Copies \cup {NoCopy}]  BY <1>2, <2>3, <2>4
  <2>7. uids' \in 0 .. MaxUids  BY <2>2
  <2>8. UNCHANGED <<retry, task, kvr_vars, cnt_vars, overlapped, cut>>  BY <1>4 DEF CreateObject
  <2> QED  BY <1>1, <1>2, <1>3, <2>5, <2>6, <2>7, <2>8
<1>5. ASSUME NEW o \in Objects, DeleteObject(o) PROVE TInv'
  <2>1. cr[o] \in Copies /\ Enqueue("DELETE", o, cr[o])  BY <1>2, <1>5 DEF DeleteObject
  <2>2. queue' \in [Workers -> Seq(Items)]  BY <2>1, EnqueueType
  <2>3. cr' \in [Objects -> Copies \cup {NoCopy}]  BY <1>2, <1>5 DEF DeleteObject
  <2>4. UNCHANGED <<uids, retry, task, kvr_vars, cnt_vars, overlapped, cut>>
    BY <1>5 DEF DeleteObject
  <2> QED  BY <1>1, <1>2, <1>3, <2>2, <2>3, <2>4
<1>6. ASSUME NEW w \in Workers, Get(w) PROVE TInv'
  <2> DEFINE h == Head(queue[w])
             t == [Idle EXCEPT !.phase = "handler", !.item = h]
  <2>1. queue[w] \in Seq(Items) /\ queue[w] # <<>>  BY <1>2, <1>6 DEF Get
  <2>2. h \in Items /\ Tail(queue[w]) \in Seq(Items)  BY <2>1
  <2>4. task' = [task EXCEPT ![w] = t]  BY <1>6 DEF Get
  <2> HIDE DEF h
  <2>a. Idle \in Tasks  BY BoundAssumption DEF Idle, Tasks, Phases, Versions, Contents
  <2>3. t \in Tasks /\ t.item \in Items /\ t.phase = "handler"
    BY <2>2, <2>a DEF Tasks, Phases
  <2> HIDE DEF t
  <2>5. task' \in [Workers -> Tasks]  BY <1>2, <2>3, <2>4
  <2>6. \A v \in Workers : task'[v] = IF v = w THEN t ELSE task[v]  BY <1>2, <2>4
  <2>7. TaskShape'  BY <1>2, <2>3, <2>6 DEF TaskShape
  <2>8. queue' \in [Workers -> Seq(Items)]  BY <1>2, <1>6, <2>2 DEF Get
  <2>9. UNCHANGED <<cr, uids, retry, kvr_vars, cnt_vars, overlapped, cut>>  BY <1>6 DEF Get, obj_vars
  <2> QED  BY <1>1, <1>2, <2>5, <2>7, <2>8, <2>9
<1>7. ASSUME NEW w \in Workers, Requeue(w) PROVE TInv'
  <2>1. PICK i \in retry[w] : /\ queue' = [queue EXCEPT ![w] = Append(@, i)]
                              /\ retry' = [retry EXCEPT ![w] = @ \ {i}]
    BY <1>7 DEF Requeue
  <2>2. i \in Items /\ queue[w] \in Seq(Items)  BY <1>2
  <2>3. Append(queue[w], i) \in Seq(Items)  BY <2>2
  <2>4. queue' \in [Workers -> Seq(Items)] /\ retry' \in [Workers -> SUBSET Items]
    BY <1>2, <2>1, <2>3
  <2>5. UNCHANGED <<cr, uids, task, kvr_vars, cnt_vars, overlapped, cut>>
    BY <1>7 DEF Requeue, obj_vars
  <2> QED  BY <1>1, <1>2, <1>3, <2>4, <2>5
<1> QED  BY <1>4, <1>5, <1>6, <1>7

\* A list of objects is a queue of ADD events.
LEMMA AddedType ==
    ASSUME TInv, NEW w \in Workers, NEW s \in Orders(Listed(w))
    PROVE  Added(s) \in Seq(Items)
<1> DEFINE S == Listed(w)
           n == Cardinality(S)
<1>1. IsFiniteSet(Objects)  BY NamesAssumption, FS_Union DEF Objects
<1>2. S \subseteq Objects  BY DEF Listed
<1>3. IsFiniteSet(S)  BY <1>1, <1>2, FS_Subset
<1>4. n \in Nat  BY <1>3, FS_CardinalityType
<1>5. s \in [1 .. n -> S]  BY DEF Orders
<1>6. cr \in [Objects -> Copies \cup {NoCopy}]  BY DEF TInv, TypeOK
<1>7. \A o \in S : o \in Objects /\ cr[o] \in Copies  BY <1>2, <1>6 DEF Listed
<1> HIDE DEF S, n
<1>8. ASSUME NEW k \in 1 .. n
      PROVE  [action |-> "ADD", name |-> s[k], copy |-> cr[s[k]]] \in Items
  <2>1. s[k] \in S  BY <1>5
  <2> QED  BY <1>7, <2>1 DEF Items
<1>9. Added(s) = [k \in 1 .. n |-> [action |-> "ADD", name |-> s[k], copy |-> cr[s[k]]]]
  BY <1>5 DEF Added
<1> QED  BY <1>4, <1>8, <1>9

\* kvrocks, its clients, and restarts of the operator.
LEMMA TInvEnvironment ==
    ASSUME TInv, Write \/ SaveDone \/ PodStops \/ PodStarts \/ Restart
    PROVE  TInv'
<1>1. ASSUME UNCHANGED task PROVE TaskShape'
  BY <1>1 DEF TInv, TaskShape
<1>2. CASE Write
  <2>1. db' \in Contents /\ writes' \in 1 .. MaxWrites
    <3>1. /\ writes < MaxWrites /\ writes' = writes + 1
          /\ db' = IF db = Part THEN Part ELSE writes + 1
      BY <1>2 DEF Write
    <3>2. writes \in 1 .. MaxWrites  BY DEF TInv, TypeOK
    <3> QED  BY <3>1, <3>2, BoundAssumption DEF Versions, Contents
  <2> QED  BY <1>1, <1>2, <2>1 DEF Write, TInv, TypeOK, obj_vars, ctl_vars, cnt_vars
<1>g. Gone \in Contents  BY DEF Contents
<1>3. CASE SaveDone
  BY <1>1, <1>3, <1>g DEF SaveDone, TInv, TypeOK, obj_vars, ctl_vars, cnt_vars
<1>4. CASE PodStops
  BY <1>1, <1>4, <1>g DEF PodStops, TInv, TypeOK, obj_vars, ctl_vars, cnt_vars
<1>5. CASE PodStarts
  <2>1. 0 \in Contents  BY BoundAssumption DEF Versions, Contents
  <2>2. db' \in Contents  BY <1>5, <2>1 DEF PodStarts, TInv, TypeOK
  <2> QED  BY <1>1, <1>5, <2>2 DEF PodStarts, TInv, TypeOK, obj_vars, ctl_vars, cnt_vars
<1>6. CASE Restart
  <2>1. crashes' \in 0 .. MaxCrashes
    <3>1. crashes < MaxCrashes /\ crashes' = crashes + 1  BY <1>6 DEF Restart
    <3>2. crashes \in 0 .. MaxCrashes  BY DEF TInv, TypeOK
    <3> QED  BY <3>1, <3>2, BoundAssumption
  <2>2. queue' \in [Workers -> Seq(Items)]
    <3>1. PICK b \in Orders(Listed("backup")), r \in Orders(Listed("restore")) :
            queue' = [w \in Workers |-> Added(IF w = "backup" THEN b ELSE r)]
      BY <1>6 DEF Restart
    <3>2. Added(b) \in Seq(Items) /\ Added(r) \in Seq(Items)  BY AddedType DEF Workers
    <3> QED  BY <3>1, <3>2
  <2>3. \A w \in Workers : task'[w] = Idle  BY <1>6 DEF Restart
  <2>4. Idle \in Tasks /\ Idle.phase = "idle"
    BY BoundAssumption DEF Idle, Tasks, Phases, Versions, Contents, Gone
  <2>5. TaskShape'  BY <2>3, <2>4 DEF TaskShape
  <2>6. task' \in [Workers -> Tasks]  BY <1>6, <2>4 DEF Restart
  <2>7. retry' \in [Workers -> SUBSET Items]  BY <1>6 DEF Restart
  <2>8. cut' \in BOOLEAN  BY <1>6 DEF Restart, HalfRemoved, Removing, TInv, TypeOK
  <2> QED
    BY <1>6, <2>1, <2>2, <2>5, <2>6, <2>7, <2>8 DEF Restart, TInv, TypeOK, obj_vars, kvr_vars
<1> QED  BY <1>2, <1>3, <1>4, <1>5, <1>6

\* Every step keeps the types.
LEMMA TInvStep == TInv /\ [Next]_vars => TInv'
<1> SUFFICES ASSUME TInv, [Next]_vars PROVE TInv'  OBVIOUS
<1>1. CASE UNCHANGED vars
  BY <1>1 DEF vars, obj_vars, ctl_vars, kvr_vars, cnt_vars, TInv, TypeOK, TaskShape
<1>2. CASE Next
  BY <1>2, TInvMoves, TInvHandler, TInvQueue, TInvEnvironment DEF Next
<1> QED  BY <1>1, <1>2

\* Objects, queue items, the workers' local copies and the directories are of
\* their types whatever fails and however often the operator restarts.
THEOREM TypeCorrect == Spec => []TypeOK
<1>1. TInv => TypeOK  BY DEF TInv
<1> QED  BY <1>1, TInvInit, TInvStep, PTL DEF Spec

----------------------------------------------------------------------------
(* The data directory.                                                     *)

\* The restore works on the directories only while the StatefulSet has no
\* replicas, and then after kvrocks is gone; kvrocks, running or to be started,
\* has a database.
Stopped ==
    LET phase == task["restore"].phase IN
    /\ phase \in {"closing", "erase", "rename", "up"} => replicas = 0
    /\ phase \in {"erase", "rename", "up"} => ~pod
    /\ phase = "rename" => db = Gone
    /\ phase = "up" => db # Gone
    /\ replicas = 1 \/ pod => db # Gone

\* Nobody disturbed a restore, and no removal was cut short: only the backup
\* worker has the directory half removed; until the rename a restore has its
\* backup; and what kvrocks has, or will start with, or has saved, is whole.
Whole ==
    ~overlapped /\ ~cut =>
        /\ bak = Part => Removing
        /\ task["restore"].phase \in {"down", "closing", "erase", "rename"} => bak \in Versions
        /\ task["restore"].phase = "up" \/ replicas = 1 \/ pod => db \in Versions
        /\ saving # Gone => saving \in Versions
        /\ db \in Versions \/ bak \in Versions

DInv == Stopped /\ Whole

LEMMA DInvInit == Init => DInv
<1> SUFFICES ASSUME Init PROVE DInv  OBVIOUS
<1>1. task["restore"].phase = "idle"  BY DEF Init, Idle, Workers
<1>2. db \in Versions /\ db # Gone /\ saving = Gone /\ bak # Part
  BY BoundAssumption DEF Init, Gone, Part, Versions
<1> QED  BY <1>1, <1>2 DEF DInv, Stopped, Whole

\* Contents are told apart.
LEMMA Kinds == Gone \notin Versions /\ Part \notin Versions /\ Gone # Part
BY BoundAssumption DEF Gone, Part, Versions

\* What a step does to the phases of the workers.
LEMMA PhaseOf ==
    ASSUME TInv, NEW w \in Workers
    PROVE  /\ \A t : task' = [task EXCEPT ![w] = t] =>
                task'[w] = t /\ \A v \in Workers \ {w} : task'[v] = task[v]
           /\ \A p : Goto(w, p) =>
                task'[w].phase = p /\ \A v \in Workers \ {w} : task'[v] = task[v]
<1>1. task \in [Workers -> Tasks]  BY DEF TInv, TypeOK
<1>2. ASSUME NEW t, task' = [task EXCEPT ![w] = t]
      PROVE  task'[w] = t /\ \A v \in Workers \ {w} : task'[v] = task[v]
  BY <1>1, <1>2
<1>3. ASSUME NEW p, Goto(w, p)
      PROVE  task'[w].phase = p /\ \A v \in Workers \ {w} : task'[v] = task[v]
  <2>1. task' = [task EXCEPT ![w] = [task[w] EXCEPT !.phase = p]]  BY <1>3 DEF Goto
  <2>2. task[w] \in Tasks  BY <1>1
  <2>3. [task[w] EXCEPT !.phase = p].phase = p  BY <2>2 DEF Tasks
  <2> QED  BY <1>1, <2>1, <2>3
<1> QED  BY <1>2, <1>3

\* Whether the directory is being removed depends on the backup worker only.
LEMMA RemovingKept == task'["backup"] = task["backup"] => Removing' = Removing
BY DEF Removing, InHandler, Copy

LEMMA NotRemoving ==
    ASSUME \/ task["backup"].phase \notin {"handler", "remove"}
           \/ InHandler("backup", "ADD")
    PROVE  ~Removing
BY DEF Removing, InHandler

\* A step that leaves the directories and kvrocks alone, takes the restore worker
\* nowhere where they matter, and leaves no directory half removed unnoticed.
LEMMA DInvQuiet ==
    ASSUME DInv, UNCHANGED <<replicas, pod, saving, db, bak, overlapped>>, cut => cut',
           HalfRemoved => Removing' \/ cut',
           \/ task'["restore"].phase = task["restore"].phase
           \/ task'["restore"].phase
                \notin {"down", "closing", "erase", "rename", "up"}
    PROVE  DInv' /\ [Data!Next]_(Data!vars)
<1>1. DInv'  BY DEF DInv, Stopped, Whole, HalfRemoved
<1>2. UNCHANGED Data!vars  BY DEF Data!vars
<1> QED  BY <1>1, <1>2

\* Steps of the queues, of the shared part of handler() and of users.
LEMMA DInvHandler ==
    ASSUME TInv, DInv,
           \/ \E o \in Objects : CreateObject(o) \/ DeleteObject(o)
           \/ \E w \in Workers : Get(w) \/ Requeue(w) \/ Handler(w) \/ FindFails(w) \/ CallFails(w)
    PROVE  DInv' /\ [Data!Next]_(Data!vars)
<1> DEFINE Same == UNCHANGED <<replicas, pod, saving, db, bak, overlapped>> /\ (cut => cut')
           Far == \/ task'["restore"].phase = task["restore"].phase
                  \/ task'["restore"].phase \notin {"down", "closing", "erase", "rename", "up"}
           Seen == HalfRemoved => Removing' \/ cut'
<1> SUFFICES Same /\ Far /\ Seen  BY DInvQuiet
<1>b. "backup" \in Workers  BY DEF Workers
<1>s. Seen
  <2>1. ASSUME NEW w \in Workers, Get(w) \/ Handler(w) \/ FindFails(w) \/ CallFails(w)
        PROVE  Seen
    <3>1. CASE w # "backup"
      <4>1. \/ \E t : task' = [task EXCEPT ![w] = t]
            \/ \E p : Goto(w, p)
        BY <2>1 DEF Get, Handler, IgnoreFinished, RefuseUnnamed, MarkRunning, MarkReady,
                    MarkError, FindFails, CallFails, Return, Fail
      <4>2. task'["backup"] = task["backup"]  BY <1>b, <3>1, <4>1, PhaseOf
      <4> QED  BY <4>2, RemovingKept DEF HalfRemoved
    <3>2. CASE w = "backup"
      <4>1. CASE CallFails(w)  BY <3>2, <4>1 DEF CallFails
      <4>2. CASE ~CallFails(w)
        BY <2>1, <3>2, <4>2, NotRemoving DEF Get, Handler, IgnoreFinished, RefuseUnnamed,
           MarkRunning, MarkReady, MarkError, FindFails, InHandler, HalfRemoved
      <4> QED  BY <4>1, <4>2
    <3> QED  BY <3>1, <3>2
  <2>2. CASE UNCHANGED task  BY <2>2, RemovingKept DEF HalfRemoved
  <2> HIDE DEF Seen
  <2> QED  BY <2>1, <2>2 DEF CreateObject, DeleteObject, Requeue
<1> HIDE DEF Seen
<1> SUFFICES Same /\ Far  BY <1>s
<1>w. "restore" \in Workers  BY DEF Workers
<1>1. ASSUME NEW o \in Objects, CreateObject(o) \/ DeleteObject(o) PROVE Same /\ Far
  <2>1. UNCHANGED <<task, replicas, pod, saving, db, bak, overlapped, cut>>
    BY <1>1 DEF CreateObject, DeleteObject, kvr_vars
  <2> QED  BY <2>1
<1>2. ASSUME NEW w \in Workers, NEW t, task' = [task EXCEPT ![w] = t],
             t.phase \in {"idle", "handler", "connect", "stat"}
      PROVE  Far
  BY <1>2, <1>w, PhaseOf
<1>i. Idle.phase = "idle"  BY DEF Idle
<1>3. ASSUME NEW w \in Workers, task' = [task EXCEPT ![w] = Idle] PROVE Far
  BY <1>2, <1>3, <1>i
<1>4. ASSUME NEW w \in Workers, Get(w) PROVE Same /\ Far
  <2>1. [Idle EXCEPT !.phase = "handler", !.item = Head(queue[w])].phase = "handler"
    BY DEF Idle
  <2> QED  BY <1>2, <1>4, <2>1 DEF Get, kvr_vars
<1>5. ASSUME NEW w \in Workers, Requeue(w) PROVE Same /\ Far
  BY <1>5 DEF Requeue, kvr_vars
<1>6. ASSUME NEW w \in Workers, Handler(w) \/ FindFails(w) PROVE Same /\ Far
  <2>1. Same
    BY <1>6 DEF Handler, IgnoreFinished, RefuseUnnamed, MarkRunning, MarkReady, MarkError,
                FindFails, kvr_vars
  <2> HIDE DEF Far, Same
  <2>2. ASSUME Return(w) PROVE Far  BY <1>3, <2>2 DEF Return
  <2>3. ASSUME NEW c, Fail(w, c) PROVE Far  BY <1>3, <2>3 DEF Fail
  <2>4. CASE MarkRunning(w)
    <3>1. PICK i, l : \/ task' = [task EXCEPT ![w] =
                           [phase |-> IF w = "backup" THEN "connect" ELSE "stat",
                            item |-> i, local |-> l, since |-> 0]]
                      \/ Fail(w, Marked(Copy(w), "running"))
      BY <2>4 DEF MarkRunning
    <3> DEFINE t == [phase |-> IF w = "backup" THEN "connect" ELSE "stat",
                     item |-> i, local |-> l, since |-> 0]
    <3>2. t.phase \in {"idle", "handler", "connect", "stat"}  OBVIOUS
    <3>3. task' = [task EXCEPT ![w] = t] \/ Fail(w, Marked(Copy(w), "running"))  BY <3>1
    <3> HIDE DEF t
    <3>4. CASE task' = [task EXCEPT ![w] = t]  BY <2>1, <1>2, <3>2, <3>4
    <3>5. CASE Fail(w, Marked(Copy(w), "running"))  BY <2>1, <2>3, <3>5
    <3> QED  BY <3>3, <3>4, <3>5
  <2>5. CASE IgnoreFinished(w) \/ MarkReady(w)
    BY <2>1, <2>2, <2>5 DEF IgnoreFinished, MarkReady
  <2>6. CASE RefuseUnnamed(w) \/ MarkError(w) \/ FindFails(w)
    <3>1. PICK c : Fail(w, c)  BY <2>6 DEF RefuseUnnamed, MarkError, FindFails
    <3> QED  BY <2>1, <2>3, <3>1
  <2> QED  BY <1>6, <2>1, <2>4, <2>5, <2>6 DEF Handler
<1>7. ASSUME NEW w \in Workers, CallFails(w) PROVE Same /\ Far
  BY <1>7, <1>w, PhaseOf DEF CallFails, kvr_vars
<1> QED  BY <1>1, <1>4, <1>5, <1>6, <1>7

\* Steps of a backup.
LEMMA DInvBackup ==
    ASSUME TInv, DInv, BackupSteps
    PROVE  DInv' /\ [Data!Next]_(Data!vars)
<1>w. "backup" \in Workers /\ "restore" \in Workers \ {"backup"}  BY DEF Workers
<1>t. replicas \in {0, 1} /\ bak \in Contents  BY DEF TInv, TypeOK
<1>1. task'["restore"] = task["restore"]
  <2>1. CASE Connect \/ BackupComplete
    <3>1. PICK t : task' = [task EXCEPT !["backup"] = t]  BY <2>1 DEF Connect, BackupComplete
    <3> QED  BY <1>w, <3>1, PhaseOf
  <2>2. CASE RemoveFiles
    <3>1. task' = [task EXCEPT !["backup"] = Idle]  BY <2>2 DEF RemoveFiles, Return
    <3> QED  BY <1>w, <3>1, PhaseOf
  <2>3. CASE RemovePrev \/ BgSave \/ BackupTimeout
    <3>1. PICK p : Goto("backup", p)  BY <2>3 DEF RemovePrev, BgSave, BackupTimeout
    <3> QED  BY <1>w, <3>1, PhaseOf
  <2>4. CASE RemoveSome  BY <2>4 DEF RemoveSome
  <2> QED  BY <2>1, <2>2, <2>3, <2>4 DEF BackupSteps
<1>2. UNCHANGED <<replicas, pod, db>>
  BY DEF BackupSteps, Connect, RemoveSome, RemovePrev, BgSave, BackupComplete, BackupTimeout,
         RemoveFiles, Local, kvr_vars
<1>3. Stopped'  BY <1>1, <1>2 DEF DInv, Stopped
<1>4. ASSUME bak' \in {Part, Gone}, bak' = Part => bak # Gone /\ Removing',
             overlapped' = (overlapped \/ Relies), UNCHANGED <<saving, cut>>
      PROVE  DInv' /\ [Data!Next]_(Data!vars)
  <2>1. ~overlapped' => replicas = 1
          /\ task["restore"].phase \notin {"down", "closing", "erase", "rename"}
    BY <1>t, <1>4 DEF Relies
  <2>2. Whole'  BY <1>1, <1>2, <1>4, <2>1 DEF Whole, DInv
  <2>3. Data!Discard \/ UNCHANGED Data!vars
    BY <1>2, <1>4 DEF Data!Discard, Data!vars
  <2> QED  BY <1>3, <2>2, <2>3 DEF DInv, Data!Next
<1>5. CASE RemoveSome
  <2>1. Removing' /\ bak' = Part /\ bak # Gone
    BY <1>5, Kinds, RemovingKept DEF RemoveSome
  <2> QED  BY <1>4, <1>5, <2>1 DEF RemoveSome
<1>6. CASE RemovePrev  BY <1>4, <1>6, Kinds DEF RemovePrev
<1>7. CASE RemoveFiles
  <2>1. CASE bak' = Gone /\ overlapped' = (overlapped \/ Relies) /\ UNCHANGED cut
    BY <1>4, <1>7, <2>1, Kinds DEF RemoveFiles
  <2>2. CASE UNCHANGED <<bak, overlapped>> /\ cut' = (cut \/ HalfRemoved)
    BY <1>1, <1>2, <1>7, <2>2, DInvQuiet DEF RemoveFiles
  <2> QED  BY <1>7, <2>1, <2>2 DEF RemoveFiles
<1>8. CASE Connect \/ BackupComplete \/ BackupTimeout
  <2>1. ~HalfRemoved
    BY <1>8, NotRemoving DEF Connect, BackupComplete, BackupTimeout, HalfRemoved
  <2>2. UNCHANGED <<saving, bak, overlapped, cut>>
    BY <1>8 DEF Connect, BackupComplete, BackupTimeout, Local, kvr_vars
  <2> QED  BY <1>1, <1>2, <2>1, <2>2, DInvQuiet
<1>9. CASE BgSave
  <2>1. ~Removing  BY <1>9, NotRemoving DEF BgSave
  <2>2. UNCHANGED <<bak, overlapped, cut>>  BY <1>9 DEF BgSave
  <2>3. CASE UNCHANGED saving
    BY <1>1, <1>2, <2>1, <2>2, <2>3, DInvQuiet DEF HalfRemoved
  <2>4. CASE pod /\ saving' = db
    <3>1. Whole'  BY <1>1, <1>2, <2>1, <2>2, <2>4 DEF Whole, DInv
    <3>2. Data!Checkpoint  BY <1>2, <2>2, <2>4 DEF Data!Checkpoint
    <3> QED  BY <1>3, <3>1, <3>2 DEF DInv, Data!Next
  <2> QED  BY <1>9, <2>3, <2>4 DEF BgSave
<1> QED  BY <1>5, <1>6, <1>7, <1>8, <1>9 DEF BackupSteps

\* Steps of a restore: where its order matters.
LEMMA DInvRestore ==
    ASSUME TInv, DInv, RestoreSteps
    PROVE  DInv' /\ [Data!Next]_(Data!vars)
<1>w. "restore" \in Workers /\ "backup" \in Workers \ {"restore"}  BY DEF Workers
<1>p. \A p : Goto("restore", p) => task'["restore"].phase = p  BY <1>w, PhaseOf
<1>r. Removing' = Removing
  <2>1. Return("restore") \/ (\E p : Goto("restore", p)) \/ UNCHANGED task
    BY DEF RestoreSteps, StatBackup, ScaleDown, ScaleUp, Scale, PodsClosed, EraseSome, EraseDb,
           Rename, PodsStarted, IgnoreDelete
  <2>2. task'["backup"] = task["backup"]  BY <1>w, <2>1, PhaseOf DEF Return
  <2> QED  BY <2>2, RemovingKept
<1>t. bak \in Contents  BY DEF TInv, TypeOK
<1>s. UNCHANGED <<saving, cut>>
  BY DEF RestoreSteps, StatBackup, ScaleDown, ScaleUp, Scale, PodsClosed, EraseSome, EraseDb,
         Rename, PodsStarted, IgnoreDelete, Local, kvr_vars
<1>1. CASE StatBackup
  <2>1. /\ UNCHANGED <<replicas, pod, db, bak>>
        /\ overlapped' = (overlapped \/ HalfRemoved)
    BY <1>1 DEF StatBackup, kvr_vars
  <2>2. task'["restore"].phase = IF bak # Gone THEN "down" ELSE "error"
    BY <1>1, <1>p DEF StatBackup
  <2>3. ~overlapped' /\ ~cut /\ bak # Gone => bak \in Versions
    BY <1>t, <2>1 DEF DInv, Whole, HalfRemoved, Contents
  <2>4. Stopped'  BY <2>1, <2>2 DEF DInv, Stopped
  <2>5. Whole'  BY <1>r, <1>s, <2>1, <2>2, <2>3 DEF DInv, Whole
  <2> QED  BY <1>s, <2>1, <2>4, <2>5 DEF DInv, Data!vars
<1>2. CASE ScaleDown
  <2>1. replicas' = 0 /\ UNCHANGED <<pod, db, bak, overlapped>>  BY <1>2 DEF ScaleDown, Scale
  <2>2. task'["restore"].phase \in {"closing", "error"}  BY <1>2, <1>p DEF ScaleDown, Scale
  <2>3. task["restore"].phase = "down"  BY <1>2 DEF ScaleDown
  <2>4. Stopped'  BY <2>1, <2>2, <2>3 DEF DInv, Stopped
  <2>5. Whole'  BY <1>r, <1>s, <2>1, <2>2, <2>3 DEF DInv, Whole
  <2> QED  BY <1>s, <2>1, <2>4, <2>5 DEF DInv, Data!vars
<1>3. CASE PodsClosed
  <2>1. UNCHANGED <<replicas, pod, db, bak, overlapped>> /\ ~pod
    BY <1>3 DEF PodsClosed, Local, kvr_vars
  <2>2. task["restore"].phase = "closing" /\ task'["restore"].phase = "erase"
    BY <1>3, <1>p DEF PodsClosed
  <2>3. DInv'  BY <1>r, <1>s, <2>1, <2>2 DEF DInv, Stopped, Whole
  <2> QED  BY <1>s, <2>1, <2>3 DEF Data!vars
<1>4. CASE EraseDb \/ EraseSome
  <2>1. /\ UNCHANGED <<replicas, pod, bak, overlapped>>
        /\ db' = Gone \/ (db' = Part /\ db # Gone)
    BY <1>4, Kinds DEF EraseDb, EraseSome
  <2>2. /\ task["restore"].phase = "erase"
        /\ \/ task'["restore"].phase \in {"rename", "error"} /\ db' = Gone
           \/ UNCHANGED task
    BY <1>4, <1>p DEF EraseDb, EraseSome
  <2>3. replicas = 0 /\ ~pod /\ (~overlapped /\ ~cut => bak \in Versions)
    BY <2>2 DEF DInv, Stopped, Whole
  <2>4. Stopped'  BY <2>1, <2>2, <2>3 DEF DInv, Stopped
  <2>5. Whole'  BY <1>r, <1>s, <2>1, <2>2, <2>3 DEF DInv, Whole
  <2>6. Data!Erase \/ UNCHANGED Data!vars  BY <1>s, <2>1, <2>3 DEF Data!Erase, Data!vars
  <2> QED  BY <2>4, <2>5, <2>6 DEF DInv, Data!Next
<1>5. CASE Rename
  <2>1. UNCHANGED <<replicas, pod>> /\ overlapped' = (overlapped \/ BackingUp)
    BY <1>5 DEF Rename
  <2>2. task["restore"].phase = "rename"  BY <1>5 DEF Rename
  <2>3. /\ replicas = 0 /\ ~pod /\ db = Gone
        /\ ~overlapped /\ ~cut => bak \in Versions
    BY <2>2 DEF DInv, Stopped, Whole
  <2>4. CASE bak # Gone
    <3>1. db' = bak /\ bak' = Gone /\ task'["restore"].phase = "up"
      BY <1>5, <1>p, <2>4 DEF Rename
    <3>2. Stopped'  BY <2>1, <2>3, <2>4, <3>1 DEF DInv, Stopped
    <3>3. Whole'  BY <1>s, <2>1, <2>3, <3>1, Kinds DEF DInv, Whole
    <3>4. Data!Promote  BY <1>s, <2>1, <2>3, <2>4, <3>1 DEF Data!Promote
    <3> QED  BY <3>2, <3>3, <3>4 DEF DInv, Data!Next
  <2>5. CASE bak = Gone
    <3>1. UNCHANGED <<db, bak>> /\ task'["restore"].phase = "error"
      BY <1>5, <1>p, <2>5 DEF Rename
    <3>2. DInv'  BY <1>s, <2>1, <2>3, <2>5, <3>1, Kinds DEF DInv, Stopped, Whole
    <3> QED  BY <1>s, <2>1, <3>1, <3>2 DEF Data!vars
  <2> QED  BY <2>4, <2>5
<1>6. CASE ScaleUp
  <2>1. replicas' = 1 /\ UNCHANGED <<pod, db, bak, overlapped>>  BY <1>6 DEF ScaleUp, Scale
  <2>2. task'["restore"].phase \in {"starting", "error"}  BY <1>6, <1>p DEF ScaleUp, Scale
  <2>3. task["restore"].phase = "up"  BY <1>6 DEF ScaleUp
  <2>4. DInv'  BY <1>r, <1>s, <2>1, <2>2, <2>3 DEF DInv, Stopped, Whole
  <2> QED  BY <1>s, <2>1, <2>4 DEF Data!vars
<1>7. CASE PodsStarted \/ IgnoreDelete
  <2>1. task'["restore"].phase \in {"ready", "idle"}
    <3>1. CASE PodsStarted  BY <1>p, <3>1 DEF PodsStarted
    <3>2. CASE IgnoreDelete
      <4>1. task'["restore"] = Idle  BY <1>w, <3>2, PhaseOf DEF IgnoreDelete, Return
      <4> QED  BY <4>1 DEF Idle
    <3> QED  BY <1>7, <3>1, <3>2
  <2>2. UNCHANGED <<replicas, pod, db, bak, overlapped>>
    BY <1>7 DEF PodsStarted, IgnoreDelete, Local, kvr_vars
  <2> QED  BY <1>r, <1>s, <2>1, <2>2, DInvQuiet DEF HalfRemoved
<1> QED  BY <1>1, <1>2, <1>3, <1>4, <1>5, <1>6, <1>7 DEF RestoreSteps

\* Steps of kvrocks, and restarts.
LEMMA DInvEnvironment ==
    ASSUME TInv, DInv, Write \/ SaveDone \/ PodStops \/ PodStarts \/ Restart
    PROVE  DInv' /\ [Data!Next]_(Data!vars)
<1>r. UNCHANGED task => Removing' = Removing  BY RemovingKept
<1>1. CASE Write
  <2>1. db' \in (IF db = Part THEN {Part} ELSE Versions)
    <3>1. writes < MaxWrites /\ db' = IF db = Part THEN Part ELSE writes + 1  BY <1>1 DEF Write
    <3>2. writes \in 1 .. MaxWrites  BY DEF TInv, TypeOK
    <3>3. writes + 1 \in Versions  BY <3>1, <3>2, BoundAssumption DEF Versions
    <3> QED  BY <3>1, <3>3
  <2>2. db' # Gone /\ (db \in Versions => db' \in Versions)  BY <2>1, Kinds
  <2>3. pod /\ UNCHANGED <<replicas, pod, saving, bak, overlapped, cut, task>>
    BY <1>1 DEF Write
  <2>4. task["restore"].phase # "rename"  BY <2>3 DEF DInv, Stopped
  <2>5. DInv'  BY <1>r, <2>2, <2>3, <2>4 DEF DInv, Stopped, Whole
  <2>6. Data!Write  BY <2>1, <2>3 DEF Data!Write
  <2> QED  BY <2>5, <2>6 DEF Data!Next
<1>2. CASE SaveDone
  <2>1. /\ pod /\ saving # Gone /\ bak' = saving /\ saving' = Gone
        /\ UNCHANGED <<replicas, pod, db, overlapped, cut, task>>
    BY <1>2 DEF SaveDone
  <2>2. ~overlapped /\ ~cut => saving \in Versions /\ saving # Part
    BY <2>1, Kinds DEF DInv, Whole
  <2>3. DInv'  BY <2>1, <2>2 DEF DInv, Stopped, Whole
  <2>4. Data!Save  BY <2>1 DEF Data!Save
  <2> QED  BY <2>3, <2>4 DEF Data!Next
<1>3. CASE PodStops
  <2>1. /\ pod' = FALSE /\ saving' = Gone
        /\ UNCHANGED <<replicas, db, bak, overlapped, cut, task>>
    BY <1>3 DEF PodStops
  <2>2. DInv'  BY <1>r, <2>1 DEF DInv, Stopped, Whole
  <2>3. Data!Stop  BY <2>1 DEF Data!Stop
  <2> QED  BY <2>2, <2>3 DEF Data!Next
<1>4. CASE PodStarts
  <2>1. /\ replicas = 1 /\ pod' = TRUE
        /\ UNCHANGED <<replicas, saving, bak, overlapped, cut, task>>
    BY <1>4 DEF PodStarts
  <2>2. db # Gone /\ task["restore"].phase \notin {"erase", "rename", "up"}
    BY <2>1 DEF DInv, Stopped
  <2>3. db' = db  BY <1>4, <2>2 DEF PodStarts
  <2>4. DInv'  BY <1>r, <2>1, <2>2, <2>3 DEF DInv, Stopped, Whole
  <2>5. Data!Start  BY <2>1, <2>2, <2>3 DEF Data!Start
  <2> QED  BY <2>4, <2>5 DEF Data!Next
<1>5. CASE Restart
  <2>1. task'["restore"].phase = "idle"  BY <1>5 DEF Restart, Workers, Idle
  <2>2. /\ UNCHANGED <<replicas, pod, saving, db, bak, overlapped>>
        /\ cut' = (cut \/ HalfRemoved)
    BY <1>5 DEF Restart, kvr_vars
  <2> QED  BY <2>1, <2>2, DInvQuiet
<1> QED  BY <1>1, <1>2, <1>3, <1>4, <1>5

\* Every step keeps the invariant and is a step of DataDir or changes nothing there.
LEMMA DInvStep == TInv /\ DInv /\ [Next]_vars => DInv' /\ [Data!Next]_(Data!vars)
<1> SUFFICES ASSUME TInv, DInv, [Next]_vars PROVE DInv' /\ [Data!Next]_(Data!vars)  OBVIOUS
<1>1. CASE UNCHANGED vars
  <2>1. UNCHANGED <<replicas, pod, saving, db, bak, overlapped, cut, task>>
    BY <1>1 DEF vars, kvr_vars
  <2> QED  BY <2>1, DInvQuiet, RemovingKept DEF HalfRemoved
<1>2. CASE Next
  BY <1>2, DInvHandler, DInvBackup, DInvRestore, DInvEnvironment DEF Next
<1> QED  BY <1>1, <1>2

\* Backup and restore implement DataDir, with failing calls, lost answers, restarts
\* in the midst of a removal and both controllers at work: RestoreKVRocks touches the
\* database directory only while no kvrocks runs, puts the backup directory in its
\* place as one piece and only after all of it is gone, and scales up only with a
\* database in place.
THEOREM Refinement == Spec => ImplementsDataDir
<1>1. Init => Data!Init
  BY BoundAssumption DEF Init, Data!Init, Versions, Gone
<1> QED  BY <1>1, TInvInit, TInvStep, DInvInit, DInvStep, PTL DEF Spec, ImplementsDataDir, Data!Spec

\* A restore that fails or is interrupted anywhere always leaves the data or a backup
\* whole, and kvrocks runs on a whole database, unless a backup removed the directory
\* meanwhile or was cut short while it removed it.
THEOREM DataNotLostHolds == Spec => []DataNotLost
<1>1. DInv => DataNotLost  BY DEF DInv, Whole, DataNotLost
<1> QED  BY <1>1, TInvInit, TInvStep, DInvInit, DInvStep, PTL DEF Spec

----------------------------------------------------------------------------
(* What a backup has saved.                                                *)

\* Every item is with the controller of its object.
Routed ==
    \A w \in Workers :
        /\ \A k \in DOMAIN queue[w] : WorkerOf(queue[w][k].name) = w
        /\ \A i \in retry[w] : WorkerOf(i.name) = w
        /\ task[w].phase # "idle" => WorkerOf(task[w].item.name) = w

\* No directory is newer than the data, and neither is what a backup began with.
NotNewer ==
    /\ db <= writes /\ bak <= writes /\ saving <= writes
    /\ BackingUp => task["backup"].since <= writes

\* A content that a backup may end with.
Fresh(c) == c \in Versions /\ c >= task["backup"].since

\* A backup that no restore disturbed and that began with a whole database: kvrocks
\* runs or nobody will start it; its database has not become older since, no save
\* will deliver anything older, and once the backup has removed what was in the
\* backup directory, neither is what is there.
SavedSince ==
    BackingUp /\ ~overlapped /\ task["backup"].since \in Versions =>
        /\ pod \/ replicas = 0
        /\ task["restore"].phase # "up"
        /\ pod => Fresh(db)
        /\ saving # Gone => Fresh(saving)
        /\ task["backup"].phase # "remove" /\ bak # Gone => Fresh(bak)
        /\ task["backup"].phase = "ready" => bak # Gone

\* kvrocks saves what it had while it has been running.
SavedDb ==
    /\ saving # Gone => pod
    /\ saving \in Versions => db \in Versions /\ db >= saving

SInv == NotNewer /\ SavedSince /\ SavedDb

\* At the start no backup is under way.
LEMMA SavedInit == Init => Routed /\ SInv
<1> SUFFICES ASSUME Init PROVE Routed /\ SInv  OBVIOUS
<1>1. \A w \in Workers : task[w].phase = "idle" /\ queue[w] = <<>> /\ retry[w] = {}
  BY DEF Init, Idle
<1>2. ~BackingUp  BY <1>1 DEF BackingUp, Workers
<1>3. db <= writes /\ bak <= writes /\ saving <= writes  BY DEF Init, Gone
<1>4. saving = Gone /\ Gone \notin Versions  BY Kinds DEF Init
<1> QED  BY <1>1, <1>2, <1>3, <1>4 DEF Routed, SInv, NotNewer, SavedSince, SavedDb

\* A task that goes on keeps its item.
LEMMA SameItem ==
    ASSUME TInv, NEW w \in Workers, NEW t, task' = [task EXCEPT ![w] = t],
           t.phase # "idle" => task[w].phase # "idle" /\ t.item.name = task[w].item.name,
           UNCHANGED <<queue, retry>>, Routed
    PROVE  Routed'
<1>1. \A v \in Workers : task'[v] = IF v = w THEN t ELSE task[v]  BY PhaseOf
<1> QED  BY <1>1 DEF Routed

\* The same for a step to another phase, and for the end of a call of handler().
LEMMA RoutedMoves ==
    ASSUME TInv, Routed, NEW w \in Workers, UNCHANGED queue
    PROVE  /\ \A p : Goto(w, p) /\ task[w].phase # "idle" => Routed'
           /\ Return(w) => Routed'
           /\ \A c : Fail(w, c) /\ task[w].phase # "idle" => Routed'
<1>1. task[w] \in Tasks  BY DEF TInv, TypeOK
<1>i. Idle.phase = "idle"  BY DEF Idle
<1>2. ASSUME NEW p, Goto(w, p), task[w].phase # "idle" PROVE Routed'
  <2> DEFINE t == [task[w] EXCEPT !.phase = p]
  <2>1. task' = [task EXCEPT ![w] = t] /\ UNCHANGED retry  BY <1>2 DEF Goto
  <2>2. t.item = task[w].item  BY <1>1 DEF Tasks
  <2> HIDE DEF t
  <2> QED  BY <1>2, <2>1, <2>2, SameItem
<1>3. ASSUME Return(w) PROVE Routed'
  <2>1. task' = [task EXCEPT ![w] = Idle] /\ UNCHANGED retry  BY <1>3 DEF Return
  <2> QED  BY <1>i, <2>1, SameItem
<1>4. ASSUME NEW c, Fail(w, c), task[w].phase # "idle" PROVE Routed'
  <2>1. \A v \in Workers : task'[v] = IF v = w THEN Idle ELSE task[v]  BY <1>4, PhaseOf DEF Fail
  <2>2. task[w].item \in Items  BY <1>4, HandlerItem
  <2>3. [task[w].item EXCEPT !.copy = c].name = task[w].item.name  BY <2>2 DEF Items
  <2>4. retry \in [Workers -> SUBSET Items]  BY DEF TInv, TypeOK
  <2>5. \A v \in Workers : \A i \in retry'[v] :
            i \in retry[v] \/ (v = w /\ i = [task[w].item EXCEPT !.copy = c])
    BY <1>4, <2>4 DEF Fail
  <2>6. \A v \in Workers : \A i \in retry'[v] : WorkerOf(i.name) = v
    BY <1>4, <2>3, <2>5 DEF Routed
  <2> QED  BY <1>i, <2>1, <2>6 DEF Routed
<1> QED  BY <1>2, <1>3, <1>4

\* Every step keeps items with their controller.
LEMMA RoutedStep == TInv /\ Routed /\ [Next]_vars => Routed'
<1> SUFFICES ASSUME TInv, Routed, [Next]_vars PROVE Routed'  OBVIOUS
<1>w. "backup" \in Workers /\ "restore" \in Workers  BY DEF Workers
<1>q. queue \in [Workers -> Seq(Items)] /\ retry \in [Workers -> SUBSET Items]
  BY DEF TInv, TypeOK
<1>1. ASSUME UNCHANGED <<queue, retry, task>> PROVE Routed'  BY <1>1 DEF Routed
<1>2. ASSUME NEW o \in Objects, CreateObject(o) \/ DeleteObject(o) PROVE Routed'
  <2>1. PICK a, c : Enqueue(a, o, c)  BY <1>2 DEF CreateObject, DeleteObject
  <2>2. UNCHANGED <<retry, task>>  BY <1>2 DEF CreateObject, DeleteObject
  <2> DEFINE i == [action |-> a, name |-> o, copy |-> c]
             u == WorkerOf(o)
  <2>3. u \in Workers  BY DEF WorkerOf, Workers
  <2>4. queue' = [queue EXCEPT ![u] = Append(queue[u], i)] /\ i.name = o  BY <2>1 DEF Enqueue
  <2> HIDE DEF i
  <2>5. ASSUME NEW v \in Workers, NEW k \in DOMAIN queue'[v]
        PROVE  WorkerOf(queue'[v][k].name) = v
    <3>1. CASE v # u
      <4>1. queue'[v] = queue[v]  BY <1>q, <2>4, <3>1
      <4> QED  BY <2>5, <4>1 DEF Routed
    <3>2. CASE v = u
      <4>1. queue'[v] = Append(queue[u], i) /\ queue[u] \in Seq(Items)
        BY <1>q, <2>3, <2>4, <3>2
      <4>2. \/ k \in DOMAIN queue[u] /\ queue'[v][k] = queue[u][k]
            \/ queue'[v][k] = i
        BY <2>5, <4>1
      <4> QED  BY <2>3, <2>4, <3>2, <4>2 DEF Routed
    <3> QED  BY <3>1, <3>2
  <2> QED  BY <2>2, <2>5 DEF Routed
<1>3. ASSUME NEW w \in Workers, Get(w) PROVE Routed'
  <2> DEFINE t == [Idle EXCEPT !.phase = "handler", !.item = Head(queue[w])]
  <2>1. /\ task' = [task EXCEPT ![w] = t] /\ queue[w] # <<>>
        /\ queue' = [queue EXCEPT ![w] = Tail(queue[w])] /\ UNCHANGED retry
    BY <1>3 DEF Get
  <2>2. t.item = Head(queue[w])  BY DEF Idle
  <2> HIDE DEF t
  <2>3. queue[w] \in Seq(Items) /\ 1 \in DOMAIN queue[w] /\ Head(queue[w]) = queue[w][1]
    BY <1>q, <2>1
  <2>4. WorkerOf(t.item.name) = w  BY <2>2, <2>3 DEF Routed
  <2>5. \A v \in Workers : task'[v] = IF v = w THEN t ELSE task[v]  BY <2>1, PhaseOf
  <2>6. \A v \in Workers : \A k \in DOMAIN queue'[v] :
            \E j \in DOMAIN queue[v] : queue'[v][k] = queue[v][j]
    <3> TAKE v \in Workers
    <3>1. CASE v # w
      <4>1. queue'[v] = queue[v]  BY <1>q, <2>1, <3>1
      <4> QED  BY <4>1
    <3>2. CASE v = w
      <4>1. queue'[v] = Tail(queue[w])  BY <1>q, <2>1, <3>2
      <4> QED  BY <2>1, <2>3, <3>2, <4>1
    <3> QED  BY <3>1, <3>2
  <2> QED  BY <2>1, <2>4, <2>5, <2>6 DEF Routed
<1>4. ASSUME NEW w \in Workers, Requeue(w) PROVE Routed'
  <2>1. PICK i \in retry[w] : /\ queue' = [queue EXCEPT ![w] = Append(@, i)]
                              /\ retry' = [retry EXCEPT ![w] = @ \ {i}]
    BY <1>4 DEF Requeue
  <2>2. UNCHANGED task  BY <1>4 DEF Requeue
  <2>3. \A v \in Workers : retry'[v] \subseteq retry[v]  BY <1>q, <2>1
  <2>4. WorkerOf(i.name) = w  BY DEF Routed
  <2>5. \A v \in Workers : \A k \in DOMAIN queue'[v] :
            \/ k \in DOMAIN queue[v] /\ queue'[v][k] = queue[v][k]
            \/ v = w /\ queue'[v][k] = i
    <3> TAKE v \in Workers
    <3>1. CASE v # w
      <4>1. queue'[v] = queue[v]  BY <1>q, <2>1, <3>1
      <4> QED  BY <4>1
    <3>2. CASE v = w
      <4>1. queue'[v] = Append(queue[w], i) /\ queue[w] \in Seq(Items)  BY <1>q, <2>1, <3>2
      <4> QED  BY <3>2, <4>1
    <3> QED  BY <3>1, <3>2
  <2> QED  BY <2>2, <2>3, <2>4, <2>5 DEF Routed
<1>5. ASSUME NEW w \in Workers, Handler(w) \/ FindFails(w) \/ CallFails(w) PROVE Routed'
  <2>1. UNCHANGED queue /\ task[w].phase # "idle"
    BY <1>5 DEF Handler, IgnoreFinished, RefuseUnnamed, MarkRunning, MarkReady, MarkError,
                FindFails, CallFails, InHandler
  <2>2. CASE MarkRunning(w)
    <3>1. PICK c, l : \/ /\ task' = [task EXCEPT ![w] =
                                [phase |-> IF w = "backup" THEN "connect" ELSE "stat",
                                 item |-> [task[w].item EXCEPT !.copy = c],
                                 local |-> l, since |-> 0]]
                         /\ UNCHANGED retry
                      \/ Fail(w, c)
      BY <2>2 DEF MarkRunning
    <3> DEFINE i == [task[w].item EXCEPT !.copy = c]
               t == [phase |-> IF w = "backup" THEN "connect" ELSE "stat",
                     item |-> i, local |-> l, since |-> 0]
    <3>2. task[w].item \in Items  BY <2>1, HandlerItem
    <3>3. i.name = task[w].item.name  BY <3>2 DEF Items
    <3>4. (task' = [task EXCEPT ![w] = t] /\ UNCHANGED retry) \/ Fail(w, c)  BY <3>1
    <3> HIDE DEF i
    <3>5. t.item = i  OBVIOUS
    <3> HIDE DEF t
    <3> QED  BY <2>1, <3>3, <3>4, <3>5, SameItem, RoutedMoves
  <2>3. CASE ~MarkRunning(w)
    <3>1. Return(w) \/ (\E c : Fail(w, c)) \/ (\E p : Goto(w, p))
      BY <1>5, <2>3 DEF Handler, IgnoreFinished, RefuseUnnamed, MarkReady, MarkError,
                        FindFails, CallFails
    <3> QED  BY <2>1, <3>1, RoutedMoves
  <2> QED  BY <2>2, <2>3
<1>6. ASSUME BackupSteps PROVE Routed'
  <2>5. CASE RemoveSome  BY <1>1, <2>5 DEF RemoveSome, ctl_vars
  <2>1. UNCHANGED queue /\ task["backup"].phase # "idle"
    BY <1>6 DEF BackupSteps, Connect, RemoveSome, RemovePrev, BgSave, BackupComplete,
                BackupTimeout, RemoveFiles, Removing, InHandler, Local, ctl_vars
  <2>2. CASE Connect \/ BackupComplete
    <3>1. task["backup"] \in Tasks /\ UNCHANGED retry
      BY <1>w, <2>2 DEF TInv, TypeOK, Connect, BackupComplete
    <3> DEFINE t1 == [task["backup"] EXCEPT !.phase = IF pod THEN "remove" ELSE "error",
                                            !.since = IF saving = Gone THEN db ELSE saving]
               t2 == [task["backup"] EXCEPT !.phase = "ready",
                                            !.local = [@ EXCEPT !.path = TRUE]]
    <3>2. \/ task' = [task EXCEPT !["backup"] = t1]
          \/ task' = [task EXCEPT !["backup"] = t2]
      <4>1. CASE Connect  BY <4>1 DEF Connect
      <4>2. CASE BackupComplete  BY <4>2 DEF BackupComplete
      <4> QED  BY <2>2, <4>1, <4>2
    <3>3. t1.item = task["backup"].item /\ t2.item = task["backup"].item  BY <3>1 DEF Tasks
    <3> HIDE DEF t1, t2
    <3> QED  BY <1>w, <2>1, <3>1, <3>2, <3>3, SameItem
  <2>3. CASE RemoveFiles  BY <1>w, <2>1, <2>3, RoutedMoves DEF RemoveFiles
  <2>4. CASE RemovePrev \/ BgSave \/ BackupTimeout
    <3>1. \E p : Goto("backup", p)  BY <2>4 DEF RemovePrev, BgSave, BackupTimeout
    <3> QED  BY <1>w, <2>1, <3>1, RoutedMoves
  <2> QED  BY <1>6, <2>2, <2>3, <2>4, <2>5 DEF BackupSteps
<1>7. ASSUME RestoreSteps PROVE Routed'
  <2>1. UNCHANGED queue /\ task["restore"].phase # "idle"
    BY <1>7 DEF RestoreSteps, StatBackup, ScaleDown, ScaleUp, Scale, PodsClosed, EraseSome,
                EraseDb, Rename, PodsStarted, IgnoreDelete, InHandler, Local, ctl_vars
  <2>2. CASE EraseSome  BY <1>1, <2>2 DEF EraseSome, ctl_vars
  <2>3. CASE ~EraseSome
    <3>1. Return("restore") \/ \E p : Goto("restore", p)
      BY <1>7, <2>3 DEF RestoreSteps, StatBackup, ScaleDown, ScaleUp, Scale, PodsClosed, EraseDb,
                        Rename, PodsStarted, IgnoreDelete
    <3> QED  BY <1>w, <2>1, <3>1, RoutedMoves
  <2> QED  BY <2>2, <2>3
<1>8. ASSUME Restart PROVE Routed'
  <2>1. /\ task' = [w \in Workers |-> Idle] /\ retry' = [w \in Workers |-> {}]
        /\ \E b \in Orders(Listed("backup")), r \in Orders(Listed("restore")) :
             queue' = [w \in Workers |-> Added(IF w = "backup" THEN b ELSE r)]
    BY <1>8 DEF Restart
  <2>2. PICK b \in Orders(Listed("backup")), r \in Orders(Listed("restore")) :
             queue' = [w \in Workers |-> Added(IF w = "backup" THEN b ELSE r)]
    BY <2>1
  <2>3. ASSUME NEW w \in Workers, NEW s \in Orders(Listed(w)), NEW k \in DOMAIN Added(s)
        PROVE  WorkerOf(Added(s)[k].name) = w
    <3>1. s \in [1 .. Cardinality(Listed(w)) -> Listed(w)]  BY DEF Orders
    <3>2. k \in DOMAIN s /\ Added(s)[k].name = s[k]  BY <2>3 DEF Added
    <3>3. s[k] \in Listed(w)  BY <3>1, <3>2
    <3> QED  BY <3>2, <3>3 DEF Listed
  <2>4. \A w \in Workers : \E s \in Orders(Listed(w)) : queue'[w] = Added(s)
    BY <2>2 DEF Workers
  <2>5. \A w \in Workers : \A k \in DOMAIN queue'[w] : WorkerOf(queue'[w][k].name) = w
    BY <2>3, <2>4
  <2>6. \A w \in Workers : retry'[w] = {} /\ task'[w].phase = "idle"  BY <2>1 DEF Idle
  <2> QED  BY <2>5, <2>6 DEF Routed
<1>9. CASE Next
  <2>1. ASSUME Write \/ SaveDone \/ PodStops \/ PodStarts PROVE Routed'
    BY <1>1, <2>1 DEF Write, SaveDone, PodStops, PodStarts, ctl_vars
  <2> QED  BY <1>9, <1>2, <1>3, <1>4, <1>5, <1>6, <1>7, <1>8, <2>1 DEF Next
<1>10. CASE UNCHANGED vars  BY <1>1, <1>10 DEF vars, ctl_vars
<1> QED  BY <1>9, <1>10

\* A step that leaves the directories alone and takes the backup worker nowhere
\* where they matter.
LEMMA SInvQuiet ==
    ASSUME SInv, UNCHANGED <<replicas, pod, saving, db, bak, writes, overlapped>>,
           \/ /\ task'["backup"] = task["backup"]
              /\ task'["restore"].phase = "up" => task["restore"].phase = "up"
           \/ task'["backup"].phase \notin {"remove", "save", "await", "ready"}
    PROVE  SInv'
BY DEF SInv, NotNewer, SavedSince, SavedDb, BackingUp, Fresh

\* Steps of the queues, of the shared part of handler() and of users.
LEMMA SInvHandler ==
    ASSUME TInv, SInv,
           \/ \E o \in Objects : CreateObject(o) \/ DeleteObject(o)
           \/ \E w \in Workers : Get(w) \/ Requeue(w) \/ Handler(w) \/ FindFails(w) \/ CallFails(w)
    PROVE  SInv'
<1> DEFINE Far == \/ /\ task'["backup"] = task["backup"]
                     /\ task'["restore"].phase = "up" => task["restore"].phase = "up"
                  \/ task'["backup"].phase \notin {"remove", "save", "await", "ready"}
<1>w. "backup" \in Workers /\ "restore" \in Workers /\ Workers = {"backup", "restore"}
  BY DEF Workers
<1>i. Idle.phase = "idle"  BY DEF Idle
<1>1. UNCHANGED <<replicas, pod, saving, db, bak, writes, overlapped>>
  BY DEF CreateObject, DeleteObject, Get, Requeue, Handler, IgnoreFinished, RefuseUnnamed,
         MarkRunning, MarkReady, MarkError, FindFails, CallFails, kvr_vars
<1>2. ASSUME NEW w \in Workers, NEW t, task' = [task EXCEPT ![w] = t],
             t.phase \in {"idle", "handler", "connect", "stat"}
      PROVE  Far
  BY <1>2, <1>w, PhaseOf
<1>3. ASSUME NEW w \in Workers, task' = [task EXCEPT ![w] = Idle] PROVE Far
  BY <1>2, <1>3, <1>i
<1>4. ASSUME UNCHANGED task PROVE Far  BY <1>4
<1>5. ASSUME NEW w \in Workers, Get(w) PROVE Far
  <2>1. [Idle EXCEPT !.phase = "handler", !.item = Head(queue[w])].phase = "handler"
    BY DEF Idle
  <2> QED  BY <1>2, <1>5, <2>1 DEF Get
<1>6. ASSUME NEW w \in Workers, CallFails(w) PROVE Far
  BY <1>6, <1>w, PhaseOf DEF CallFails
<1>7. ASSUME NEW w \in Workers, MarkRunning(w) PROVE Far
  <2>1. PICK i, l, c : \/ task' = [task EXCEPT ![w] =
                            [phase |-> IF w = "backup" THEN "connect" ELSE "stat",
                             item |-> i, local |-> l, since |-> 0]]
                       \/ Fail(w, c)
    BY <1>7 DEF MarkRunning
  <2> DEFINE t == [phase |-> IF w = "backup" THEN "connect" ELSE "stat",
                   item |-> i, local |-> l, since |-> 0]
  <2>2. t.phase \in {"idle", "handler", "connect", "stat"}  OBVIOUS
  <2>3. task' = [task EXCEPT ![w] = t] \/ task' = [task EXCEPT ![w] = Idle]  BY <2>1 DEF Fail
  <2> HIDE DEF t, Far
  <2> QED  BY <1>2, <1>3, <2>2, <2>3
<1> HIDE DEF Far
<1>8. Far
  <2>1. ASSUME NEW o \in Objects, CreateObject(o) \/ DeleteObject(o) PROVE Far
    BY <1>4, <2>1 DEF CreateObject, DeleteObject
  <2>2. ASSUME NEW w \in Workers, Requeue(w) PROVE Far  BY <1>4, <2>2 DEF Requeue
  <2>3. ASSUME NEW w \in Workers,
               \/ IgnoreFinished(w) \/ RefuseUnnamed(w) \/ MarkReady(w) \/ MarkError(w)
               \/ FindFails(w)
        PROVE  Far
    BY <1>3, <2>3 DEF IgnoreFinished, RefuseUnnamed, MarkReady, MarkError, FindFails, Return, Fail
  <2> QED  BY <1>5, <1>6, <1>7, <2>1, <2>2, <2>3 DEF Handler
<1> QED  BY <1>1, <1>8, SInvQuiet DEF Far

\* Numbers that the next lemmas compare.
LEMMA DataNumbers ==
    ASSUME TInv
    PROVE  /\ task \in [Workers -> Tasks] /\ task["backup"] \in Tasks
           /\ db \in Int /\ bak \in Int /\ saving \in Int /\ task["backup"].since \in Int
           /\ writes \in Int /\ Gone <= writes /\ Part <= writes /\ writes <= MaxWrites
           /\ \A c \in Versions : c \in Int
<1>1. task \in [Workers -> Tasks] /\ task["backup"] \in Tasks  BY DEF TInv, TypeOK, Workers
<1> QED  BY <1>1, BoundAssumption DEF TInv, TypeOK, Tasks, Versions, Contents, Gone, Part

\* The backup removes what was there, and is ready only when something is there.
LEMMA SInvBackup ==
    ASSUME TInv, DInv, SInv, BackupSteps
    PROVE  SInv'
<1>w. "backup" \in Workers /\ "restore" \in Workers \ {"backup"}  BY DEF Workers
<1>n. /\ task \in [Workers -> Tasks] /\ task["backup"] \in Tasks
      /\ db \in Int /\ bak \in Int /\ saving \in Int /\ task["backup"].since \in Int
      /\ writes \in Int /\ Gone <= writes /\ Part <= writes
  BY DataNumbers
<1>g. \A p : Goto("backup", p) =>
          /\ task'["backup"].phase = p /\ task'["backup"].since = task["backup"].since
          /\ task'["restore"] = task["restore"]
  <2> TAKE p
  <2> HAVE Goto("backup", p)
  <2>1. task' = [task EXCEPT !["backup"] = [task["backup"] EXCEPT !.phase = p]]  BY DEF Goto
  <2>2. /\ [task["backup"] EXCEPT !.phase = p].phase = p
        /\ [task["backup"] EXCEPT !.phase = p].since = task["backup"].since
    BY <1>n DEF Tasks
  <2> QED  BY <1>n, <1>w, <2>1, <2>2
<1>1. CASE Connect
  <2> DEFINE s == IF saving = Gone THEN db ELSE saving
             t == [task["backup"] EXCEPT !.phase = IF pod THEN "remove" ELSE "error", !.since = s]
  <2>1. /\ task' = [task EXCEPT !["backup"] = t]
        /\ UNCHANGED <<replicas, pod, saving, db, bak, writes, overlapped>>
    BY <1>1 DEF Connect, Local, kvr_vars
  <2>2. t.since = s /\ t.phase \in {"remove", "error"} /\ (t.phase = "remove" => pod)
    BY <1>n DEF Tasks
  <2>3. s \in Int /\ s <= writes /\ (s = db \/ s = saving)  BY <1>n DEF SInv, NotNewer
  <2> HIDE DEF t
  <2>4. task'["backup"] = t /\ task'["restore"] = task["restore"]  BY <1>n, <1>w, <2>1
  <2>5. NotNewer'  BY <2>1, <2>2, <2>3, <2>4 DEF SInv, NotNewer
  <2>6. ASSUME t.phase = "remove", ~overlapped, s \in Versions
        PROVE  /\ pod /\ task["restore"].phase # "up"
               /\ db \in Versions /\ db >= s
               /\ saving # Gone => saving \in Versions /\ saving >= s
    <3>1. pod /\ task["restore"].phase # "up"  BY <2>2, <2>6 DEF DInv, Stopped
    <3>2. CASE saving = Gone  BY <1>n, <2>6, <3>1, <3>2
    <3>3. CASE saving # Gone
      <4>1. db \in Versions /\ db >= saving  BY <2>6, <3>1, <3>3 DEF SInv, SavedDb
      <4> QED  BY <1>n, <2>6, <3>1, <3>3, <4>1
    <3> QED  BY <3>2, <3>3
  <2>7. SavedSince'  BY <2>1, <2>2, <2>4, <2>6 DEF SavedSince, BackingUp, Fresh
  <2>8. SavedDb'  BY <2>1 DEF SInv, SavedDb
  <2> QED  BY <2>5, <2>7, <2>8 DEF SInv
<1>2. CASE RemoveSome
  <2>1. /\ bak' = Part /\ Removing /\ UNCHANGED <<replicas, pod, saving, db, writes, task>>
        /\ overlapped => overlapped'
    BY <1>2 DEF RemoveSome
  <2>2. task["backup"].phase \in {"remove", "handler"}  BY <2>1 DEF Removing, InHandler
  <2> QED  BY <1>n, <2>1, <2>2 DEF SInv, NotNewer, SavedSince, SavedDb, BackingUp, Fresh
<1>3. CASE RemovePrev
  <2>1. /\ bak' = Gone /\ UNCHANGED <<replicas, pod, saving, db, writes>>
        /\ overlapped => overlapped'
    BY <1>3 DEF RemovePrev
  <2>2. /\ task["backup"].phase = "remove" /\ task'["backup"].phase = "save"
        /\ task'["backup"].since = task["backup"].since
        /\ task'["restore"] = task["restore"]
    BY <1>3, <1>g DEF RemovePrev
  <2> QED  BY <1>n, <2>1, <2>2 DEF SInv, NotNewer, SavedSince, SavedDb, BackingUp, Fresh
<1>4. CASE BgSave
  <2>1. UNCHANGED <<replicas, pod, db, bak, writes, overlapped>>  BY <1>4 DEF BgSave
  <2>2. /\ task["backup"].phase = "save" /\ task'["backup"].phase \in {"await", "error"}
        /\ task'["backup"].since = task["backup"].since
        /\ task'["restore"] = task["restore"]
    BY <1>4, <1>g DEF BgSave
  <2>3. saving' = saving \/ (pod /\ saving' = db)  BY <1>4 DEF BgSave
  <2> QED  BY <1>n, <2>1, <2>2, <2>3 DEF SInv, NotNewer, SavedSince, SavedDb, BackingUp, Fresh
<1>5. CASE BackupComplete
  <2> DEFINE t == [task["backup"] EXCEPT !.phase = "ready", !.local = [@ EXCEPT !.path = TRUE]]
  <2>1. /\ task' = [task EXCEPT !["backup"] = t]
        /\ UNCHANGED <<replicas, pod, saving, db, bak, writes, overlapped>>
        /\ task["backup"].phase = "await" /\ bak # Gone
    BY <1>5 DEF BackupComplete, Local, kvr_vars
  <2>2. t.since = task["backup"].since /\ t.phase = "ready"  BY <1>n DEF Tasks
  <2> HIDE DEF t
  <2>3. task'["backup"] = t /\ task'["restore"] = task["restore"]  BY <1>n, <1>w, <2>1
  <2> QED  BY <2>1, <2>2, <2>3 DEF SInv, NotNewer, SavedSince, SavedDb, BackingUp, Fresh
<1>6. CASE BackupTimeout
  <2>1. UNCHANGED <<replicas, pod, saving, db, bak, writes, overlapped>>
    BY <1>6 DEF BackupTimeout, Local, kvr_vars
  <2>2. task'["backup"].phase = "error"  BY <1>6, <1>g DEF BackupTimeout
  <2> QED  BY <2>1, <2>2, SInvQuiet
<1>7. CASE RemoveFiles
  <2>1. task'["backup"] = Idle /\ Idle.phase = "idle"
    BY <1>7, <1>w, PhaseOf DEF RemoveFiles, Return, Idle
  <2>2. UNCHANGED <<pod, saving, db, writes>> /\ (bak' = bak \/ bak' = Gone)
    BY <1>7 DEF RemoveFiles
  <2> QED  BY <1>n, <2>1, <2>2 DEF SInv, NotNewer, SavedSince, SavedDb, BackingUp
<1> QED  BY <1>1, <1>2, <1>3, <1>4, <1>5, <1>6, <1>7 DEF BackupSteps

\* A restore takes the database away only when kvrocks has stopped, and replaces it
\* only after the backup is over or with `overlapped' recorded.
LEMMA SInvRestore ==
    ASSUME TInv, DInv, SInv, RestoreSteps
    PROVE  SInv'
<1>w. "restore" \in Workers /\ "backup" \in Workers \ {"restore"}  BY DEF Workers
<1>n. /\ db \in Int /\ bak \in Int /\ saving \in Int /\ task["backup"].since \in Int
      /\ writes \in Int /\ Gone <= writes /\ Part <= writes
  BY DataNumbers
<1>1. task'["backup"] = task["backup"]
  <2>1. UNCHANGED task \/ Return("restore") \/ \E p : Goto("restore", p)
    BY DEF RestoreSteps, StatBackup, ScaleDown, ScaleUp, Scale, PodsClosed, EraseSome, EraseDb,
           Rename, PodsStarted, IgnoreDelete
  <2> QED  BY <1>w, <2>1, PhaseOf DEF Return
<1>p. ASSUME NEW p, Goto("restore", p) PROVE task'["restore"].phase = p
  BY <1>p, <1>w, PhaseOf
<1>2. CASE EraseSome
  <2>1. /\ db' = Part /\ task["restore"].phase = "erase"
        /\ UNCHANGED <<replicas, pod, saving, bak, writes, overlapped, task>>
    BY <1>2 DEF EraseSome
  <2>2. ~pod /\ saving = Gone  BY <2>1 DEF DInv, Stopped, SInv, SavedDb
  <2> QED  BY <1>n, <2>1, <2>2, Kinds DEF SInv, NotNewer, SavedSince, SavedDb, BackingUp, Fresh
<1>3. CASE EraseDb
  <2>1. /\ db' = Gone /\ task["restore"].phase = "erase"
        /\ UNCHANGED <<replicas, pod, saving, bak, writes, overlapped>>
        /\ task'["restore"].phase \in {"rename", "error"}
    BY <1>3, <1>p DEF EraseDb
  <2>2. ~pod /\ saving = Gone  BY <2>1 DEF DInv, Stopped, SInv, SavedDb
  <2> QED  BY <1>1, <1>n, <2>1, <2>2, Kinds DEF SInv, NotNewer, SavedSince, SavedDb, BackingUp, Fresh
<1>4. CASE Rename
  <2>1. UNCHANGED <<pod, saving, writes>> /\ overlapped' = (overlapped \/ BackingUp)
    BY <1>4 DEF Rename
  <2>2. (db' = bak /\ bak' = Gone) \/ UNCHANGED <<db, bak>>  BY <1>4 DEF Rename
  <2>3. BackingUp' <=> BackingUp  BY <1>1 DEF BackingUp
  <2>4. saving = Gone  BY <1>4 DEF Rename, DInv, Stopped, SInv, SavedDb
  <2> QED  BY <1>1, <1>n, <2>1, <2>2, <2>3, <2>4, Kinds DEF SInv, NotNewer, SavedSince, SavedDb
<1>5. CASE ScaleDown \/ ScaleUp
  <2>1. UNCHANGED <<pod, saving, db, bak, writes, overlapped>>
    BY <1>5 DEF ScaleDown, ScaleUp, Scale
  <2>2. \/ replicas' = 0 /\ task'["restore"].phase \in {"closing", "error"}
        \/ task["restore"].phase = "up" /\ task'["restore"].phase \in {"starting", "error"}
    BY <1>5, <1>p DEF ScaleDown, ScaleUp, Scale
  <2> QED  BY <1>1, <2>1, <2>2 DEF SInv, NotNewer, SavedSince, SavedDb, BackingUp, Fresh
<1>6. CASE StatBackup
  <2>1. /\ UNCHANGED <<replicas, pod, saving, db, bak, writes>> /\ (overlapped => overlapped')
        /\ task'["restore"].phase \in {"down", "error"}
    BY <1>6, <1>p DEF StatBackup, kvr_vars
  <2> QED  BY <1>1, <2>1 DEF SInv, NotNewer, SavedSince, SavedDb, BackingUp, Fresh
<1>7. CASE PodsClosed \/ PodsStarted \/ IgnoreDelete
  <2>1. UNCHANGED <<replicas, pod, saving, db, bak, writes, overlapped>>
    BY <1>7 DEF PodsClosed, PodsStarted, IgnoreDelete, Local, kvr_vars
  <2>2. task'["restore"].phase # "up"
    BY <1>7, <1>p, <1>w, PhaseOf DEF PodsClosed, PodsStarted, IgnoreDelete, Return, Idle
  <2> QED  BY <1>1, <2>1, <2>2, SInvQuiet
<1> QED  BY <1>2, <1>3, <1>4, <1>5, <1>6, <1>7 DEF RestoreSteps

\* kvrocks saves what it has, and nobody starts it while a backup relies on it.
LEMMA SInvEnvironment ==
    ASSUME TInv, DInv, SInv, Write \/ SaveDone \/ PodStops \/ PodStarts \/ Restart
    PROVE  SInv'
<1>n. /\ db \in Int /\ bak \in Int /\ saving \in Int /\ task["backup"].since \in Int
      /\ writes \in Int /\ Gone <= writes /\ Part <= writes /\ \A c \in Versions : c \in Int
  BY DataNumbers
<1>1. CASE Write
  <2>1. /\ db' = IF db = Part THEN Part ELSE writes + 1
        /\ writes' = writes + 1 /\ UNCHANGED <<replicas, pod, saving, bak, overlapped, task>>
    BY <1>1 DEF Write
  <2>2. writes + 1 \in Versions
    <3>1. writes \in 1 .. MaxWrites /\ writes < MaxWrites  BY <1>1 DEF Write, TInv, TypeOK
    <3> QED  BY <3>1, BoundAssumption DEF Versions
  <2>3. NotNewer'  BY <1>n, <2>1 DEF SInv, NotNewer, BackingUp
  <2>4. SavedDb'  BY <1>n, <2>1, <2>2, Kinds DEF SInv, NotNewer, SavedDb
  <2>5. SavedSince'
    BY <1>n, <2>1, <2>2, Kinds DEF SInv, NotNewer, SavedSince, BackingUp, Fresh
  <2> QED  BY <2>3, <2>4, <2>5 DEF SInv
<1>2. CASE SaveDone
  <2>1. /\ bak' = saving /\ saving # Gone /\ saving' = Gone
        /\ UNCHANGED <<replicas, pod, db, writes, overlapped, task>>
    BY <1>2 DEF SaveDone
  <2> QED  BY <1>n, <2>1, Kinds DEF SInv, NotNewer, SavedSince, SavedDb, BackingUp, Fresh
<1>3. CASE PodStops
  <2>1. /\ replicas = 0 /\ pod' = FALSE /\ saving' = Gone
        /\ UNCHANGED <<replicas, db, bak, writes, overlapped, task>>
    BY <1>3 DEF PodStops
  <2> QED  BY <1>n, <2>1, Kinds DEF SInv, NotNewer, SavedSince, SavedDb, BackingUp, Fresh
<1>4. CASE PodStarts
  <2>1. db # Gone /\ replicas # 0 /\ ~pod  BY <1>4 DEF PodStarts, DInv, Stopped
  <2>2. UNCHANGED <<replicas, saving, db, bak, writes, overlapped, task>>
    BY <1>4, <2>1 DEF PodStarts
  <2>3. saving = Gone  BY <2>1 DEF SInv, SavedDb
  <2>4. SavedSince'  BY <2>1, <2>2 DEF SInv, SavedSince, BackingUp, Fresh
  <2> QED  BY <2>2, <2>3, <2>4, Kinds DEF SInv, NotNewer, SavedDb, BackingUp
<1>5. CASE Restart
  <2>1. task'["backup"].phase = "idle"  BY <1>5 DEF Restart, Workers, Idle
  <2>2. UNCHANGED <<replicas, pod, saving, db, bak, writes, overlapped>>
    BY <1>5 DEF Restart, kvr_vars
  <2> QED  BY <2>1, <2>2, SInvQuiet
<1> QED  BY <1>1, <1>2, <1>3, <1>4, <1>5

\* Every step keeps what a backup has saved.
LEMMA SInvStep == TInv /\ DInv /\ SInv /\ [Next]_vars => SInv'
<1> SUFFICES ASSUME TInv, DInv, SInv, [Next]_vars PROVE SInv'  OBVIOUS
<1>1. CASE UNCHANGED vars
  <2>1. UNCHANGED <<replicas, pod, saving, db, bak, writes, overlapped, task>>
    BY <1>1 DEF vars, kvr_vars
  <2> QED  BY <2>1, SInvQuiet
<1>2. CASE Next
  BY <1>2, SInvHandler, SInvBackup, SInvRestore, SInvEnvironment DEF Next
<1> QED  BY <1>1, <1>2

\* What updateStatus leaves of the state of an object.
LEMMA StateAfter ==
    ASSUME TInv, NEW w \in Workers, NEW c \in Copies, NEW s, NEW ok, UpdateStatus(w, c, s, ok),
           NEW o \in Objects
    PROVE  cr'[o] = cr[o] \/ (o = task[w].item.name /\ cr'[o].state = s)
<1>1. cr \in [Objects -> Copies \cup {NoCopy}]  BY DEF TInv, TypeOK
<1>2. Stored(c, s).state = s  BY DEF Stored, Marked, Copies
<1>3. cr' = cr \/ cr' = [cr EXCEPT ![task[w].item.name] = Stored(c, s)]  BY DEF UpdateStatus
<1> QED  BY <1>1, <1>2, <1>3

\* Only MarkReady of the backup controller makes a backup ready.
LEMMA OnlyMarkReady ==
    ASSUME TInv, Routed, [Next]_vars, NEW o \in Backups,
           cr[o].state # "ready", cr'[o].state = "ready"
    PROVE  task["backup"].phase = "ready"
<1>o. o \in Objects  BY DEF Objects
<1>c. cr \in [Objects -> Copies \cup {NoCopy}]  BY DEF TInv, TypeOK
<1>1. cr'[o] # cr[o]  OBVIOUS
<1>2. ASSUME NEW p \in Objects, CreateObject(p) \/ DeleteObject(p) PROVE FALSE
  <2>1. PICK c : cr' = [cr EXCEPT ![p] = c] /\ c.state = ""
    <3>1. CASE CreateObject(p)
      <4>1. PICK named \in BOOLEAN :
               cr' = [cr EXCEPT ![p] = [NoCopy EXCEPT !.uid = uids + 1, !.named = named]]
        BY <3>1 DEF CreateObject
      <4>2. [NoCopy EXCEPT !.uid = uids + 1, !.named = named].state = ""  BY DEF NoCopy
      <4> QED  BY <4>1, <4>2
    <3>2. CASE DeleteObject(p)
      <4>1. NoCopy.state = ""  BY DEF NoCopy
      <4> QED  BY <3>2, <4>1 DEF DeleteObject
    <3> QED  BY <1>2, <3>1, <3>2
  <2> QED  BY <1>o, <1>c, <1>1, <2>1
<1>3. ASSUME NEW w \in Workers, Handler(w) PROVE MarkReady(w) /\ o = task[w].item.name
  <2>1. task[w].phase # "idle"
    BY <1>3 DEF Handler, IgnoreFinished, RefuseUnnamed, MarkRunning, MarkReady, MarkError, InHandler
  <2>2. Copy(w) \in Copies /\ (task[w].phase \notin {"idle", "handler"} => task[w].local \in Copies)
    BY <2>1, HandlerItem
  <2>3. CASE IgnoreFinished(w)  BY <1>1, <2>3 DEF IgnoreFinished, obj_vars
  <2>4. CASE RefuseUnnamed(w)
    <3>1. PICK ok \in BOOLEAN : UpdateStatus(w, Copy(w), "error", ok)  BY <2>4 DEF RefuseUnnamed
    <3> QED  BY <1>o, <1>1, <2>2, <3>1, StateAfter
  <2>5. CASE MarkRunning(w)
    <3>1. PICK ok \in BOOLEAN : UpdateStatus(w, Copy(w), "running", ok)  BY <2>5 DEF MarkRunning
    <3> QED  BY <1>o, <1>1, <2>2, <3>1, StateAfter
  <2>6. CASE MarkError(w)
    <3>1. PICK ok \in BOOLEAN : UpdateStatus(w, task[w].local, "error", ok)  BY <2>6 DEF MarkError
    <3>2. task[w].local \in Copies  BY <2>2, <2>6 DEF MarkError
    <3> QED  BY <1>o, <1>1, <3>1, <3>2, StateAfter
  <2>7. CASE MarkReady(w)
    <3>1. PICK ok \in BOOLEAN : UpdateStatus(w, task[w].local, "ready", ok)  BY <2>7 DEF MarkReady
    <3>2. task[w].local \in Copies  BY <2>2, <2>7 DEF MarkReady
    <3> QED  BY <1>o, <1>1, <2>7, <3>1, <3>2, StateAfter
  <2> QED  BY <1>3, <2>3, <2>4, <2>5, <2>6, <2>7 DEF Handler
<1>4. PICK w \in Workers : MarkReady(w) /\ o = task[w].item.name
  <2>1. CASE UNCHANGED vars  BY <1>1, <2>1 DEF vars, obj_vars
  <2>2. ASSUME \/ \E w \in Workers : Get(w) \/ Requeue(w) \/ FindFails(w) \/ CallFails(w)
               \/ BackupSteps \/ RestoreSteps
               \/ Write \/ SaveDone \/ PodStops \/ PodStarts \/ Restart
        PROVE  UNCHANGED cr
    BY <2>2 DEF Get, Requeue, FindFails, CallFails, BackupSteps, Connect, RemoveSome, RemovePrev,
       BgSave, BackupComplete, BackupTimeout, RemoveFiles, RestoreSteps, StatBackup, ScaleDown,
       ScaleUp, Scale, PodsClosed, EraseSome, EraseDb, Rename, PodsStarted, IgnoreDelete, Write, SaveDone, PodStops,
       PodStarts, Restart, Local, obj_vars
  <2> QED  BY <1>1, <1>2, <1>3, <2>1, <2>2 DEF Next
<1>5. WorkerOf(o) = w  BY <1>4 DEF Routed, MarkReady
<1>6. WorkerOf(o) = "backup"  BY DEF WorkerOf
<1> QED  BY <1>4, <1>5, <1>6 DEF MarkReady

\* A backup becomes ready only when the backup directory holds whole data, at least as
\* new as when BackupKVRocks began or as a save that was still running then, not what
\* an earlier backup left, a removal left over or a restore took away; unless a
\* restore moved the directory meanwhile.
THEOREM ReadyMeansSavedHolds == Spec => ReadyMeansSaved
<1>1. ASSUME TInv, Routed, SInv, [Next]_vars
      PROVE  [\A o \in Backups :
                /\ cr[o].state # "ready" /\ cr'[o].state = "ready"
                /\ ~overlapped /\ task["backup"].since \in Versions
                => bak \in Versions /\ bak >= task["backup"].since]_vars
  <2>1. ASSUME NEW o \in Backups, cr[o].state # "ready", cr'[o].state = "ready", ~overlapped,
               task["backup"].since \in Versions
        PROVE  bak \in Versions /\ bak >= task["backup"].since
    <3>1. task["backup"].phase = "ready"  BY <1>1, <2>1, OnlyMarkReady
    <3> QED  BY <1>1, <2>1, <3>1 DEF SInv, SavedSince, BackingUp, Fresh
  <2> QED  BY <2>1
<1> QED
  BY <1>1, TInvInit, TInvStep, DInvInit, DInvStep, SavedInit, RoutedStep, SInvStep, PTL
  DEF Spec, ReadyMeansSaved

=============================================================================
