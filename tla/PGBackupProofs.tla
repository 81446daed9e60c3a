--------------------------- MODULE PGBackupProofs ---------------------------
(***************************************************************************)
(* For every set of names and any number of objects, jobs, failures and    *)
(* restarts: the types of PGBackup, that a ready backup has its dump, that *)
(* a reported outcome is final, and that only a backup which never ran is  *)
(* rejected; and for PGRestore, the restore controller beside it, that a   *)
(* ready restore was loaded from a complete dump, and once.                *)
(***************************************************************************)
EXTENDS PGRestore, FiniteSetTheorems, TLAPS

----------------------------------------------------------------------------
(* The inductive invariant.                                                *)

\* The worker has an item in every phase but idle; past the first checks it is an ADD
\* of a backup that was not finished, and in the wait for the job there is a local
\* copy of it.
TaskShape ==
    /\ task.phase # "idle" => task.item \in Items
    /\ task.phase \notin {"idle", "handler"} =>
          task.item.action = "ADD" /\ Copy.state \notin Finished
    /\ task.phase = "wait" =>
          /\ task.local \in Copies
          /\ task.local.uid = Copy.uid /\ task.local.path = Copy.path
          /\ task.local.state = "running"

TypeInv == TypeOK /\ TaskShape

\* The items that wait, and all items there are.
Waiting == {queue[k] : k \in DOMAIN queue} \cup retry
Held == Waiting \cup (IF task.phase = "idle" THEN {} ELSE {task.item})

\* The path in a copy is that of a job made for the object.
PathOK(c) == c.path # 0 => c.path <= jobs /\ owner[c.path] = c.uid

\* A copy is not newer than the object, and one that is not older knows whether the
\* object is finished.
NotNewer(b, c) ==
    c.uid = cr[b].uid =>
        /\ c.ver <= cr[b].ver
        /\ c.ver = cr[b].ver /\ cr[b].state \in Finished => c.state \in Finished

\* What an item says of the present objects.
ItemOK(i) ==
    /\ i.copy.uid <= uids
    /\ PathOK(i.copy)
    /\ i.action = "DELETE" => \A b \in Backups : cr[b].uid # i.copy.uid
    /\ i.action = "ADD" => NotNewer(i.name, i.copy)

ItemsOK == /\ \A i \in Held : ItemOK(i)
           /\ task.phase = "wait" => NotNewer(task.item.name, task.local)

\* No two objects have the same uid.
ObjectsOK ==
    /\ \A b \in Backups : cr[b].uid <= uids /\ PathOK(cr[b])
    /\ \A b, c \in Backups : cr[b].uid = cr[c].uid /\ cr[b].uid # 0 => b = c

\* While the worker is about to wait or waits, the job is its own.
OwnJob ==
    task.phase \in {"run", "wait"} =>
        /\ job # NoJob /\ ~job.deleting
        /\ job.id = Copy.path
        /\ job.st = "succeeded" => dump[job.id] = "complete"

\* The job of a ready backup does not run again.
ReadyJob ==
    /\ job # NoJob => job.id <= jobs
    /\ \A b \in Backups :
          cr[b].state = "ready" /\ job # NoJob /\ job.id = cr[b].path => job.st = "succeeded"

Inv == TypeInv /\ ItemsOK /\ ObjectsOK /\ OwnJob /\ ReadyJob /\ ReadyMeansDumped

----------------------------------------------------------------------------
(* Types.                                                                  *)

USE DEF obj_vars, job_vars, cnt_vars

\* An item, its parts, and what the handler turns it into.
LEMMA ItemType ==
    ASSUME NEW i \in Items
    PROVE  /\ i.action \in {"ADD", "DELETE"} /\ i.name \in Backups /\ i.copy \in Copies
           /\ i.copy.uid \in 1 .. MaxUids /\ i.copy.path \in 0 .. MaxJobs
           /\ i.copy.ver \in Nat
           /\ \A c \in Copies : /\ [i EXCEPT !.copy = c] \in Items
                                /\ [i EXCEPT !.copy = c].copy = c
                                /\ [i EXCEPT !.copy = c].action = i.action
                                /\ [i EXCEPT !.copy = c].name = i.name
BY DEF Items, Copies

\* What updateStatus makes of a copy.
LEMMA MarkedType ==
    ASSUME NEW c \in Copies, NEW s \in States
    PROVE  /\ Marked(c, s) \in Copies /\ Stored(c, s) \in Copies
           /\ Marked(c, s) = [c EXCEPT !.state = s]
           /\ Marked(c, s).uid = c.uid /\ Marked(c, s).ver = c.ver
           /\ Marked(c, s).path = c.path /\ Marked(c, s).state = s
           /\ Stored(c, s).uid = c.uid /\ Stored(c, s).ver = c.ver + 1
           /\ Stored(c, s).path = c.path /\ Stored(c, s).state = s
<1>1. /\ Marked(c, s) \in Copies /\ Marked(c, s).uid = c.uid /\ Marked(c, s).ver = c.ver
      /\ Marked(c, s).path = c.path /\ Marked(c, s).state = s
  BY DEF Marked, Copies
<1>2. /\ Stored(c, s) \in Copies /\ Stored(c, s).uid = c.uid
      /\ Stored(c, s).ver = c.ver + 1 /\ Stored(c, s).path = c.path
      /\ Stored(c, s).state = s
  BY <1>1 DEF Stored, Copies
<1> QED  BY <1>1, <1>2 DEF Marked

\* An idle worker.
LEMMA IdleType ==
    ASSUME task' = Idle
    PROVE  task' \in Tasks /\ TaskShape' /\ task'.phase = "idle"
BY DEF Idle, Tasks, TaskShape

\* A worker that goes on, with the copy it now has.
LEMMA GoesOnType ==
    ASSUME TypeInv, task.item \in Items, task.item.action = "ADD",
           NEW c \in Copies, c.state \notin Finished,
           NEW p \in {"gone", "create", "failed", "run"},
           task' = [task EXCEPT !.phase = p, !.item.copy = c]
    PROVE  /\ task' \in Tasks /\ TaskShape' /\ task'.phase = p
           /\ task'.item = [task.item EXCEPT !.copy = c] /\ Copy' = c
<1>1. task \in Tasks  BY DEF TypeInv, TypeOK
<1>2. task'.phase = p /\ task'.item = [task.item EXCEPT !.copy = c] /\ task'.local = task.local
  BY <1>1 DEF Tasks
<1>3. /\ [task.item EXCEPT !.copy = c] \in Items
      /\ [task.item EXCEPT !.copy = c].copy = c
      /\ [task.item EXCEPT !.copy = c].action = "ADD"
  BY ItemType
<1>4. task' \in Tasks  BY <1>1, <1>3 DEF Tasks
<1> QED  BY <1>2, <1>3, <1>4 DEF TaskShape, Copy

\* The same with the copy it had.
LEMMA NextPhaseType ==
    ASSUME TypeInv, task.item \in Items, task.item.action = "ADD", Copy.state \notin Finished,
           NEW p \in {"gone", "create"},
           task' = [task EXCEPT !.phase = p]
    PROVE  /\ task' \in Tasks /\ TaskShape' /\ task'.phase = p
           /\ task'.item = task.item /\ Copy' = Copy
<1>1. task \in Tasks  BY DEF TypeInv, TypeOK
<1>2. task' \in Tasks /\ task'.phase = p /\ task'.item = task.item /\ task'.local = task.local
  BY <1>1 DEF Tasks
<1> QED  BY <1>2 DEF TaskShape, Copy

\* The path that the handler sets in its copy.
LEMMA PathType ==
    ASSUME NEW c \in Copies, NEW j \in 0 .. MaxJobs
    PROVE  LET d == [c EXCEPT !.path = j] IN
           /\ d \in Copies /\ d.path = j /\ d.uid = c.uid /\ d.ver = c.ver /\ d.state = c.state
BY DEF Copies

\* An item that fails waits with the copy it now has.
LEMMA FailType ==
    ASSUME TypeInv, task.item \in Items, NEW c \in Copies, Fail(c)
    PROVE  /\ task' \in Tasks /\ TaskShape' /\ task'.phase = "idle" /\ retry' \subseteq Items
           /\ retry' = retry \cup {[task.item EXCEPT !.copy = c]}
BY IdleType, ItemType DEF Fail, TypeInv, TypeOK

\* So does an item that is done with.
LEMMA ReturnType ==
    ASSUME TypeInv, Return
    PROVE  /\ task' \in Tasks /\ TaskShape' /\ task'.phase = "idle" /\ retry' \subseteq Items
           /\ retry' = retry
BY IdleType DEF Return, TypeInv, TypeOK

\* What a call of UpdateStatus leaves in the API server.
LEMMA UpdateStatusType ==
    ASSUME TypeInv, task.item \in Items, NEW c \in Copies, NEW s \in States,
           NEW ok \in BOOLEAN, UpdateStatus(c, s, ok)
    PROVE  /\ cr' \in [Backups -> Copies \cup {NoCopy}] /\ faults' \in 0 .. MaxFaults
           /\ \/ UNCHANGED cr
              \/ Current(c) /\ cr' = [cr EXCEPT ![task.item.name] = Stored(c, s)]
<1>1. Stored(c, s) \in Copies  BY MarkedType
<1>2. \/ UNCHANGED cr
      \/ Current(c) /\ cr' = [cr EXCEPT ![task.item.name] = Stored(c, s)]
  BY DEF UpdateStatus
<1>3. faults' \in 0 .. MaxFaults
  BY BoundAssumption DEF UpdateStatus, Works, Breaks, TypeInv, TypeOK
<1> QED  BY <1>1, <1>2, <1>3 DEF TypeInv, TypeOK

\* The initial state.
LEMMA TypeInvInit == Init => TypeInv
<1> SUFFICES ASSUME Init PROVE TypeInv  OBVIOUS
<1>1. task \in Tasks /\ TaskShape  BY DEF Init, Idle, Tasks, TaskShape
<1> QED  BY <1>1, BoundAssumption DEF Init, TypeInv, TypeOK

\* The worker's item while it works.
LEMMA WorkerItem ==
    ASSUME TypeInv, task.phase # "idle"
    PROVE  /\ task.item \in Items /\ Copy \in Copies /\ Copy = task.item.copy
           /\ task.item.name \in Backups
           /\ task.phase \notin {"idle", "handler"} =>
                 task.item.action = "ADD" /\ Copy.state \notin Finished
BY ItemType DEF TypeInv, TaskShape, Copy

\* The job that CreateJob leaves.
LEMMA NewJobType ==
    ASSUME TypeInv, task.phase # "idle", jobs < MaxJobs, NewJob
    PROVE  /\ jobs' = jobs + 1 /\ jobs' \in 1 .. MaxJobs
           /\ job' \in Jobs /\ job' # NoJob /\ job'.id = jobs' /\ ~job'.deleting /\ job'.st = "new"
           /\ owner' \in [1 .. MaxJobs -> 0 .. MaxUids]
           /\ owner'[jobs'] = Copy.uid /\ \A j \in 1 .. jobs : owner'[j] = owner[j]
<1>1. Copy.uid \in 1 .. MaxUids  BY WorkerItem, ItemType
<1>2. jobs' = jobs + 1 /\ jobs' \in 1 .. MaxJobs
  BY BoundAssumption DEF NewJob, TypeInv, TypeOK
<1>3. job' = [id |-> jobs', st |-> "new", deleting |-> FALSE]  BY <1>2 DEF NewJob
<1>4. job' \in Jobs /\ job' # NoJob /\ job'.id = jobs' /\ ~job'.deleting /\ job'.st = "new"
  BY <1>2, <1>3 DEF Jobs, NoJob
<1>5. /\ owner' \in [1 .. MaxJobs -> 0 .. MaxUids]
      /\ owner'[jobs'] = Copy.uid /\ \A j \in 1 .. jobs : owner'[j] = owner[j]
  BY <1>1, <1>2 DEF NewJob, TypeInv, TypeOK
<1> QED  BY <1>2, <1>4, <1>5

\* The steps of handler() that write no status keep the types.
LEMMA TypeInvHandler ==
    ASSUME TypeInv,
           \/ IgnoreFinished \/ ApiError \/ DeletePrevJob \/ NoPrevJob \/ PrevJobGone
           \/ CreateJob \/ CreateJobFails \/ WaitFails \/ RemoveFiles \/ RemoveFails
    PROVE  TypeInv'
<1> USE DEF TypeInv, TypeOK
<1>f. ASSUME Breaks PROVE faults' \in 0 .. MaxFaults
  BY <1>f, BoundAssumption DEF Breaks
<1>0. ASSUME task.phase # "idle", NEW j \in 0 .. MaxJobs
      PROVE  /\ [Copy EXCEPT !.path = j] \in Copies
             /\ [Copy EXCEPT !.path = j].state = Copy.state
  BY <1>0, WorkerItem, PathType
<1>1. CASE IgnoreFinished
  BY <1>1, ReturnType DEF IgnoreFinished
<1>2. CASE ApiError
  <2>1. task.item \in Items /\ Copy \in Copies  BY <1>2, WorkerItem DEF ApiError
  <2> QED  BY <1>2, <1>f, <2>1, FailType DEF ApiError
<1>3. CASE DeletePrevJob
  <2>1. task' \in Tasks /\ TaskShape'
    BY <1>3, WorkerItem, NextPhaseType DEF DeletePrevJob, InHandler
  <2>2. job \in Jobs  BY <1>3 DEF DeletePrevJob, NoJob
  <2>3. job' \in Jobs  BY <1>3, <2>2 DEF DeletePrevJob, Jobs
  <2> QED  BY <1>3, <2>1, <2>3 DEF DeletePrevJob
<1>4. CASE NoPrevJob
  <2>1. task' \in Tasks /\ TaskShape'
    BY <1>4, WorkerItem, NextPhaseType DEF NoPrevJob, InHandler
  <2> QED  BY <1>4, <2>1 DEF NoPrevJob
<1>5. CASE PrevJobGone
  <2>1. task' \in Tasks /\ TaskShape'
    BY <1>5, WorkerItem, NextPhaseType DEF PrevJobGone
  <2> QED  BY <1>5, <2>1 DEF PrevJobGone
<1>6. CASE CreateJob
  <2>1. /\ jobs' = jobs + 1 /\ jobs' \in 1 .. MaxJobs /\ job' \in Jobs
        /\ owner' \in [1 .. MaxJobs -> 0 .. MaxUids]
    BY <1>6, NewJobType DEF CreateJob
  <2> DEFINE c == [Copy EXCEPT !.path = jobs']
  <2>2. task' = [task EXCEPT !.phase = "run", !.item.copy = c]
    BY <1>6, <2>1 DEF CreateJob, Copy
  <2>a. /\ task.item \in Items /\ task.item.action = "ADD"
        /\ c \in Copies /\ c.state \notin Finished
    BY <1>6, <1>0, <2>1, WorkerItem DEF CreateJob
  <2> HIDE DEF c
  <2>3. task' \in Tasks /\ TaskShape'
    BY <2>2, <2>a, GoesOnType
  <2> QED  BY <1>6, <2>1, <2>3 DEF CreateJob
<1>7. CASE CreateJobFails
  <2>0. UNCHANGED <<obj_vars, queue, retry, dump, crashes, backoffs>> /\ task.phase = "create"
    BY <1>7 DEF CreateJobFails
  <2>1. ASSUME NEW j \in 0 .. MaxJobs,
               task' = [task EXCEPT !.phase = "failed", !.item.copy.path = j]
        PROVE  task' \in Tasks /\ TaskShape'
    <3> DEFINE c == [Copy EXCEPT !.path = j]
    <3>1. task' = [task EXCEPT !.phase = "failed", !.item.copy = c]
      BY <2>1 DEF Copy
    <3>2. /\ task.item \in Items /\ task.item.action = "ADD"
          /\ c \in Copies /\ c.state \notin Finished
      BY <2>0, <1>0, WorkerItem
    <3> HIDE DEF c
    <3> QED  BY <3>1, <3>2, GoesOnType
  <2>2. ASSUME UNCHANGED <<job, jobs, owner>>,
               task' = [task EXCEPT !.phase = "failed", !.item.copy.path = 0],
               faults' \in 0 .. MaxFaults
        PROVE  TypeInv'
    <3>0. 0 \in 0 .. MaxJobs  BY BoundAssumption
    <3>1. task' \in Tasks /\ TaskShape'  BY <2>1, <2>2, <3>0
    <3>2. UNCHANGED <<job, jobs, owner>> /\ faults' \in 0 .. MaxFaults  BY <2>2
    <3> QED  BY <2>0, <3>1, <3>2
  <2>3. ASSUME Breaks, jobs < MaxJobs, NewJob,
               task' = [task EXCEPT !.phase = "failed", !.item.copy.path = jobs + 1]
        PROVE  TypeInv'
    <3>1. /\ jobs' = jobs + 1 /\ jobs' \in 1 .. MaxJobs /\ job' \in Jobs
          /\ owner' \in [1 .. MaxJobs -> 0 .. MaxUids]
      BY <2>0, <2>3, NewJobType
    <3>2. jobs + 1 \in 0 .. MaxJobs  BY <3>1
    <3>3. task' \in Tasks /\ TaskShape'  BY <2>1, <2>3, <3>2
    <3>4. faults' \in 0 .. MaxFaults  BY <1>f, <2>3
    <3> QED  BY <2>0, <3>1, <3>3, <3>4
  <2>4. Works => faults' \in 0 .. MaxFaults  BY DEF Works
  <2> QED  BY <1>7, <1>f, <2>2, <2>3, <2>4 DEF CreateJobFails
<1>8. CASE WaitFails
  <2>1. task.item \in Items /\ Copy \in Copies  BY <1>8, WorkerItem DEF WaitFails
  <2>2. faults' \in 0 .. MaxFaults  BY <1>8, <1>f DEF WaitFails, Works
  <2> QED  BY <1>8, <2>1, <2>2, FailType DEF WaitFails
<1>9. CASE RemoveFiles
  <2>1. dump' \in [1 .. MaxJobs -> {"none", "partial", "complete"}]
    BY <1>9 DEF RemoveFiles
  <2> QED  BY <1>9, <2>1, ReturnType DEF RemoveFiles
<1>10. CASE RemoveFails
  <2>1. task.item \in Items /\ Copy \in Copies
    BY <1>10, WorkerItem DEF RemoveFails, InHandler
  <2> QED  BY <1>10, <1>f, <2>1, FailType DEF RemoveFails
<1> QED  BY <1>1, <1>2, <1>3, <1>4, <1>5, <1>6, <1>7, <1>8, <1>9, <1>10

\* So do those that write one.
LEMMA TypeInvStatus ==
    ASSUME TypeInv, RefuseUnnamed \/ RejectDuplicate \/ MarkFailed \/ MarkRunning \/ JobCompleted
    PROVE  TypeInv'
<1> USE DEF TypeInv, TypeOK
<1>0. /\ task.item \in Items /\ Copy \in Copies
      /\ Marked(Copy, "error") \in Copies /\ Marked(Copy, "rejected") \in Copies
      /\ Marked(Copy, "running") \in Copies
      /\ task.phase = "wait" => task.local \in Copies
  BY WorkerItem, MarkedType
     DEF RefuseUnnamed, RejectDuplicate, MarkFailed, MarkRunning, JobCompleted, InHandler,
         States, TaskShape
<1>1. CASE RefuseUnnamed
  <2>1. cr' \in [Backups -> Copies \cup {NoCopy}] /\ faults' \in 0 .. MaxFaults
    BY <1>0, <1>1, UpdateStatusType DEF RefuseUnnamed, States
  <2> QED  BY <1>0, <1>1, <2>1, FailType DEF RefuseUnnamed
<1>2. CASE RejectDuplicate
  <2>1. cr' \in [Backups -> Copies \cup {NoCopy}] /\ faults' \in 0 .. MaxFaults
    BY <1>0, <1>2, UpdateStatusType DEF RejectDuplicate, States
  <2> QED  BY <1>0, <1>2, <2>1, FailType, ReturnType DEF RejectDuplicate
<1>3. CASE MarkFailed
  <2>1. cr' \in [Backups -> Copies \cup {NoCopy}] /\ faults' \in 0 .. MaxFaults
    BY <1>0, <1>3, UpdateStatusType DEF MarkFailed, States
  <2> QED  BY <1>0, <1>3, <2>1, FailType DEF MarkFailed
<1>4. CASE MarkRunning
  <2>1. cr' \in [Backups -> Copies \cup {NoCopy}] /\ faults' \in 0 .. MaxFaults
    BY <1>0, <1>4, UpdateStatusType DEF MarkRunning, States
  <2>2. CASE Fail(Marked(Copy, "running"))
    BY <1>0, <1>4, <2>1, <2>2, FailType DEF MarkRunning
  <2>3. CASE /\ task' = [task EXCEPT !.phase = "wait",
                                     !.item.copy = Marked(Copy, "running"),
                                     !.local = Stored(Copy, "running")]
             /\ UNCHANGED retry
    <3> DEFINE m == Marked(Copy, "running")
               n == Stored(Copy, "running")
    <3>1. /\ m \in Copies /\ n \in Copies /\ m.uid = n.uid /\ m.path = n.path
          /\ m.state = "running" /\ n.state = "running"
      <4> "running" \in States  BY DEF States
      <4> QED  BY <1>0, MarkedType
    <3>2. task.item.action = "ADD"  BY <1>4, WorkerItem DEF MarkRunning
    <3> HIDE DEF m, n
    <3>3. /\ [task.item EXCEPT !.copy = m] \in Items
          /\ [task.item EXCEPT !.copy = m].copy = m
          /\ [task.item EXCEPT !.copy = m].action = "ADD"
      BY <1>0, <3>1, <3>2, ItemType
    <3>4. task' = [task EXCEPT !.phase = "wait", !.item = [task.item EXCEPT !.copy = m], !.local = n]
      BY <2>3 DEF m, n, Tasks
    <3>5. /\ task' \in Tasks /\ task'.phase = "wait"
          /\ task'.item = [task.item EXCEPT !.copy = m] /\ task'.local = n
      BY <3>1, <3>3, <3>4 DEF Tasks
    <3>6. TaskShape'
      BY <3>1, <3>3, <3>5 DEF TaskShape, Copy, Finished
    <3> QED  BY <1>4, <2>1, <2>3, <3>5, <3>6 DEF MarkRunning
  <2> QED  BY <1>4, <2>2, <2>3 DEF MarkRunning
<1>5. CASE JobCompleted
  <2>1. task.local \in Copies /\ Outcome(job.st) \in States
    BY <1>0, <1>5 DEF JobCompleted, Outcome, States
  <2>2. cr' \in [Backups -> Copies \cup {NoCopy}] /\ faults' \in 0 .. MaxFaults
    BY <1>0, <1>5, <2>1, UpdateStatusType DEF JobCompleted
  <2> QED  BY <1>0, <1>5, <2>2, FailType, ReturnType DEF JobCompleted
<1> QED  BY <1>1, <1>2, <1>3, <1>4, <1>5

\* The objects that exist are handed out in some order after a restart.
LEMMA RestartType ==
    ASSUME TypeInv, Restart
    PROVE  /\ queue' \in Seq(Items)
           /\ \A k \in DOMAIN queue' : \E b \in Backups :
                 cr[b] # NoCopy /\ queue'[k] = [action |-> "ADD", name |-> b, copy |-> cr[b]]
<1> DEFINE E == {b \in Backups : cr[b] # NoCopy}
           n == Cardinality(E)
<1>1. n \in Nat  BY NamesAssumption, FS_Subset, FS_CardinalityType
<1>2. PICK s \in [1 .. n -> E] :
         queue' = [k \in DOMAIN s |-> [action |-> "ADD", name |-> s[k], copy |-> cr[s[k]]]]
  BY DEF Restart
<1> HIDE DEF n
<1>3. ASSUME NEW k \in 1 .. n
      PROVE  /\ s[k] \in Backups /\ cr[s[k]] # NoCopy
             /\ [action |-> "ADD", name |-> s[k], copy |-> cr[s[k]]] \in Items
  <2>1. s[k] \in Backups /\ cr[s[k]] # NoCopy  OBVIOUS
  <2>2. cr[s[k]] \in Copies  BY <2>1 DEF TypeInv, TypeOK
  <2> QED  BY <2>1, <2>2 DEF Items
<1>4. queue' \in [1 .. n -> Items]  BY <1>2, <1>3
<1>5. queue' \in Seq(Items)  BY <1>1, <1>4
<1>6. DOMAIN queue' = 1 .. n  BY <1>4
<1> QED  BY <1>2, <1>3, <1>5, <1>6

\* The rest: objects, queue, job and restarts.
LEMMA TypeInvOthers ==
    ASSUME TypeInv,
           \/ \E b \in Backups : CreateBackup(b) \/ DeleteBackup(b)
           \/ Get \/ Requeue \/ JobStarts \/ JobEnds \/ JobRemoved \/ JobExpires \/ Restart
    PROVE  TypeInv'
<1>0. ASSUME UNCHANGED task PROVE task' \in Tasks /\ TaskShape'
  BY <1>0 DEF TypeInv, TypeOK, TaskShape, Copy
<1>1. ASSUME NEW b \in Backups, CreateBackup(b) PROVE TypeInv'
  <2>1. PICK named \in BOOLEAN :
          LET c == [uid |-> uids + 1, ver |-> 0, state |-> "", path |-> 0, named |-> named] IN
          cr' = [cr EXCEPT ![b] = c] /\ Enqueue("ADD", b, c)
    BY <1>1 DEF CreateBackup
  <2> DEFINE c == [uid |-> uids + 1, ver |-> 0, state |-> "", path |-> 0, named |-> named]
  <2>u. uids' = uids + 1 /\ uids < MaxUids  BY <1>1 DEF CreateBackup
  <2>2. uids' = uids + 1 /\ uids + 1 \in 1 .. MaxUids
    BY <2>u, BoundAssumption DEF TypeInv, TypeOK
  <2>3. c \in Copies  BY <2>2, BoundAssumption DEF Copies, States
  <2>4. cr' = [cr EXCEPT ![b] = c] /\ queue' = Append(queue, [action |-> "ADD", name |-> b, copy |-> c])
    BY <2>1 DEF Enqueue
  <2> HIDE DEF c
  <2>5. [action |-> "ADD", name |-> b, copy |-> c] \in Items  BY <2>3 DEF Items
  <2>6. queue' \in Seq(Items)  BY <2>4, <2>5 DEF TypeInv, TypeOK
  <2>7. cr' \in [Backups -> Copies \cup {NoCopy}]  BY <2>3, <2>4 DEF TypeInv, TypeOK
  <2>8. UNCHANGED <<retry, task, job_vars, cnt_vars>>  BY <1>1 DEF CreateBackup
  <2> QED  BY <1>0, <2>2, <2>6, <2>7, <2>8 DEF TypeInv, TypeOK
<1>2. ASSUME NEW b \in Backups, DeleteBackup(b) PROVE TypeInv'
  <2>1. cr[b] \in Copies  BY <1>2 DEF DeleteBackup, TypeInv, TypeOK
  <2>2. [action |-> "DELETE", name |-> b, copy |-> cr[b]] \in Items  BY <2>1 DEF Items
  <2>3. queue' \in Seq(Items)  BY <1>2, <2>2 DEF DeleteBackup, Enqueue, TypeInv, TypeOK
  <2>4. cr' \in [Backups -> Copies \cup {NoCopy}]  BY <1>2 DEF DeleteBackup, TypeInv, TypeOK
  <2>5. UNCHANGED <<uids, retry, task, job_vars, cnt_vars>>  BY <1>2 DEF DeleteBackup
  <2> QED  BY <1>0, <2>3, <2>4, <2>5 DEF TypeInv, TypeOK
<1>3. CASE Get
  <2>1. Head(queue) \in Items /\ Tail(queue) \in Seq(Items)
    BY <1>3 DEF Get, TypeInv, TypeOK
  <2>2. task' \in Tasks /\ TaskShape'
    BY <1>3, <2>1 DEF Get, Idle, Tasks, TaskShape
  <2> QED  BY <1>3, <2>1, <2>2 DEF Get, TypeInv, TypeOK
<1>4. CASE Requeue
  <2>1. queue' \in Seq(Items) /\ retry' \subseteq Items
    BY <1>4 DEF Requeue, TypeInv, TypeOK
  <2> QED  BY <1>0, <1>4, <2>1 DEF Requeue, TypeInv, TypeOK
<1>5. CASE JobStarts
  <2>1. job \in Jobs  BY <1>5 DEF JobStarts, NoJob, TypeInv, TypeOK
  <2>2. job' \in Jobs  BY <1>5, <2>1 DEF JobStarts, JobStep, Jobs
  <2>3. dump' \in [1 .. MaxJobs -> {"none", "partial", "complete"}]
    BY <1>5 DEF JobStarts, TypeInv, TypeOK
  <2> QED  BY <1>0, <1>5, <2>2, <2>3 DEF JobStarts, TypeInv, TypeOK
<1>6. CASE JobEnds
  <2>1. job \in Jobs  BY <1>6 DEF JobEnds, NoJob, TypeInv, TypeOK
  <2>2. job' \in Jobs  BY <1>6, <2>1 DEF JobEnds, JobStep, Jobs
  <2>3. dump' \in [1 .. MaxJobs -> {"none", "partial", "complete"}]
    BY <1>6 DEF JobEnds, TypeInv, TypeOK
  <2>4. backoffs' \in 0 .. MaxBackoffs
    BY <1>6, BoundAssumption DEF JobEnds, TypeInv, TypeOK
  <2> QED  BY <1>0, <1>6, <2>2, <2>3, <2>4 DEF JobEnds, TypeInv, TypeOK
<1>7. CASE JobRemoved
  BY <1>0, <1>7 DEF JobRemoved, TypeInv, TypeOK
<1>8. CASE JobExpires
  <2>1. job \in Jobs  BY <1>8 DEF JobExpires, NoJob, TypeInv, TypeOK
  <2>2. job' \in Jobs  BY <1>8, <2>1 DEF JobExpires, Jobs
  <2> QED  BY <1>0, <1>8, <2>2 DEF JobExpires, TypeInv, TypeOK
<1>9. CASE Restart
  <2>1. queue' \in Seq(Items)  BY <1>9, RestartType
  <2>2. /\ task' = Idle /\ retry' = {} /\ UNCHANGED <<obj_vars, job_vars, faults, backoffs>>
        /\ crashes < MaxCrashes /\ crashes' = crashes + 1
    BY <1>9 DEF Restart
  <2>3. crashes' \in 0 .. MaxCrashes  BY <2>2, BoundAssumption DEF TypeInv, TypeOK
  <2> QED  BY <2>1, <2>2, <2>3, IdleType DEF TypeInv, TypeOK
<1> QED  BY <1>1, <1>2, <1>3, <1>4, <1>5, <1>6, <1>7, <1>8, <1>9

\* Every step keeps the types.
LEMMA TypeInvNext == TypeInv /\ [Next]_vars => TypeInv'
<1> SUFFICES ASSUME TypeInv, [Next]_vars PROVE TypeInv'  OBVIOUS
<1>1. CASE UNCHANGED vars
  BY <1>1 DEF vars, TypeInv, TypeOK, TaskShape, Copy
<1> QED  BY <1>1, TypeInvHandler, TypeInvStatus, TypeInvOthers DEF Next, Handler

----------------------------------------------------------------------------
(* What a step does to the objects.                                        *)

\* Jobs are only added.
JobsGrow == jobs <= jobs' /\ \A j \in 1 .. jobs : owner'[j] = owner[j]

\* An object is created with the next uid, deleted, or, unless it is finished, given its
\* next version.
Created(b, c) == c.uid = uids + 1 /\ c.path = 0 /\ c.state \notin Finished /\ uids' = uids + 1
Written(b, c) == /\ c.uid = cr[b].uid /\ c.ver = cr[b].ver + 1 /\ cr[b].state \notin Finished
                 /\ PathOK(c)
                 /\ UNCHANGED uids
ObjectStep ==
    \/ UNCHANGED <<cr, uids>>
    \/ \E b \in Backups, c \in Copies :
          cr' = [cr EXCEPT ![b] = c] /\ (Created(b, c) \/ Written(b, c))
    \/ \E b \in Backups : cr' = [cr EXCEPT ![b] = NoCopy] /\ UNCHANGED uids

\* The parts of a copy, and of none.
LEMMA CopyType ==
    /\ NoCopy.uid = 0 /\ NoCopy.path = 0 /\ NoCopy.ver = 0 /\ NoCopy.state \notin Finished
    /\ \A c \in Copies : c.uid \in Nat /\ c.uid # 0 /\ c.ver \in Nat /\ c.path \in 0 .. MaxJobs
<1>1. NoCopy.uid = 0 /\ NoCopy.path = 0 /\ NoCopy.ver = 0 /\ NoCopy.state \notin Finished
  BY DEF NoCopy, Finished
<1>2. \A c \in Copies : c.uid \in Nat /\ c.uid # 0 /\ c.ver \in Nat /\ c.path \in 0 .. MaxJobs
  BY BoundAssumption DEF Copies
<1> QED  BY <1>1, <1>2

\* The types that the objects' invariants need, before and after a step.
Numbers ==
    /\ uids \in Nat /\ jobs \in Nat
    /\ cr \in [Backups -> Copies \cup {NoCopy}]
    /\ owner \in [1 .. MaxJobs -> 0 .. MaxUids]

\* They follow from the type invariant.
LEMMA NumbersBoth ==
    ASSUME TypeInv, TypeInv'
    PROVE  Numbers /\ Numbers'
<1>1. Numbers  BY DEF TypeInv, TypeOK, Numbers
<1>2. Numbers'  BY DEF TypeInv, TypeOK, Numbers
<1> QED  BY <1>1, <1>2

\* What a step does to one object.
LEMMA ObjectStepAt ==
    ASSUME Numbers, ObjectStep, NEW b \in Backups
    PROVE  \/ cr'[b] = cr[b]
           \/ cr'[b] = NoCopy
           \/ \E c \in Copies : cr'[b] = c /\ (Created(b, c) \/ Written(b, c))
BY DEF ObjectStep, Numbers

\* Uids are not given back.
LEMMA UidsGrow == ASSUME Numbers, ObjectStep PROVE uids <= uids' /\ uids' \in Nat
BY DEF ObjectStep, Created, Written, Numbers

\* Paths that were right stay so.
LEMMA PathKept ==
    ASSUME Numbers, Numbers', JobsGrow, NEW c, c.path \in 0 .. MaxJobs, PathOK(c)
    PROVE  c.path # 0 => c.path <= jobs' /\ owner'[c.path] = c.uid
BY BoundAssumption DEF PathOK, JobsGrow, Numbers

\* So do copies that were not newer than their object ...
LEMMA NotNewerKept ==
    ASSUME Numbers, ObjectStep, NEW b \in Backups, NEW c \in Copies,
           c.uid <= uids, NotNewer(b, c)
    PROVE  c.uid = cr'[b].uid =>
              /\ c.ver <= cr'[b].ver
              /\ c.ver = cr'[b].ver /\ cr'[b].state \in Finished => c.state \in Finished
<1>0. c.uid \in Nat /\ c.uid # 0 /\ c.ver \in Nat  BY CopyType
<1>1. CASE cr'[b] = cr[b]
  BY <1>1 DEF NotNewer
<1>2. CASE cr'[b] = NoCopy
  BY <1>0, <1>2, CopyType
<1>3. ASSUME NEW d \in Copies, cr'[b] = d, Created(b, d) PROVE c.uid # cr'[b].uid
  BY <1>0, <1>3 DEF Created, Numbers
<1>4. ASSUME NEW d \in Copies, cr'[b] = d, Written(b, d), c.uid = cr'[b].uid
      PROVE  c.ver < cr'[b].ver
  <2>1. c.ver <= cr[b].ver /\ cr'[b].ver = cr[b].ver + 1  BY <1>4 DEF NotNewer, Written
  <2>2. cr[b].ver \in Nat  BY CopyType DEF Numbers
  <2> QED  BY <1>0, <2>1, <2>2
<1>5. ASSUME NEW d \in Copies, cr'[b] = d, Written(b, d) PROVE cr'[b].ver \in Nat
  BY <1>5, CopyType
<1> QED  BY <1>0, <1>1, <1>2, <1>3, <1>4, <1>5, ObjectStepAt

\* ... and items that agreed with the objects.
LEMMA ItemKept ==
    ASSUME TypeInv, TypeInv', ObjectStep, JobsGrow, NEW i \in Items, ItemOK(i)
    PROVE  ItemOK(i)'
<1>0. Numbers /\ Numbers'  BY NumbersBoth
<1>1. i.copy \in Copies /\ i.name \in Backups  BY ItemType
<1>a. i.copy.uid \in Nat /\ i.copy.uid # 0 /\ i.copy.path \in 0 .. MaxJobs  BY <1>1, CopyType
<1>2. i.copy.uid <= uids'
  BY <1>0, <1>a, UidsGrow DEF ItemOK, Numbers
<1>3. PathOK(i.copy)'  BY <1>0, <1>a, PathKept DEF ItemOK, PathOK
<1>4. i.action = "ADD" => NotNewer(i.name, i.copy)'
  BY <1>0, <1>1, NotNewerKept DEF ItemOK, NotNewer
<1>5. ASSUME i.action = "DELETE", NEW b \in Backups PROVE cr'[b].uid # i.copy.uid
  <2>1. cr[b].uid # i.copy.uid /\ i.copy.uid <= uids  BY <1>5 DEF ItemOK
  <2>2. CASE cr'[b] = cr[b]  BY <2>1, <2>2
  <2>3. CASE cr'[b] = NoCopy  BY <1>a, <2>3, CopyType
  <2>4. ASSUME NEW d \in Copies, cr'[b] = d, Created(b, d) PROVE cr'[b].uid # i.copy.uid
    BY <1>0, <1>a, <2>1, <2>4 DEF Created, Numbers
  <2>5. ASSUME NEW d \in Copies, cr'[b] = d, Written(b, d) PROVE cr'[b].uid # i.copy.uid
    BY <2>1, <2>5 DEF Written
  <2> QED  BY <1>0, <2>2, <2>3, <2>4, <2>5, ObjectStepAt
<1> QED  BY <1>2, <1>3, <1>4, <1>5 DEF ItemOK

\* And the objects have uids of their own.
LEMMA ObjectsKept ==
    ASSUME TypeInv, TypeInv', ObjectStep, JobsGrow, ObjectsOK
    PROVE  ObjectsOK'
<1>0. Numbers /\ Numbers'  BY NumbersBoth
<1>t. \A b \in Backups : cr[b].uid \in Nat /\ cr[b].path \in 0 .. MaxJobs
  BY <1>0, CopyType, BoundAssumption DEF Numbers
<1>1. ASSUME NEW b \in Backups
      PROVE  /\ cr'[b].uid <= uids'
             /\ cr'[b].path # 0 => cr'[b].path <= jobs' /\ owner'[cr'[b].path] = cr'[b].uid
  <2>0. uids <= uids' /\ uids \in Nat /\ uids' \in Nat  BY <1>0, UidsGrow DEF Numbers
  <2>1. CASE cr'[b] = cr[b]
    <3>1. cr[b].uid <= uids /\ PathOK(cr[b])  BY DEF ObjectsOK
    <3>2. cr'[b].uid <= uids'  BY <1>t, <2>0, <2>1, <3>1
    <3> QED  BY <1>0, <1>t, <2>1, <3>1, <3>2, PathKept
  <2>2. CASE cr'[b] = NoCopy
    BY <2>0, <2>2, CopyType
  <2>3. ASSUME NEW d \in Copies, cr'[b] = d, Created(b, d)
        PROVE  cr'[b].uid <= uids' /\ cr'[b].path = 0
    BY <2>0, <2>3 DEF Created
  <2>4. ASSUME NEW d \in Copies, cr'[b] = d, Written(b, d)
        PROVE  /\ d.uid <= uids'
               /\ d.path # 0 => d.path <= jobs' /\ owner'[d.path] = d.uid
    <3>1. d.uid <= uids'  BY <2>4 DEF Written, ObjectsOK
    <3>2. PathOK(d) /\ d.path \in 0 .. MaxJobs  BY <2>4, CopyType DEF Written
    <3> QED  BY <1>0, <3>1, <3>2, PathKept
  <2> QED  BY <1>0, <2>1, <2>2, <2>3, <2>4, ObjectStepAt
<1>2. ASSUME NEW b \in Backups, NEW c \in Backups, cr'[b].uid = cr'[c].uid, cr'[b].uid # 0
      PROVE  b = c
  <2>0. /\ cr[b].uid <= uids /\ cr[c].uid <= uids /\ cr[b].uid \in Nat /\ cr[c].uid \in Nat
        /\ uids \in Nat /\ cr \in [Backups -> Copies \cup {NoCopy}]
    BY <1>0, <1>t DEF ObjectsOK, Numbers
  <2>1. CASE UNCHANGED <<cr, uids>>
    BY <1>2, <2>1 DEF ObjectsOK
  <2>2. ASSUME NEW a \in Backups, NEW d \in Copies, cr' = [cr EXCEPT ![a] = d],
               Created(a, d)
        PROVE  b = c
    <3>1. d.uid > cr[b].uid /\ d.uid > cr[c].uid  BY <2>0, <2>2 DEF Created
    <3> QED  BY <1>2, <2>0, <2>2, <3>1 DEF ObjectsOK
  <2>3. ASSUME NEW a \in Backups, NEW d \in Copies, cr' = [cr EXCEPT ![a] = d],
               Written(a, d)
        PROVE  b = c
    BY <1>2, <2>0, <2>3 DEF Written, ObjectsOK
  <2>4. ASSUME NEW a \in Backups, cr' = [cr EXCEPT ![a] = NoCopy] PROVE b = c
    BY <1>2, <2>0, <2>4, CopyType DEF ObjectsOK
  <2> QED  BY <2>1, <2>2, <2>3, <2>4 DEF ObjectStep
<1> QED  BY <1>1, <1>2 DEF ObjectsOK, PathOK

----------------------------------------------------------------------------
(* What a step does to the items.                                          *)

\* All items there are, are items.
LEMMA HeldType == ASSUME TypeInv PROVE Held \subseteq Items
BY DEF Held, Waiting, TypeInv, TypeOK, TaskShape

\* Items are kept, dropped, or new and in agreement with the objects.
LEMMA ItemsStep ==
    ASSUME TypeInv, TypeInv', ObjectStep, JobsGrow, ItemsOK, ObjectsOK,
           \A i \in Held' : i \in Held \/ ItemOK(i)',
           task'.phase = "wait" => UNCHANGED task \/ NotNewer(task.item.name, task.local)'
    PROVE  ItemsOK' /\ ObjectsOK'
<1>1. ObjectsOK'  BY ObjectsKept
<1>2. \A i \in Held' : ItemOK(i)'
  BY ItemKept, HeldType DEF ItemsOK
<1>3. ASSUME task'.phase = "wait" PROVE NotNewer(task.item.name, task.local)'
  <2>1. CASE UNCHANGED task
    <3>1. /\ task.phase = "wait" /\ task.item \in Items /\ task.local \in Copies
          /\ task.local.uid = task.item.copy.uid /\ task.item \in Held
      BY <1>3, <2>1 DEF TypeInv, TaskShape, Held, Copy
    <3>2. NotNewer(task.item.name, task.local) /\ task.local.uid <= uids
      BY <3>1 DEF ItemsOK, ItemOK
    <3>3. task.item.name \in Backups /\ Numbers  BY <3>1, ItemType, NumbersBoth
    <3> QED  BY <2>1, <3>1, <3>2, <3>3, NotNewerKept DEF NotNewer
  <2> QED  BY <1>3, <2>1
<1> QED  BY <1>1, <1>2, <1>3 DEF ItemsOK

\* An item whose copy the handler has changed still agrees with the objects.
LEMMA CopyChanged ==
    ASSUME NEW i \in Items, ItemOK(i)', NEW c \in Copies,
           c.uid = i.copy.uid, c.ver = i.copy.ver, PathOK(c)',
           i.copy.state \in Finished => c.state \in Finished
    PROVE  ItemOK([i EXCEPT !.copy = c])'
<1> DEFINE j == [i EXCEPT !.copy = c]
<1>1. j.copy = c /\ j.action = i.action /\ j.name = i.name  BY ItemType
<1> HIDE DEF j
<1>2. NotNewer(i.name, i.copy)' => NotNewer(i.name, c)'  BY DEF NotNewer
<1>3. ItemOK(j)'  BY <1>1, <1>2 DEF ItemOK
<1> QED  BY <1>3 DEF j

\* The worker fails: its item waits again.
LEMMA FailItems ==
    ASSUME TypeInv, TypeInv', ObjectStep, JobsGrow, ItemsOK, ObjectsOK,
           task.phase # "idle", UNCHANGED queue,
           NEW c \in Copies, Fail(c), c.uid = Copy.uid, c.ver = Copy.ver, c.path = Copy.path,
           Copy.state \in Finished => c.state \in Finished
    PROVE  ItemsOK' /\ ObjectsOK' /\ task'.phase = "idle"
<1>1. task.item \in Items /\ Copy = task.item.copy /\ Copy \in Copies  BY WorkerItem
<1>2. /\ task'.phase = "idle"
      /\ retry' = retry \cup {[task.item EXCEPT !.copy = c]}
  BY <1>1, FailType
<1>i. PICK i \in Items : i = task.item  BY <1>1
<1>3. ItemOK(i)  BY <1>i DEF Held, ItemsOK
<1>4. ItemOK(i)'  BY <1>3, ItemKept
<1>5. PathOK(c)'  BY <1>1, <1>i, <1>4 DEF ItemOK, PathOK
<1>6. ItemOK([i EXCEPT !.copy = c])'  BY <1>1, <1>i, <1>4, <1>5, CopyChanged
<1>7. Held' \subseteq Held \cup {[i EXCEPT !.copy = c]}
  BY <1>2, <1>i DEF Held, Waiting
<1> QED  BY <1>2, <1>6, <1>7, ItemsStep

\* The worker is done with its item.
LEMMA ReturnItems ==
    ASSUME TypeInv, TypeInv', ObjectStep, JobsGrow, ItemsOK, ObjectsOK,
           UNCHANGED queue, Return
    PROVE  ItemsOK' /\ ObjectsOK' /\ task'.phase = "idle"
<1>1. task'.phase = "idle" /\ retry' = retry  BY ReturnType
<1>2. Held' \subseteq Held  BY <1>1 DEF Held, Waiting
<1> QED  BY <1>1, <1>2, ItemsStep

\* The worker goes on; its item may have got a path.
LEMMA GoesOnItems ==
    ASSUME TypeInv, TypeInv', ObjectStep, JobsGrow, ItemsOK, ObjectsOK,
           task.phase # "idle", UNCHANGED <<queue, retry>>, task'.phase # "wait",
           NEW c \in Copies, task'.item = [task.item EXCEPT !.copy = c],
           c.uid = Copy.uid, c.ver = Copy.ver, PathOK(c)',
           Copy.state \in Finished => c.state \in Finished
    PROVE  ItemsOK' /\ ObjectsOK'
<1>1. task.item \in Items /\ Copy = task.item.copy /\ Copy \in Copies  BY WorkerItem
<1>i. PICK i \in Items : i = task.item  BY <1>1
<1>2. ItemOK(i)  BY <1>i DEF Held, ItemsOK
<1>3. ItemOK(i)'  BY <1>2, ItemKept
<1>4. ItemOK([i EXCEPT !.copy = c])'  BY <1>1, <1>i, <1>3, CopyChanged
<1>5. Held' \subseteq Held \cup {[i EXCEPT !.copy = c]}  BY <1>i DEF Held, Waiting
<1> QED  BY <1>4, <1>5, ItemsStep

\* A status is written from a copy that is not finished.
LEMMA StatusStep ==
    ASSUME Inv, task.phase # "idle", NEW c \in Copies, c.state \notin Finished,
           NotNewer(task.item.name, c), PathOK(c), NEW s \in States, NEW ok \in BOOLEAN,
           UpdateStatus(c, s, ok), UNCHANGED <<uids, job_vars>>
    PROVE  /\ ObjectStep /\ JobsGrow
           /\ \A b \in Backups : cr'[b] = cr[b] \/ (Current(c) /\ cr'[b] = Stored(c, s))
<1>1. task.item \in Items /\ task.item.name \in Backups  BY WorkerItem DEF Inv
<1>2. \/ UNCHANGED cr
      \/ Current(c) /\ cr' = [cr EXCEPT ![task.item.name] = Stored(c, s)]
  BY <1>1, UpdateStatusType DEF Inv
<1>3. /\ Stored(c, s) \in Copies /\ Stored(c, s).uid = c.uid
      /\ Stored(c, s).ver = c.ver + 1 /\ Stored(c, s).path = c.path
  BY MarkedType
<1>4. ASSUME Current(c) PROVE Written(task.item.name, Stored(c, s))
  BY <1>3, <1>4 DEF Current, Written, NotNewer, PathOK, Finished
<1>5. JobsGrow  BY DEF JobsGrow, Inv, TypeInv, TypeOK
<1>6. cr \in [Backups -> Copies \cup {NoCopy}]  BY DEF Inv, TypeInv, TypeOK
<1> QED  BY <1>1, <1>2, <1>3, <1>4, <1>5, <1>6 DEF ObjectStep

\* If no object becomes ready and the job goes on as it is, ready ones keep their dumps.
LEMMA ReadyKept ==
    ASSUME Inv, UNCHANGED job_vars,
           \A b \in Backups : cr'[b] = cr[b] \/ cr'[b].state # "ready"
    PROVE  ReadyJob' /\ ReadyMeansDumped'
BY DEF Inv, ReadyJob, ReadyMeansDumped

----------------------------------------------------------------------------
(* Every step keeps the invariant, and changes objects only as ObjectStep  *)
(* says.                                                                   *)

\* What the worker knows of its item.
LEMMA OwnItem ==
    ASSUME Inv, task.phase # "idle"
    PROVE  /\ ItemOK(task.item) /\ PathOK(Copy) /\ Copy.uid <= uids
           /\ task.item.action = "ADD" => NotNewer(task.item.name, Copy)
           /\ task.item.action = "DELETE" => \A b \in Backups : cr[b].uid # Copy.uid
<1>1. ItemOK(task.item)  BY DEF Inv, ItemsOK, Held
<1>2. Copy = task.item.copy  BY DEF Copy
<1> QED  BY <1>1, <1>2 DEF ItemOK

\* The handler returns or fails without having written anything.
LEMMA InvGivesUp ==
    ASSUME Inv, TypeInv', task.phase # "idle", Return \/ Fail(Copy),
           UNCHANGED <<obj_vars, queue, job_vars>>
    PROVE  Inv' /\ ObjectStep
<1>1. ObjectStep  BY DEF ObjectStep
<1>2. JobsGrow  BY DEF JobsGrow, Inv, TypeInv, TypeOK
<1>3. Copy \in Copies  BY WorkerItem DEF Inv
<1>4. ItemsOK' /\ ObjectsOK' /\ task'.phase = "idle"
  BY <1>1, <1>2, <1>3, ReturnItems, FailItems DEF Inv
<1>5. ReadyJob' /\ ReadyMeansDumped'  BY ReadyKept
<1> QED  BY <1>1, <1>4, <1>5 DEF Inv, OwnJob

\* The handler goes on to its next phase.
LEMMA InvGoesOn ==
    ASSUME Inv, TypeInv', task.phase # "idle", task'.phase \in {"gone", "create"},
           task'.item = task.item,
           UNCHANGED <<obj_vars, queue, retry, jobs, dump, owner>>,
           job' = job \/ (job # NoJob /\ job' # NoJob /\ job'.id = job.id /\ job'.st = job.st)
    PROVE  Inv' /\ ObjectStep
<1>1. ObjectStep  BY DEF ObjectStep
<1>2. JobsGrow  BY DEF JobsGrow, Inv, TypeInv, TypeOK
<1>3. Held' \subseteq Held  BY DEF Held, Waiting
<1>4. ItemsOK' /\ ObjectsOK'  BY <1>1, <1>2, <1>3, ItemsStep DEF Inv
<1>5. ReadyJob'  BY DEF Inv, ReadyJob
<1>6. ReadyMeansDumped'  BY DEF Inv, ReadyMeansDumped
<1> QED  BY <1>1, <1>4, <1>5, <1>6 DEF Inv, OwnJob

\* The path set by CreateJob, whether its job came to be or not.
LEMMA InvPathSet ==
    ASSUME Inv, TypeInv', task.phase = "create", UNCHANGED <<obj_vars, queue, retry, dump>>,
           JobsGrow, NEW j \in 0 .. MaxJobs, j # 0 => j <= jobs' /\ owner'[j] = Copy.uid,
           task'.phase \in {"failed", "run"},
           task'.item = [task.item EXCEPT !.copy = [Copy EXCEPT !.path = j]]
    PROVE  ItemsOK' /\ ObjectsOK' /\ ObjectStep /\ Copy'.path = j
<1>1. ObjectStep  BY DEF ObjectStep
<1>2. task.item \in Items /\ Copy \in Copies  BY WorkerItem DEF Inv
<1>3. PICK c \in Copies : c = [Copy EXCEPT !.path = j]  BY <1>2, PathType
<1>4. c.path = j /\ c.uid = Copy.uid /\ c.ver = Copy.ver /\ c.state = Copy.state
  BY <1>2, <1>3, PathType
<1>5. PathOK(c)'  BY <1>4 DEF PathOK
<1>6. task'.item = [task.item EXCEPT !.copy = c]  BY <1>3
<1>7. ItemsOK' /\ ObjectsOK'  BY <1>1, <1>4, <1>5, <1>6, GoesOnItems DEF Inv
<1>8. task'.item.copy = c  BY <1>2, <1>6, ItemType
<1> QED  BY <1>1, <1>4, <1>7, <1>8 DEF Copy

\* The steps of handler() that write no status.
LEMMA InvHandler ==
    ASSUME Inv, TypeInv',
           \/ IgnoreFinished \/ ApiError \/ DeletePrevJob \/ NoPrevJob \/ PrevJobGone
           \/ CreateJob \/ CreateJobFails \/ WaitFails \/ RemoveFiles \/ RemoveFails
    PROVE  Inv' /\ ObjectStep
<1>t. TypeInv  BY DEF Inv
<1>1. CASE IgnoreFinished \/ ApiError \/ WaitFails \/ RemoveFails
  BY <1>1, InvGivesUp DEF IgnoreFinished, ApiError, WaitFails, RemoveFails, InHandler
<1>2. CASE DeletePrevJob
  <2>1. /\ task.phase = "handler" /\ task.item.action = "ADD" /\ Copy.state \notin Finished
        /\ job.st \in {"backoff", "succeeded", "failed"} /\ job' = [job EXCEPT !.deleting = TRUE]
        /\ task' = [task EXCEPT !.phase = "gone"]
        /\ UNCHANGED <<obj_vars, queue, retry, jobs, dump, owner>>
    BY <1>2 DEF DeletePrevJob, InHandler
  <2>2. task'.phase = "gone" /\ task'.item = task.item
    BY <1>t, <2>1, WorkerItem, NextPhaseType
  <2>3. job \in Jobs  BY <1>t, <2>1 DEF NoJob, TypeInv, TypeOK
  <2>4. job' # NoJob /\ job # NoJob /\ job'.id = job.id /\ job'.st = job.st
    BY <2>1, <2>3, BoundAssumption DEF Jobs, NoJob
  <2> QED  BY <2>1, <2>2, <2>4, InvGoesOn
<1>3. CASE NoPrevJob
  <2>1. /\ task.phase = "handler" /\ task.item.action = "ADD" /\ Copy.state \notin Finished
        /\ task' = [task EXCEPT !.phase = "create"]
        /\ UNCHANGED <<obj_vars, queue, retry, job_vars>>
    BY <1>3 DEF NoPrevJob, InHandler
  <2>2. task'.phase = "create" /\ task'.item = task.item
    BY <1>t, <2>1, WorkerItem, NextPhaseType
  <2> QED  BY <2>1, <2>2, InvGoesOn
<1>4. CASE PrevJobGone
  <2>1. /\ task.phase = "gone" /\ task' = [task EXCEPT !.phase = "create"]
        /\ UNCHANGED <<obj_vars, queue, retry, job_vars>>
    BY <1>4 DEF PrevJobGone
  <2>2. task'.phase = "create" /\ task'.item = task.item
    BY <1>t, <2>1, WorkerItem, NextPhaseType
  <2> QED  BY <2>1, <2>2, InvGoesOn
<1>p. ASSUME task.phase = "create", NEW j \in 0 .. MaxJobs, NEW p \in {"failed", "run"},
             task' = [task EXCEPT !.phase = p, !.item.copy.path = j]
      PROVE  /\ task'.phase = p
             /\ task'.item = [task.item EXCEPT !.copy = [Copy EXCEPT !.path = j]]
  <2> DEFINE c == [Copy EXCEPT !.path = j]
  <2>1. task' = [task EXCEPT !.phase = p, !.item.copy = c]  BY <1>p DEF Copy
  <2>2. /\ task.item \in Items /\ task.item.action = "ADD"
        /\ c \in Copies /\ c.state \notin Finished
    BY <1>t, <1>p, WorkerItem, PathType
  <2> HIDE DEF c
  <2>3. task'.phase = p /\ task'.item = [task.item EXCEPT !.copy = c]
    BY <1>t, <2>1, <2>2, GoesOnType
  <2> QED  BY <2>3 DEF c
<1>n. ASSUME task.phase = "create", jobs < MaxJobs, NewJob, UNCHANGED <<cr, dump>>
      PROVE  /\ ReadyJob' /\ ReadyMeansDumped' /\ JobsGrow
             /\ jobs + 1 \in 0 .. MaxJobs /\ jobs + 1 <= jobs' /\ owner'[jobs + 1] = Copy.uid
             /\ job' # NoJob /\ job'.id = jobs + 1 /\ ~job'.deleting /\ job'.st = "new"
  <2>1. /\ jobs' = jobs + 1 /\ jobs' \in 1 .. MaxJobs
        /\ job' # NoJob /\ job'.id = jobs' /\ ~job'.deleting /\ job'.st = "new"
        /\ owner'[jobs'] = Copy.uid /\ \A j \in 1 .. jobs : owner'[j] = owner[j]
    BY <1>t, <1>n, NewJobType
  <2>2. jobs \in Nat /\ jobs' \in Nat  BY <1>t, <2>1 DEF TypeInv, TypeOK
  <2>3. \A b \in Backups : cr[b].state = "ready" => cr[b].path \in 1 .. jobs
    <3>1. Numbers  BY <1>t DEF TypeInv, TypeOK, Numbers
    <3>2. \A b \in Backups : cr[b].path \in 0 .. MaxJobs  BY <3>1, CopyType, BoundAssumption DEF Numbers
    <3> QED  BY <2>2, <3>2, BoundAssumption DEF Inv, ReadyMeansDumped, ObjectsOK, PathOK
  <2>4. ReadyJob'  BY <1>n, <2>1, <2>2, <2>3 DEF ReadyJob
  <2>5. ReadyMeansDumped'  BY <1>n, <2>1, <2>3 DEF Inv, ReadyMeansDumped
  <2>6. JobsGrow  BY <2>1, <2>2 DEF JobsGrow
  <2> QED  BY <2>1, <2>2, <2>4, <2>5, <2>6
<1>5. CASE CreateJob
  <2>1. /\ task.phase = "create" /\ jobs < MaxJobs /\ NewJob
        /\ task' = [task EXCEPT !.phase = "run", !.item.copy.path = jobs + 1]
        /\ UNCHANGED <<obj_vars, queue, retry, dump>>
    BY <1>5 DEF CreateJob
  <2>2. /\ ReadyJob' /\ ReadyMeansDumped' /\ JobsGrow
        /\ jobs + 1 \in 0 .. MaxJobs /\ jobs + 1 <= jobs' /\ owner'[jobs + 1] = Copy.uid
        /\ job' # NoJob /\ job'.id = jobs + 1 /\ ~job'.deleting /\ job'.st = "new"
    BY <1>n, <2>1
  <2>3. /\ task'.phase = "run"
        /\ task'.item = [task.item EXCEPT !.copy = [Copy EXCEPT !.path = jobs + 1]]
    BY <1>p, <2>1, <2>2
  <2>4. ItemsOK' /\ ObjectsOK' /\ ObjectStep /\ Copy'.path = jobs + 1
    BY <2>1, <2>2, <2>3, InvPathSet
  <2>5. OwnJob'  BY <2>2, <2>4 DEF OwnJob
  <2> QED  BY <2>2, <2>4, <2>5 DEF Inv
<1>6. CASE CreateJobFails
  <2>0. task.phase = "create" /\ UNCHANGED <<obj_vars, queue, retry, dump>>
    BY <1>6 DEF CreateJobFails
  <2>1. ASSUME NEW j \in 0 .. MaxJobs, j # 0 => j <= jobs' /\ owner'[j] = Copy.uid, JobsGrow,
               task' = [task EXCEPT !.phase = "failed", !.item.copy.path = j],
               ReadyJob', ReadyMeansDumped'
        PROVE  Inv' /\ ObjectStep
    <3>1. /\ task'.phase = "failed"
          /\ task'.item = [task.item EXCEPT !.copy = [Copy EXCEPT !.path = j]]
      BY <1>p, <2>0, <2>1
    <3>2. ItemsOK' /\ ObjectsOK' /\ ObjectStep
      BY <2>0, <2>1, <3>1, InvPathSet
    <3>3. OwnJob'  BY <3>1 DEF OwnJob
    <3> QED  BY <2>1, <3>2, <3>3 DEF Inv
  <2>2. ASSUME UNCHANGED <<job, jobs, owner>>,
               task' = [task EXCEPT !.phase = "failed", !.item.copy.path = 0]
        PROVE  Inv' /\ ObjectStep
    <3>1. 0 \in 0 .. MaxJobs  BY BoundAssumption
    <3>2. JobsGrow  BY <1>t, <2>2 DEF JobsGrow, TypeInv, TypeOK
    <3>3. ReadyJob' /\ ReadyMeansDumped'  BY <2>0, <2>2, ReadyKept
    <3> QED  BY <2>1, <2>2, <3>1, <3>2, <3>3
  <2>3. ASSUME jobs < MaxJobs, NewJob,
               task' = [task EXCEPT !.phase = "failed", !.item.copy.path = jobs + 1]
        PROVE  Inv' /\ ObjectStep
    <3>1. /\ ReadyJob' /\ ReadyMeansDumped' /\ JobsGrow
          /\ jobs + 1 \in 0 .. MaxJobs /\ jobs + 1 <= jobs' /\ owner'[jobs + 1] = Copy.uid
      BY <1>n, <2>0, <2>3
    <3>2. PICK j \in 0 .. MaxJobs : j = jobs + 1  BY <3>1
    <3> QED  BY <2>1, <2>3, <3>1, <3>2
  <2> QED  BY <1>6, <2>2, <2>3 DEF CreateJobFails
<1>7. CASE RemoveFiles
  <2>1. /\ task.phase = "handler" /\ task.item.action = "DELETE" /\ Return
        /\ dump' = IF Copy.path = 0 THEN dump ELSE [dump EXCEPT ![Copy.path] = "none"]
        /\ UNCHANGED <<obj_vars, queue, job, jobs, owner>>
    BY <1>7 DEF RemoveFiles, InHandler
  <2>2. ObjectStep /\ JobsGrow  BY <1>t, <2>1 DEF ObjectStep, JobsGrow, TypeInv, TypeOK
  <2>3. ItemsOK' /\ ObjectsOK' /\ task'.phase = "idle"
    BY <2>1, <2>2, ReturnItems DEF Inv
  <2>4. ReadyJob'  BY <2>1 DEF Inv, ReadyJob
  <2>5. PathOK(Copy) /\ \A b \in Backups : cr[b].uid # Copy.uid  BY <2>1, OwnItem
  <2>6. ASSUME NEW b \in Backups, cr[b].state = "ready"
        PROVE  /\ cr[b].path # 0 /\ dump'[cr[b].path] = "complete"
               /\ owner[cr[b].path] = cr[b].uid
    <3>1. /\ cr[b].path # 0 /\ dump[cr[b].path] = "complete" /\ owner[cr[b].path] = cr[b].uid
      BY <2>6 DEF Inv, ReadyMeansDumped
    <3>2. Copy.path # 0 => Copy.path # cr[b].path  BY <2>5, <3>1 DEF PathOK
    <3>3. dump \in [1 .. MaxJobs -> {"none", "partial", "complete"}]
      BY <1>t DEF TypeInv, TypeOK
    <3>4. dump'[cr[b].path] = dump[cr[b].path]  BY <2>1, <3>2, <3>3
    <3> QED  BY <3>1, <3>4
  <2>7. ReadyMeansDumped'  BY <2>1, <2>6 DEF ReadyMeansDumped
  <2> QED  BY <2>2, <2>3, <2>4, <2>7 DEF Inv, OwnJob
<1> QED  BY <1>1, <1>2, <1>3, <1>4, <1>5, <1>6, <1>7

\* The steps of handler() that write one.
LEMMA InvStatus ==
    ASSUME Inv, TypeInv',
           RefuseUnnamed \/ RejectDuplicate \/ MarkFailed \/ MarkRunning \/ JobCompleted
    PROVE  Inv' /\ ObjectStep
<1>t. TypeInv  BY DEF Inv
<1>w. task.phase # "idle" /\ UNCHANGED <<uids, queue, job_vars>>
  BY DEF RefuseUnnamed, RejectDuplicate, MarkFailed, MarkRunning, JobCompleted, InHandler
<1>c. task.item \in Items /\ Copy \in Copies /\ PathOK(Copy) /\ Copy.uid <= uids
      /\ (task.item.action = "ADD" => NotNewer(task.item.name, Copy))
  BY <1>t, <1>w, WorkerItem, OwnItem
<1>1. ASSUME NEW s \in {"error", "rejected", "running"}, NEW ok \in BOOLEAN,
             task.item.action = "ADD", Copy.state \notin Finished, UpdateStatus(Copy, s, ok)
      PROVE  ObjectStep /\ JobsGrow /\ ReadyJob' /\ ReadyMeansDumped'
  <2>1. s \in States  BY DEF States
  <2>2. /\ ObjectStep /\ JobsGrow
        /\ \A b \in Backups : cr'[b] = cr[b] \/ (Current(Copy) /\ cr'[b] = Stored(Copy, s))
    BY <1>w, <1>c, <1>1, <2>1, StatusStep
  <2>3. Stored(Copy, s).state = s  BY <1>c, <2>1, MarkedType
  <2>4. \A b \in Backups : cr'[b] = cr[b] \/ cr'[b].state # "ready"  BY <2>2, <2>3
  <2>5. ReadyJob' /\ ReadyMeansDumped'  BY <1>w, <2>4, ReadyKept
  <2> QED  BY <2>2, <2>5
<1>2. ASSUME NEW s \in {"error", "rejected", "running"}, Fail(Marked(Copy, s)),
             Copy.state \notin Finished, ObjectStep, JobsGrow, ReadyJob', ReadyMeansDumped'
      PROVE  Inv'
  <2>1. s \in States  BY DEF States
  <2>2. /\ Marked(Copy, s) \in Copies /\ Marked(Copy, s).uid = Copy.uid
        /\ Marked(Copy, s).ver = Copy.ver /\ Marked(Copy, s).path = Copy.path
    BY <1>c, <2>1, MarkedType
  <2>3. ItemsOK' /\ ObjectsOK' /\ task'.phase = "idle"
    BY <1>2, <1>w, <2>2, FailItems DEF Inv
  <2> QED  BY <1>2, <2>3 DEF Inv, OwnJob
<1>3. ASSUME Return, ObjectStep, JobsGrow, ReadyJob', ReadyMeansDumped'
      PROVE  Inv'
  <2>1. ItemsOK' /\ ObjectsOK' /\ task'.phase = "idle"
    BY <1>3, <1>w, ReturnItems DEF Inv
  <2> QED  BY <1>3, <2>1 DEF Inv, OwnJob
<1>4. CASE RefuseUnnamed
  <2>1. /\ task.item.action = "ADD" /\ Copy.state \notin Finished
        /\ \E ok \in BOOLEAN : UpdateStatus(Copy, "error", ok)
        /\ Fail(Marked(Copy, "error"))
    BY <1>4 DEF RefuseUnnamed, InHandler
  <2>2. ObjectStep /\ JobsGrow /\ ReadyJob' /\ ReadyMeansDumped'  BY <1>1, <2>1
  <2> QED  BY <1>2, <2>1, <2>2
<1>5. CASE RejectDuplicate
  <2>1. /\ task.item.action = "ADD" /\ Copy.state \notin Finished
        /\ \E ok \in BOOLEAN : UpdateStatus(Copy, "rejected", ok)
        /\ Return \/ Fail(Marked(Copy, "rejected"))
    BY <1>5 DEF RejectDuplicate, InHandler
  <2>2. ObjectStep /\ JobsGrow /\ ReadyJob' /\ ReadyMeansDumped'  BY <1>1, <2>1
  <2> QED  BY <1>2, <1>3, <2>1, <2>2
<1>6. CASE MarkFailed
  <2>1. /\ \E ok \in BOOLEAN : UpdateStatus(Copy, "error", ok)
        /\ Fail(Marked(Copy, "error")) /\ task.phase = "failed"
    BY <1>6 DEF MarkFailed
  <2>2. task.item.action = "ADD" /\ Copy.state \notin Finished  BY <1>t, <2>1, WorkerItem
  <2>3. ObjectStep /\ JobsGrow /\ ReadyJob' /\ ReadyMeansDumped'  BY <1>1, <2>1, <2>2
  <2> QED  BY <1>2, <2>1, <2>2, <2>3
<1>7. CASE MarkRunning
  <2>1. task.phase = "run"  BY <1>7 DEF MarkRunning
  <2>2. task.item.action = "ADD" /\ Copy.state \notin Finished  BY <1>t, <2>1, WorkerItem
  <2>3. PICK ok \in BOOLEAN :
          /\ UpdateStatus(Copy, "running", ok)
          /\ IF ok THEN /\ task' = [task EXCEPT !.phase = "wait",
                                              !.item.copy = Marked(Copy, "running"),
                                              !.local = Stored(Copy, "running")]
                        /\ UNCHANGED retry
                   ELSE Fail(Marked(Copy, "running"))
    BY <1>7 DEF MarkRunning
  <2>4. ObjectStep /\ JobsGrow /\ ReadyJob' /\ ReadyMeansDumped'  BY <1>1, <2>2, <2>3
  <2>5. CASE ~ok
    BY <1>2, <2>2, <2>3, <2>4, <2>5
  <2>6. CASE ok
    <3>0. "running" \in States  BY DEF States
    <3>1. PICK m \in Copies : m = Marked(Copy, "running")  BY <1>c, <3>0, MarkedType
    <3>2. PICK n \in Copies : n = Stored(Copy, "running")  BY <1>c, <3>0, MarkedType
    <3>3. /\ m.uid = Copy.uid /\ m.ver = Copy.ver /\ m.path = Copy.path
          /\ n.state = "running"
      BY <1>c, <3>0, <3>1, <3>2, MarkedType
    <3>4. PICK i \in Items : i = task.item  BY <1>c
    <3>5. task' = [task EXCEPT !.phase = "wait", !.item.copy = m, !.local = n] /\ UNCHANGED retry
      BY <2>3, <2>6, <3>1, <3>2
    <3>6. task'.phase = "wait" /\ task'.item = [i EXCEPT !.copy = m] /\ task'.local = n
      BY <1>t, <3>4, <3>5 DEF TypeInv, TypeOK, Tasks
    <3>7. i.name \in Backups /\ i.copy = Copy /\ [i EXCEPT !.copy = m].copy = m
          /\ [i EXCEPT !.copy = m].name = i.name
      BY <3>4, ItemType DEF Copy
    <3>8. cr'[i.name] = n
      <4>1. cr' = [cr EXCEPT ![i.name] = n]  BY <2>3, <2>6, <3>2, <3>4 DEF UpdateStatus
      <4> QED  BY <1>t, <3>7, <4>1 DEF TypeInv, TypeOK
    <3>9. ItemOK(i)'  BY <1>t, <1>w, <2>4, <3>4, OwnItem, ItemKept
    <3>10. PathOK(m)'  BY <3>3, <3>7, <3>9 DEF ItemOK, PathOK
    <3>11. ItemOK([i EXCEPT !.copy = m])'
      BY <2>2, <3>3, <3>7, <3>9, <3>10, CopyChanged
    <3>12. Held' \subseteq Held \cup {[i EXCEPT !.copy = m]}
      BY <1>w, <3>5, <3>6 DEF Held, Waiting
    <3>13. NotNewer(i.name, n)'
      <4>1. n.ver \in Nat  BY CopyType
      <4> QED  BY <3>3, <3>8, <4>1 DEF NotNewer, Finished
    <3>14. NotNewer(task.item.name, task.local)'
      BY <3>6, <3>7, <3>13 DEF NotNewer
    <3>15. ItemsOK' /\ ObjectsOK'
      BY <1>t, <2>4, <3>11, <3>12, <3>14, ItemsStep DEF Inv
    <3>16. OwnJob'
      <4>1. Copy'.path = Copy.path  BY <3>3, <3>6, <3>7 DEF Copy
      <4> QED  BY <1>w, <2>1, <3>6, <4>1 DEF Inv, OwnJob
    <3> QED  BY <2>4, <3>15, <3>16 DEF Inv
  <2> QED  BY <2>4, <2>5, <2>6
<1>8. CASE JobCompleted
  <2>1. /\ task.phase = "wait" /\ Outcome(job.st) \in {"ready", "error"}
        /\ Outcome(job.st) = "ready" => job.st = "succeeded"
    BY <1>8 DEF JobCompleted, Outcome
  <2>2. PICK s \in {"ready", "error"} : s = Outcome(job.st)  BY <2>1
  <2>3. PICK ok \in BOOLEAN : /\ UpdateStatus(task.local, s, ok)
                              /\ IF ok THEN Return ELSE Fail(Copy)
    BY <1>8, <2>2 DEF JobCompleted
  <2>4. /\ task.item.action = "ADD" /\ task.local \in Copies /\ task.local.uid = Copy.uid
        /\ task.local.path = Copy.path /\ task.local.state = "running"
    BY <1>t, <2>1, WorkerItem DEF TypeInv, TaskShape
  <2>5. NotNewer(task.item.name, task.local)  BY <2>1 DEF Inv, ItemsOK
  <2>6. PathOK(task.local) /\ task.local.state \notin Finished
    BY <1>c, <2>4 DEF PathOK, Finished
  <2>7. s \in States  BY DEF States
  <2>8. /\ ObjectStep /\ JobsGrow
        /\ \A b \in Backups : cr'[b] = cr[b] \/ cr'[b] = Stored(task.local, s)
    BY <1>w, <2>3, <2>4, <2>5, <2>6, <2>7, StatusStep
  <2>9. Stored(task.local, s).state = s /\ Stored(task.local, s).path = Copy.path
        /\ Stored(task.local, s).uid = Copy.uid
    BY <2>4, <2>7, MarkedType
  <2>10. /\ job # NoJob /\ job.id = Copy.path
         /\ job.st = "succeeded" => dump[Copy.path] = "complete"
    BY <2>1 DEF Inv, OwnJob
  <2>11. Copy.path # 0 /\ owner[Copy.path] = Copy.uid
    <3>1. job \in Jobs  BY <1>t, <2>10 DEF TypeInv, TypeOK
    <3>2. job.id # 0  BY <3>1 DEF Jobs
    <3> QED  BY <1>c, <2>10, <3>2 DEF PathOK
  <2>12. ASSUME NEW b \in Backups, cr'[b].state = "ready"
         PROVE  /\ cr'[b].path # 0 /\ dump'[cr'[b].path] = "complete"
                /\ owner'[cr'[b].path] = cr'[b].uid
                /\ job' # NoJob /\ job'.id = cr'[b].path => job'.st = "succeeded"
    <3>1. CASE cr'[b] = cr[b]
      BY <1>w, <2>12, <3>1 DEF Inv, ReadyMeansDumped, ReadyJob
    <3>2. CASE cr'[b] = Stored(task.local, s)
      BY <1>w, <2>1, <2>2, <2>9, <2>10, <2>11, <2>12, <3>2
    <3> QED  BY <2>8, <3>1, <3>2
  <2>13. ReadyMeansDumped'  BY <2>12 DEF ReadyMeansDumped
  <2>14. ReadyJob'  BY <1>w, <2>12 DEF Inv, ReadyJob
  <2>15. CASE Return  BY <1>3, <2>8, <2>13, <2>14, <2>15
  <2>16. CASE Fail(Copy)
    <3>1. ItemsOK' /\ ObjectsOK' /\ task'.phase = "idle"
      BY <1>w, <1>c, <2>8, <2>16, FailItems DEF Inv
    <3> QED  BY <2>8, <2>13, <2>14, <3>1 DEF Inv, OwnJob
  <2> QED  BY <2>3, <2>8, <2>15, <2>16
<1> QED  BY <1>4, <1>5, <1>6, <1>7, <1>8

\* The rest: objects, queue, job and restarts.
LEMMA InvOthers ==
    ASSUME Inv, TypeInv',
           \/ \E b \in Backups : CreateBackup(b) \/ DeleteBackup(b)
           \/ Get \/ Requeue \/ JobStarts \/ JobEnds \/ JobRemoved \/ JobExpires \/ Restart
    PROVE  Inv' /\ ObjectStep
<1>t. TypeInv  BY DEF Inv
<1>g. ASSUME UNCHANGED <<jobs, owner>> PROVE JobsGrow
  BY <1>t, <1>g DEF JobsGrow, TypeInv, TypeOK
<1>o. UNCHANGED <<cr, uids>> => ObjectStep  BY DEF ObjectStep
<1>q. ASSUME NEW i, queue' = Append(queue, i), UNCHANGED <<retry, task>>
      PROVE  Held' \subseteq Held \cup {i}
  <2>1. queue \in Seq(Items)  BY <1>t DEF TypeInv, TypeOK
  <2>2. \A k \in DOMAIN queue' : queue'[k] = i \/ \E l \in DOMAIN queue : queue'[k] = queue[l]
    BY <1>q, <2>1
  <2> QED  BY <1>q, <2>2 DEF Held, Waiting
<1>j. ASSUME UNCHANGED <<obj_vars, queue, retry, task, jobs, owner>>
      PROVE  ItemsOK' /\ ObjectsOK' /\ ObjectStep
  <2>1. Held' = Held  BY <1>j DEF Held, Waiting
  <2> QED  BY <1>t, <1>j, <1>g, <1>o, <2>1, ItemsStep DEF Inv
<1>1. ASSUME NEW b \in Backups, CreateBackup(b) PROVE Inv' /\ ObjectStep
  <2>1. PICK named \in BOOLEAN :
          LET c == [uid |-> uids + 1, ver |-> 0, state |-> "", path |-> 0, named |-> named] IN
          cr' = [cr EXCEPT ![b] = c] /\ Enqueue("ADD", b, c)
    BY <1>1 DEF CreateBackup
  <2>2. PICK c : c = [uid |-> uids + 1, ver |-> 0, state |-> "", path |-> 0, named |-> named]
    OBVIOUS
  <2>3. /\ c.uid = uids + 1 /\ c.ver = 0 /\ c.path = 0 /\ c.state \notin Finished
    BY <2>2 DEF Finished
  <2>4. /\ cr' = [cr EXCEPT ![b] = c]
        /\ queue' = Append(queue, [action |-> "ADD", name |-> b, copy |-> c])
    BY <2>1, <2>2 DEF Enqueue
  <2>5. uids' = uids + 1 /\ UNCHANGED <<retry, task, job_vars>>  BY <1>1 DEF CreateBackup
  <2>6. Numbers /\ Numbers'  BY <1>t, NumbersBoth
  <2>7. cr'[b] = c  BY <2>4, <2>6 DEF Numbers
  <2>8. c \in Copies
    BY <2>3, <2>6, <2>7, CopyType DEF Numbers
  <2>9. ObjectStep /\ JobsGrow  BY <1>g, <2>3, <2>4, <2>5, <2>8 DEF ObjectStep, Created
  <2>10. PICK i : i = [action |-> "ADD", name |-> b, copy |-> c]  OBVIOUS
  <2>11. i.action = "ADD" /\ i.name = b /\ i.copy = c  BY <2>10
  <2>12. ItemOK(i)'
    <3>1. c.uid <= uids' /\ uids' \in Nat  BY <2>3, <2>5, <2>6 DEF Numbers
    <3>2. PathOK(c)'  BY <2>3 DEF PathOK
    <3>3. NotNewer(b, c)'  BY <2>3, <2>7 DEF NotNewer
    <3> QED  BY <2>11, <3>1, <3>2, <3>3 DEF ItemOK
  <2>13. Held' \subseteq Held \cup {i}  BY <1>q, <2>4, <2>5, <2>10
  <2>14. ItemsOK' /\ ObjectsOK'
    BY <1>t, <2>5, <2>9, <2>12, <2>13, ItemsStep DEF Inv
  <2>15. \A a \in Backups : cr'[a] = cr[a] \/ cr'[a].state # "ready"
    BY <2>3, <2>4, <2>6 DEF Numbers, Finished
  <2>16. ReadyJob' /\ ReadyMeansDumped'  BY <2>5, <2>15, ReadyKept
  <2>17. OwnJob'  BY <2>5 DEF Inv, OwnJob, Copy
  <2> QED  BY <2>9, <2>14, <2>16, <2>17 DEF Inv
<1>2. ASSUME NEW b \in Backups, DeleteBackup(b) PROVE Inv' /\ ObjectStep
  <2>1. /\ cr[b] # NoCopy /\ cr' = [cr EXCEPT ![b] = NoCopy]
        /\ queue' = Append(queue, [action |-> "DELETE", name |-> b, copy |-> cr[b]])
        /\ UNCHANGED <<uids, retry, task, job_vars>>
    BY <1>2 DEF DeleteBackup, Enqueue
  <2>2. Numbers /\ Numbers'  BY <1>t, NumbersBoth
  <2>3. PICK c \in Copies : c = cr[b]  BY <2>1, <2>2 DEF Numbers
  <2>4. PICK i : i = [action |-> "DELETE", name |-> b, copy |-> c]  OBVIOUS
  <2>5. i.action = "DELETE" /\ i.name = b /\ i.copy = c  BY <2>4
  <2>6. ObjectStep /\ JobsGrow  BY <1>g, <2>1 DEF ObjectStep
  <2>7. ItemOK(i)'
    <3>1. c.uid <= uids'  BY <2>1, <2>3 DEF Inv, ObjectsOK
    <3>2. PathOK(c)'  BY <2>1, <2>3 DEF Inv, ObjectsOK, PathOK
    <3>3. c.uid # 0  BY CopyType
    <3>4. ASSUME NEW a \in Backups PROVE cr'[a].uid # c.uid
      <4>1. CASE a = b  BY <2>1, <2>2, <3>3, <4>1, CopyType DEF Numbers
      <4>2. CASE a # b
        <5>1. cr'[a] = cr[a]  BY <2>1, <2>2, <4>2 DEF Numbers
        <5> QED  BY <2>3, <3>3, <4>2, <5>1 DEF Inv, ObjectsOK
      <4> QED  BY <4>1, <4>2
    <3> QED  BY <2>5, <3>1, <3>2, <3>4 DEF ItemOK
  <2>8. Held' \subseteq Held \cup {i}  BY <1>q, <2>1, <2>3, <2>4
  <2>9. ItemsOK' /\ ObjectsOK'
    BY <1>t, <2>1, <2>6, <2>7, <2>8, ItemsStep DEF Inv
  <2>10. NoCopy.state # "ready"  BY CopyType DEF Finished
  <2>11. \A a \in Backups : cr'[a] = cr[a] \/ cr'[a].state # "ready"
    BY <2>1, <2>2, <2>10 DEF Numbers
  <2>12. ReadyJob' /\ ReadyMeansDumped'  BY <2>1, <2>11, ReadyKept
  <2>13. OwnJob'  BY <2>1 DEF Inv, OwnJob, Copy
  <2> QED  BY <2>6, <2>9, <2>12, <2>13 DEF Inv
<1>3. CASE Get
  <2>1. /\ task' = [Idle EXCEPT !.phase = "handler", !.item = Head(queue)]
        /\ queue # <<>> /\ queue' = Tail(queue) /\ task.phase = "idle"
        /\ UNCHANGED <<obj_vars, retry, job_vars>>
    BY <1>3 DEF Get
  <2>2. queue \in Seq(Items)  BY <1>t DEF TypeInv, TypeOK
  <2>3. task'.phase = "handler" /\ task'.item = queue[1] /\ 1 \in DOMAIN queue
    BY <2>1, <2>2 DEF Idle
  <2>4. \A k \in DOMAIN queue' : \E l \in DOMAIN queue : queue'[k] = queue[l]
    BY <2>1, <2>2
  <2>5. Held' \subseteq Held  BY <2>1, <2>3, <2>4 DEF Held, Waiting
  <2>6. ItemsOK' /\ ObjectsOK' /\ ObjectStep
    BY <1>t, <1>g, <1>o, <2>1, <2>3, <2>5, ItemsStep DEF Inv
  <2>7. ReadyJob' /\ ReadyMeansDumped'  BY <2>1, ReadyKept
  <2> QED  BY <2>3, <2>6, <2>7 DEF Inv, OwnJob
<1>4. CASE Requeue
  <2>1. PICK i \in retry : queue' = Append(queue, i) /\ retry' = retry \ {i}
    BY <1>4 DEF Requeue
  <2>2. UNCHANGED <<obj_vars, task, job_vars>>  BY <1>4 DEF Requeue
  <2>3. queue \in Seq(Items)  BY <1>t DEF TypeInv, TypeOK
  <2>4. \A k \in DOMAIN queue' : queue'[k] = i \/ \E l \in DOMAIN queue : queue'[k] = queue[l]
    BY <2>1, <2>3
  <2>5. Held' \subseteq Held  BY <2>1, <2>2, <2>4 DEF Held, Waiting
  <2>6. ItemsOK' /\ ObjectsOK' /\ ObjectStep
    BY <1>t, <1>g, <1>o, <2>2, <2>5, ItemsStep DEF Inv
  <2>7. ReadyJob' /\ ReadyMeansDumped'  BY <2>2, ReadyKept
  <2>8. OwnJob'  BY <2>2 DEF Inv, OwnJob, Copy
  <2> QED  BY <2>6, <2>7, <2>8 DEF Inv
<1>5. CASE JobStarts \/ JobEnds
  <2>1. /\ UNCHANGED <<obj_vars, queue, retry, task, jobs, owner>>
        /\ job.st \in {"new", "backoff", "active"} /\ ~job.deleting
        /\ \E st \in {"active", "succeeded", "failed", "backoff"} :
              /\ job' = [job EXCEPT !.st = st]
              /\ \/ dump' = dump /\ st # "succeeded"
                 \/ dump' = [dump EXCEPT ![job.id] = "partial"] /\ st = "active"
                 \/ dump' = [dump EXCEPT ![job.id] = "complete"] /\ st = "succeeded"
    BY <1>5 DEF JobStarts, JobEnds, JobStep
  <2>2. job \in Jobs  BY <1>t, <2>1 DEF NoJob, TypeInv, TypeOK
  <2>3. /\ job # NoJob /\ job' # NoJob /\ job'.id = job.id /\ ~job'.deleting
        /\ job.id \in 1 .. MaxJobs
    BY <2>1, <2>2, BoundAssumption DEF Jobs, NoJob
  <2>4. dump \in [1 .. MaxJobs -> {"none", "partial", "complete"}]
    BY <1>t DEF TypeInv, TypeOK
  <2>5. /\ \A j \in 1 .. MaxJobs : j # job.id => dump'[j] = dump[j]
        /\ job'.st = "succeeded" => dump'[job.id] = "complete"
    BY <2>1, <2>2, <2>3, <2>4 DEF Jobs
  <2>p. \A b \in Backups : cr[b].path # 0 => cr[b].path \in 1 .. MaxJobs
    <3>1. Numbers  BY <1>t, NumbersBoth
    <3> QED  BY <3>1, CopyType, BoundAssumption DEF Numbers
  <2>6. \A b \in Backups : cr[b].state = "ready" => cr[b].path # job.id
    BY <2>1, <2>3 DEF Inv, ReadyJob
  <2>7. ReadyMeansDumped'  BY <2>1, <2>5, <2>6, <2>p DEF Inv, ReadyMeansDumped
  <2>8. ReadyJob'  BY <2>1, <2>3, <2>6 DEF Inv, ReadyJob
  <2>9. OwnJob'  BY <2>1, <2>3, <2>5 DEF Inv, OwnJob, Copy
  <2> QED  BY <1>j, <2>1, <2>7, <2>8, <2>9 DEF Inv
<1>6. CASE JobRemoved
  <2>1. job.deleting /\ job' = NoJob /\ UNCHANGED <<obj_vars, queue, retry, task, jobs, dump, owner>>
    BY <1>6 DEF JobRemoved
  <2>2. task.phase \notin {"run", "wait"}  BY <2>1 DEF Inv, OwnJob
  <2>3. ReadyMeansDumped' /\ ReadyJob'  BY <2>1 DEF Inv, ReadyMeansDumped, ReadyJob
  <2> QED  BY <1>j, <2>1, <2>2, <2>3 DEF Inv, OwnJob
<1>7. CASE JobExpires
  <2>1. /\ job.st \in {"succeeded", "failed"} /\ task.phase \notin {"run", "wait"}
        /\ job' = [job EXCEPT !.deleting = TRUE]
        /\ UNCHANGED <<obj_vars, queue, retry, task, jobs, dump, owner>>
    BY <1>7 DEF JobExpires
  <2>2. job \in Jobs  BY <1>t, <2>1 DEF NoJob, TypeInv, TypeOK
  <2>3. job # NoJob /\ job' # NoJob /\ job'.id = job.id /\ job'.st = job.st
    BY <2>1, <2>2, BoundAssumption DEF Jobs, NoJob
  <2>4. ReadyMeansDumped' /\ ReadyJob'
    BY <2>1, <2>3 DEF Inv, ReadyMeansDumped, ReadyJob
  <2> QED  BY <1>j, <2>1, <2>4 DEF Inv, OwnJob
<1>8. CASE Restart
  <2>1. task' = Idle /\ retry' = {} /\ UNCHANGED <<obj_vars, job_vars>>
    BY <1>8 DEF Restart
  <2>2. task'.phase = "idle"  BY <2>1, IdleType
  <2>3. ASSUME NEW i \in Held' PROVE ItemOK(i)'
    <3>1. PICK b \in Backups :
            cr[b] # NoCopy /\ i = [action |-> "ADD", name |-> b, copy |-> cr[b]]
      BY <1>t, <1>8, <2>1, <2>2, <2>3, RestartType DEF Held, Waiting
    <3>2. i.action = "ADD" /\ i.name = b /\ i.copy = cr[b]  BY <3>1
    <3>3. cr[b].ver \in Nat
      <4>1. cr[b] \in Copies  BY <1>t, <3>1 DEF TypeInv, TypeOK
      <4> QED  BY <4>1, CopyType
    <3>4. i.copy.uid <= uids /\ PathOK(i.copy)  BY <3>2 DEF Inv, ObjectsOK, PathOK
    <3>5. NotNewer(b, i.copy)  BY <3>2, <3>3 DEF NotNewer
    <3>6. ItemOK(i)  BY <3>2, <3>4, <3>5 DEF ItemOK
    <3> QED  BY <2>1, <3>6 DEF ItemOK, PathOK, NotNewer
  <2>4. ItemsOK' /\ ObjectsOK' /\ ObjectStep
    BY <1>t, <1>g, <1>o, <2>1, <2>2, <2>3, ItemsStep DEF Inv
  <2>5. ReadyJob' /\ ReadyMeansDumped'  BY <2>1, ReadyKept
  <2> QED  BY <2>2, <2>4, <2>5 DEF Inv, OwnJob
<1> QED  BY <1>1, <1>2, <1>3, <1>4, <1>5, <1>6, <1>7, <1>8

\* The initial state satisfies the invariant.
LEMMA InvInit == Init => Inv
<1> SUFFICES ASSUME Init PROVE Inv  OBVIOUS
<1>1. TypeInv  BY TypeInvInit
<1>2. /\ \A b \in Backups : cr[b] = NoCopy
      /\ queue = <<>> /\ retry = {} /\ task = Idle /\ job = NoJob /\ uids = 0
  BY DEF Init
<1>3. task.phase = "idle"  BY <1>2 DEF Idle
<1>4. Held = {}  BY <1>2, <1>3 DEF Held, Waiting
<1>5. ItemsOK /\ OwnJob  BY <1>3, <1>4 DEF ItemsOK, OwnJob
<1>6. ObjectsOK  BY <1>2, CopyType DEF ObjectsOK, PathOK
<1>7. ReadyJob /\ ReadyMeansDumped
  BY <1>2, CopyType DEF ReadyJob, ReadyMeansDumped, Finished
<1> QED  BY <1>1, <1>5, <1>6, <1>7 DEF Inv

\* Every step keeps the inductive invariant, and does to the objects what ObjectStep says.
LEMMA InvNext == Inv /\ [Next]_vars => Inv' /\ ObjectStep
<1> SUFFICES ASSUME Inv, [Next]_vars PROVE Inv' /\ ObjectStep  OBVIOUS
<1>1. TypeInv'  BY TypeInvNext DEF Inv
<1>2. CASE UNCHANGED vars
  <2>1. Held' = Held  BY <1>2 DEF vars, Held, Waiting
  <2>2. ObjectStep /\ JobsGrow
    BY <1>2 DEF vars, ObjectStep, JobsGrow, Inv, TypeInv, TypeOK
  <2>3. ItemsOK' /\ ObjectsOK'  BY <1>1, <1>2, <2>1, <2>2, ItemsStep DEF Inv, vars
  <2>4. ReadyJob' /\ ReadyMeansDumped'  BY <1>2, ReadyKept DEF vars
  <2>5. OwnJob'  BY <1>2 DEF vars, Inv, OwnJob, Copy
  <2> QED  BY <1>1, <2>2, <2>3, <2>4, <2>5 DEF Inv
<1> QED  BY <1>1, <1>2, InvHandler, InvStatus, InvOthers DEF Next, Handler

\* Objects, queue items, the worker and the job keep their types, and a backup that says
\* it is ready has at its BackupPath a dump that a job made for this very object has
\* completed: through failed and repeated status updates, restarts, retries with stale
\* copies, and the removal of the files of deleted objects.
THEOREM BackupsSoundHolds == Spec => []BackupsSound
<1>1. Init => Inv  BY InvInit
<1>2. Inv /\ [Next]_vars => Inv'  BY InvNext
<1>3. Inv => BackupsSound  BY DEF Inv, TypeInv, BackupsSound
<1> QED  BY <1>1, <1>2, <1>3, PTL DEF Spec

\* An object that has reached rejected, error or ready never changes again: whoever
\* writes a status holds the present version of an object that is not finished.
THEOREM FinishedIsFinalHolds == Spec => FinishedIsFinal
<1> DEFINE Kept == \A b \in Backups :
             (cr[b].state \in Finished /\ cr'[b].uid = cr[b].uid) => cr'[b] = cr[b]
<1>1. Init => Inv  BY InvInit
<1>2. Inv /\ [Next]_vars => Inv'  BY InvNext
<1>3. ASSUME Inv, [Next]_vars PROVE Kept
  <2>1. ObjectStep  BY <1>3, InvNext
  <2>2. Numbers  BY <1>3 DEF Inv, TypeInv, TypeOK, Numbers
  <2>3. ASSUME NEW b \in Backups, cr[b].state \in Finished, cr'[b].uid = cr[b].uid
        PROVE  cr'[b] = cr[b]
    <3>1. cr[b] \in Copies  BY <2>2, <2>3, CopyType DEF Numbers
    <3>2. cr[b].uid \in Nat /\ cr[b].uid # 0 /\ cr[b].uid <= uids /\ uids \in Nat
      BY <1>3, <2>2, <3>1, CopyType DEF Inv, ObjectsOK, Numbers
    <3>3. CASE cr'[b] = NoCopy  BY <2>3, <3>2, <3>3, CopyType
    <3>4. ASSUME NEW c \in Copies, cr'[b] = c, Created(b, c) PROVE FALSE
      BY <2>3, <3>2, <3>4 DEF Created
    <3>5. ASSUME NEW c \in Copies, cr'[b] = c, Written(b, c) PROVE FALSE
      BY <2>3, <3>5 DEF Written
    <3> QED  BY <2>1, <2>2, <3>3, <3>4, <3>5, ObjectStepAt
  <2> QED  BY <2>3
<1>4. Inv /\ [Next]_vars => [Kept]_vars  BY <1>3
<1> QED  BY <1>1, <1>2, <1>4, PTL DEF Spec, FinishedIsFinal

----------------------------------------------------------------------------
(* Without failing calls and restarts: only a backup that never ran is     *)
(* rejected.                                                               *)

Calm == crashes = 0 /\ faults = 0

\* No job was created for the object of this uid.
NeverRan(u) == \A j \in 1 .. jobs : owner[j] # u

\* Two items ask for the same backup; then they are one.
Same(i, j) == i.action = "ADD" /\ j.action = "ADD" /\ i.copy.uid = j.copy.uid
Single ==
    /\ \A k, l \in DOMAIN queue : k # l => ~Same(queue[k], queue[l])
    /\ \A k \in DOMAIN queue, i \in retry : ~Same(queue[k], i)
    /\ \A i, j \in retry : i # j => ~Same(i, j)
    /\ task.phase # "idle" => \A i \in Waiting : ~Same(task.item, i)

\* A waiting item with a copy that is not finished has the present version, and its backup
\* has not run; up to its outcome the worker has the present version too.
Untouched(i) ==
    i.action = "ADD" /\ i.copy.uid = cr[i.name].uid /\ i.copy.state \notin Finished =>
        i.copy.ver = cr[i.name].ver /\ NeverRan(i.copy.uid)
FreshTask ==
    /\ task.phase \in {"handler", "gone", "create"} => Untouched(task.item)
    /\ task.phase = "run" /\ Copy.uid = cr[task.item.name].uid =>
          Copy.ver = cr[task.item.name].ver
    /\ task.phase = "wait" /\ Copy.uid = cr[task.item.name].uid =>
          task.local.ver = cr[task.item.name].ver
FreshItems == \A i \in Waiting : Untouched(i)

\* A rejected backup never ran, and no item is left that could make it run.
Rejected ==
    \A b \in Backups : cr[b].state = "rejected" =>
        /\ NeverRan(cr[b].uid)
        /\ \A i \in Held : i.action = "ADD" => i.copy.uid # cr[b].uid

\* Jobs were created for objects there were.
Owners == \A j \in 1 .. jobs : owner[j] \in 0 .. uids

Orderly == Single /\ FreshTask /\ FreshItems /\ Rejected /\ Owners

\* Objects and jobs are touched for one uid only.
Touch(u) ==
    /\ \A b \in Backups : cr'[b] = cr[b] \/ cr'[b].uid = u \/ cr'[b].uid = 0
    /\ \A j \in 1 .. jobs' : (j \in 1 .. jobs /\ owner'[j] = owner[j]) \/ owner'[j] = u

\* Nothing is touched.
LEMMA NoTouch ==
    ASSUME UNCHANGED <<cr, jobs, owner>>, NEW u
    PROVE  Touch(u)
BY DEF Touch

\* An item for another uid stays what it is.
LEMMA UntouchedKept ==
    ASSUME NEW i \in Items, Untouched(i), NEW u, Touch(u), i.action = "ADD" => i.copy.uid # u
    PROVE  Untouched(i)'
<1> SUFFICES ASSUME i.action = "ADD", i.copy.uid = cr'[i.name].uid, i.copy.state \notin Finished
             PROVE  i.copy.ver = cr'[i.name].ver /\ NeverRan(i.copy.uid)'
  BY DEF Untouched
<1>1. i.copy.uid # 0 /\ i.name \in Backups  BY ItemType
<1>2. cr'[i.name] = cr[i.name]  BY <1>1 DEF Touch
<1>3. i.copy.ver = cr[i.name].ver /\ NeverRan(i.copy.uid)  BY <1>2 DEF Untouched
<1> QED  BY <1>2, <1>3 DEF Touch, NeverRan

\* So do all items that wait, and new ones may join them.
LEMMA FreshKept ==
    ASSUME TypeInv, FreshItems, NEW u, Touch(u),
           \A i \in Waiting : i.action = "ADD" => i.copy.uid # u,
           \A i \in Waiting' : i \in Waiting \/ Untouched(i)'
    PROVE  FreshItems'
<1>1. Waiting \subseteq Items  BY HeldType DEF Held
<1>2. \A i \in Waiting : Untouched(i)'  BY <1>1, UntouchedKept DEF FreshItems
<1> QED  BY <1>2 DEF FreshItems

\* Rejected backups stay out of the way.
LEMMA RejectedKept ==
    ASSUME Rejected, NEW u, Touch(u),
           \A b \in Backups : cr[b].state = "rejected" => cr[b].uid # u,
           \A b \in Backups : cr'[b].state = "rejected" => cr'[b] = cr[b],
           \A i \in Held' : i.action = "ADD" => i.copy.uid = u \/ \E j \in Held : Same(i, j)
    PROVE  Rejected'
<1> SUFFICES ASSUME NEW b \in Backups, cr'[b].state = "rejected"
             PROVE  /\ NeverRan(cr[b].uid)'
                    /\ \A i \in Held' : i.action = "ADD" => i.copy.uid # cr'[b].uid
  BY DEF Rejected
<1>1. PICK v : v = cr[b].uid  OBVIOUS
<1>2. /\ cr'[b] = cr[b] /\ cr'[b].uid = v /\ v # u /\ NeverRan(v)
      /\ \A i \in Held : i.action = "ADD" => i.copy.uid # v
  BY <1>1 DEF Rejected
<1>3. NeverRan(v)'  BY <1>2 DEF NeverRan, Touch
<1>4. \A i \in Held' : i.action = "ADD" => i.copy.uid # v  BY <1>2 DEF Same
<1>5. NeverRan(cr[b].uid)'  BY <1>2, <1>3 DEF NeverRan
<1> QED  BY <1>2, <1>4, <1>5

\* The worker's own item is not one of a rejected backup, nor does another ask for the same.
LEMMA OwnUid ==
    ASSUME TypeInv, Single, Rejected, task.phase # "idle", task.item.action = "ADD"
    PROVE  /\ \A b \in Backups : cr[b].state = "rejected" => cr[b].uid # Copy.uid
           /\ \A i \in Waiting : i.action = "ADD" => i.copy.uid # Copy.uid
<1>1. task.item \in Held /\ Copy = task.item.copy  BY DEF Held, Copy
<1> QED  BY <1>1 DEF Rejected, Single, Same

\* The worker keeps its item or puts it away.
LEMMA SingleTask ==
    ASSUME Single, UNCHANGED <<queue, retry>>,
           task'.phase # "idle" =>
             /\ task.phase # "idle" /\ task'.item.action = task.item.action
             /\ task'.item.copy.uid = task.item.copy.uid
    PROVE  Single'
<1>1. Waiting' = Waiting  BY DEF Waiting
<1> QED  BY <1>1 DEF Single, Same

\* It goes back to the queue.
LEMMA SingleFail ==
    ASSUME TypeInv, Single, task.phase # "idle", UNCHANGED queue,
           NEW c \in Copies, Fail(c), c.uid = Copy.uid
    PROVE  /\ Single' /\ task'.phase = "idle" /\ Held' = Waiting'
           /\ Waiting' = Waiting \cup {[task.item EXCEPT !.copy = c]}
           /\ [task.item EXCEPT !.copy = c].action = task.item.action
           /\ [task.item EXCEPT !.copy = c].name = task.item.name
           /\ [task.item EXCEPT !.copy = c].copy = c
           /\ \A i \in Held' : i.action = "ADD" => \E j \in Held : Same(i, j)
<1>1. task.item \in Items /\ Copy = task.item.copy  BY WorkerItem
<1>2. PICK e \in Items : e = [task.item EXCEPT !.copy = c]  BY <1>1, ItemType
<1>3. e.action = task.item.action /\ e.copy = c /\ e.name = task.item.name  BY <1>1, <1>2, ItemType
<1>4. retry' = retry \cup {e} /\ task'.phase = "idle"  BY <1>1, <1>2, FailType
<1>5. Waiting' = Waiting \cup {e} /\ Held' = Waiting'  BY <1>4 DEF Waiting, Held
<1>6. \A i \in Waiting : ~Same(e, i) /\ ~Same(i, e)
  BY <1>1, <1>3 DEF Single, Same
<1>7. \A k \in DOMAIN queue : queue[k] \in Waiting  BY DEF Waiting
<1>8. retry \subseteq Waiting  BY DEF Waiting
<1>9. Single'
  BY <1>4, <1>6, <1>7, <1>8 DEF Single
<1>10. ASSUME NEW i \in Held', i.action = "ADD" PROVE \E j \in Held : Same(i, j)
  <2>1. CASE i \in Waiting  BY <1>10, <2>1 DEF Held, Same
  <2>2. CASE i = e
    <3>1. task.item \in Held  BY DEF Held
    <3> QED  BY <1>1, <1>3, <1>10, <2>2, <3>1 DEF Same
  <2> QED  BY <1>5, <2>1, <2>2
<1> QED  BY <1>2, <1>3, <1>4, <1>5, <1>9, <1>10

\* A new item joins the queue.
LEMMA SingleAppend ==
    ASSUME TypeInv, Single, NEW e \in Items, queue' = Append(queue, e),
           UNCHANGED <<retry, task>>, \A i \in Held : ~Same(i, e)
    PROVE  Single' /\ Waiting' = Waiting \cup {e} /\ Held' = Held \cup {e}
<1>1. queue \in Seq(Items)  BY DEF TypeInv, TypeOK
<1>2. /\ DOMAIN queue = 1 .. Len(queue) /\ Len(queue) \in Nat
      /\ DOMAIN queue' = 1 .. Len(queue) + 1 /\ queue'[Len(queue) + 1] = e
      /\ \A k \in DOMAIN queue : queue'[k] = queue[k]
  BY <1>1
<1>3. Waiting' = Waiting \cup {e}
  <2>1. {queue'[k] : k \in DOMAIN queue'} = {queue[k] : k \in DOMAIN queue} \cup {e}  BY <1>2
  <2> QED  BY <2>1 DEF Waiting
<1>4. \A k \in DOMAIN queue' : \/ k \in DOMAIN queue /\ queue'[k] = queue[k]
                               \/ k = Len(queue) + 1 /\ queue'[k] = e
  BY <1>2
<1>5. \A i \in Waiting : ~Same(i, e) /\ ~Same(e, i)  BY DEF Held, Same
<1>6. (\A k \in DOMAIN queue : queue[k] \in Waiting) /\ retry \subseteq Waiting  BY DEF Waiting
<1>7. task.phase # "idle" => ~Same(task.item, e)  BY DEF Held
<1>8. \A k, l \in DOMAIN queue' : k # l => ~Same(queue'[k], queue'[l])
  BY <1>4, <1>5, <1>6 DEF Single
<1>9. \A k \in DOMAIN queue', i \in retry : ~Same(queue'[k], i)
  BY <1>4, <1>5, <1>6 DEF Single
<1>10. task.phase # "idle" => \A i \in Waiting' : ~Same(task.item, i)
  BY <1>3, <1>7 DEF Single
<1>11. Single'  BY <1>8, <1>9, <1>10 DEF Single
<1> QED  BY <1>3, <1>11 DEF Held

\* An item that has waited out its delay.
LEMMA SingleRequeue ==
    ASSUME TypeInv, Single, Requeue
    PROVE  Single' /\ Waiting' = Waiting /\ Held' = Held
<1>1. PICK e \in retry : queue' = Append(queue, e) /\ retry' = retry \ {e}  BY DEF Requeue
<1>2. queue \in Seq(Items) /\ e \in Items /\ UNCHANGED task  BY DEF TypeInv, TypeOK, Requeue
<1>3. /\ DOMAIN queue = 1 .. Len(queue) /\ Len(queue) \in Nat
      /\ DOMAIN queue' = 1 .. Len(queue) + 1 /\ queue'[Len(queue) + 1] = e
      /\ \A k \in DOMAIN queue : queue'[k] = queue[k]
  BY <1>1, <1>2
<1>4. Waiting' = Waiting
  <2>1. {queue'[k] : k \in DOMAIN queue'} = {queue[k] : k \in DOMAIN queue} \cup {e}  BY <1>3
  <2> QED  BY <1>1, <2>1 DEF Waiting
<1>5. \A k \in DOMAIN queue' : \/ k \in DOMAIN queue /\ queue'[k] = queue[k]
                               \/ k = Len(queue) + 1 /\ queue'[k] = e
  BY <1>3
<1>6. \A k \in DOMAIN queue : ~Same(queue[k], e) /\ ~Same(e, queue[k])
  BY DEF Single, Same
<1>7. \A i \in retry' : i \in retry /\ ~Same(e, i)  BY <1>1 DEF Single
<1>8. \A k, l \in DOMAIN queue' : k # l => ~Same(queue'[k], queue'[l])
  BY <1>5, <1>6 DEF Single
<1>9. \A k \in DOMAIN queue', i \in retry' : ~Same(queue'[k], i)
  BY <1>5, <1>7 DEF Single
<1>10. Single'  BY <1>2, <1>4, <1>7, <1>8, <1>9 DEF Single
<1> QED  BY <1>2, <1>4, <1>10 DEF Held

\* The worker takes the first item.
LEMMA SingleGet ==
    ASSUME TypeInv, Single, Get
    PROVE  /\ Single' /\ Waiting' \subseteq Waiting /\ Held' \subseteq Held
           /\ task'.phase = "handler" /\ task'.item \in Waiting
<1>1. queue \in Seq(Items) /\ queue # <<>> /\ task.phase = "idle"  BY DEF TypeInv, TypeOK, Get
<1>2. /\ queue' = Tail(queue) /\ UNCHANGED retry
      /\ task'.phase = "handler" /\ task'.item = Head(queue)
  BY DEF Get, Idle
<1>3. /\ DOMAIN queue = 1 .. Len(queue) /\ Len(queue) \in Nat /\ 1 \in DOMAIN queue
      /\ Head(queue) = queue[1]
      /\ DOMAIN queue' = 1 .. Len(queue) - 1
      /\ \A k \in DOMAIN queue' : queue'[k] = queue[k + 1]
  BY <1>1, <1>2
<1>4. \A k \in DOMAIN queue' : k + 1 \in DOMAIN queue /\ k + 1 # 1  BY <1>3
<1>5. Waiting' \subseteq Waiting /\ task'.item \in Waiting
  BY <1>2, <1>3, <1>4 DEF Waiting
<1>6. \A k, l \in DOMAIN queue' : k # l => ~Same(queue'[k], queue'[l])
  BY <1>3, <1>4 DEF Single
<1>7. \A k \in DOMAIN queue', i \in retry' : ~Same(queue'[k], i)
  BY <1>2, <1>3, <1>4 DEF Single
<1>8. \A i \in Waiting' : ~Same(task'.item, i)
  <2>1. \A k \in DOMAIN queue' : ~Same(queue[1], queue'[k])  BY <1>3, <1>4 DEF Single
  <2>2. \A i \in retry' : ~Same(queue[1], i)  BY <1>2, <1>3 DEF Single
  <2> QED  BY <1>2, <1>3, <2>1, <2>2 DEF Waiting
<1>9. Single'  BY <1>2, <1>6, <1>7, <1>8 DEF Single
<1> QED  BY <1>1, <1>2, <1>5, <1>9 DEF Held

\* Nothing that the invariant speaks of changes, or the worker is done with its item.
LEMMA OrderlyQuiet ==
    ASSUME Inv, Orderly, UNCHANGED <<cr, uids, jobs, owner, queue, retry>>,
           UNCHANGED task \/ task'.phase = "idle"
    PROVE  Orderly'
<1>1. TypeInv  BY DEF Inv
<1>2. Single'  BY SingleTask DEF Orderly
<1>3. Waiting' = Waiting /\ Held' \subseteq Held  BY DEF Waiting, Held
<1>4. FreshItems'  BY <1>3 DEF Orderly, FreshItems, Untouched, NeverRan
<1>5. FreshTask'
  BY DEF Orderly, FreshTask, Untouched, NeverRan, Copy
<1>6. Rejected'  BY <1>3 DEF Orderly, Rejected, NeverRan
<1>7. Owners'  BY DEF Orderly, Owners
<1> QED  BY <1>2, <1>4, <1>5, <1>6, <1>7 DEF Orderly

\* The phases before the job is created.
LEMMA OrderlyPhase ==
    ASSUME Inv, Orderly, DeletePrevJob \/ NoPrevJob \/ PrevJobGone
    PROVE  Orderly'
<1>1. TypeInv /\ task.phase \in {"handler", "gone"}
  BY DEF Inv, DeletePrevJob, NoPrevJob, PrevJobGone, InHandler
<1>2. UNCHANGED <<cr, uids, jobs, owner, queue, retry>>
  BY DEF DeletePrevJob, NoPrevJob, PrevJobGone
<1>3. PICK p \in {"gone", "create"} : task' = [task EXCEPT !.phase = p]
  BY DEF DeletePrevJob, NoPrevJob, PrevJobGone
<1>4. task \in Tasks  BY <1>1 DEF TypeInv, TypeOK
<1>5. task'.phase = p /\ task'.item = task.item  BY <1>3, <1>4 DEF Tasks
<1>6. Single'  BY <1>1, <1>2, <1>5, SingleTask DEF Orderly
<1>7. Waiting' = Waiting /\ Held' = Held  BY <1>1, <1>2, <1>5 DEF Waiting, Held
<1>8. FreshItems'  BY <1>2, <1>7 DEF Orderly, FreshItems, Untouched, NeverRan
<1>9. FreshTask'  BY <1>1, <1>2, <1>5 DEF Orderly, FreshTask, Untouched, NeverRan
<1>10. Rejected'  BY <1>2, <1>7 DEF Orderly, Rejected, NeverRan
<1>11. Owners'  BY <1>2 DEF Orderly, Owners
<1> QED  BY <1>6, <1>8, <1>9, <1>10, <1>11 DEF Orderly

\* What the worker knows stays true if another uid is touched.
LEMMA FreshTaskKept ==
    ASSUME TypeInv, FreshTask, UNCHANGED task, NEW u, Touch(u),
           task.phase # "idle" /\ task.item.action = "ADD" => Copy.uid # u
    PROVE  FreshTask'
<1>1. CASE task.phase \in {"handler", "gone", "create"}
  <2>1. PICK i \in Items : i = task.item  BY <1>1, WorkerItem
  <2>2. Untouched(i) /\ (i.action = "ADD" => i.copy.uid # u)
    BY <1>1, <2>1 DEF FreshTask, Copy
  <2>3. Untouched(i)'  BY <2>2, UntouchedKept
  <2>4. Untouched(task.item)'  BY <2>1, <2>3 DEF Untouched, NeverRan
  <2> QED  BY <1>1, <2>4 DEF FreshTask
<1>2. CASE task.phase \in {"run", "wait"}
  <2>1. /\ task.item.action = "ADD" /\ task.item.name \in Backups /\ Copy.uid # u
        /\ Copy.uid # 0
    BY <1>2, WorkerItem, CopyType
  <2>2. Copy.uid = cr'[task.item.name].uid => cr'[task.item.name] = cr[task.item.name]
    BY <2>1 DEF Touch
  <2>3. Copy' = Copy  BY DEF Copy
  <2> QED  BY <1>2, <2>2, <2>3 DEF FreshTask
<1>3. CASE task.phase \notin {"handler", "gone", "create", "run", "wait"}
  BY <1>3 DEF FreshTask
<1> QED  BY <1>1, <1>2, <1>3

\* No owner is newer than the last uid.
LEMMA OwnersKept ==
    ASSUME TypeInv, Owners, UNCHANGED <<jobs, owner>>, uids' \in {uids, uids + 1}
    PROVE  Owners'
BY DEF Owners, TypeInv, TypeOK

\* The steps of the environment and of the queue.
LEMMA OrderlyGet ==
    ASSUME Inv, Orderly, Get
    PROVE  Orderly'
<1>1. /\ TypeInv /\ Single' /\ Waiting' \subseteq Waiting /\ Held' \subseteq Held
      /\ task'.phase = "handler" /\ task'.item \in Waiting
  BY SingleGet DEF Orderly, Inv
<1>2. UNCHANGED <<cr, uids, jobs, owner>>  BY DEF Get
<1>3. FreshItems' /\ FreshTask'
  BY <1>1, <1>2 DEF Orderly, FreshItems, FreshTask, Untouched, NeverRan
<1>4. Rejected'  BY <1>1, <1>2 DEF Orderly, Rejected, NeverRan
<1>5. Owners'  BY <1>2 DEF Orderly, Owners
<1> QED  BY <1>1, <1>3, <1>4, <1>5 DEF Orderly

\* An item comes back.
LEMMA OrderlyRequeue ==
    ASSUME Inv, Orderly, Requeue
    PROVE  Orderly'
<1>1. TypeInv /\ Single' /\ Waiting' = Waiting /\ Held' = Held
  BY SingleRequeue DEF Orderly, Inv
<1>2. UNCHANGED <<cr, uids, jobs, owner, task>>  BY DEF Requeue
<1>3. FreshItems'  BY <1>1, <1>2 DEF Orderly, FreshItems, Untouched, NeverRan
<1>4. FreshTask'  BY <1>2 DEF Orderly, FreshTask, Untouched, NeverRan, Copy
<1>5. Rejected'  BY <1>1, <1>2 DEF Orderly, Rejected, NeverRan
<1>6. Owners'  BY <1>2 DEF Orderly, Owners
<1> QED  BY <1>1, <1>3, <1>4, <1>5, <1>6 DEF Orderly

\* A new object has a uid that no item, object or job has.
LEMMA OrderlyCreate ==
    ASSUME Inv, Orderly, Inv', NEW b \in Backups, CreateBackup(b)
    PROVE  Orderly'
<1>1. TypeInv /\ TypeInv' /\ Numbers  BY NumbersBoth DEF Inv
<1>2. PICK named \in BOOLEAN :
        LET c == [uid |-> uids + 1, ver |-> 0, state |-> "", path |-> 0, named |-> named] IN
        cr' = [cr EXCEPT ![b] = c] /\ Enqueue("ADD", b, c)
  BY DEF CreateBackup
<1>3. PICK c : c = [uid |-> uids + 1, ver |-> 0, state |-> "", path |-> 0, named |-> named]
  OBVIOUS
<1>4. c.uid = uids + 1 /\ c.ver = 0 /\ c.state \notin Finished  BY <1>3 DEF Finished
<1>5. /\ cr' = [cr EXCEPT ![b] = c]
      /\ queue' = Append(queue, [action |-> "ADD", name |-> b, copy |-> c])
  BY <1>2, <1>3 DEF Enqueue
<1>6. uids' = uids + 1 /\ UNCHANGED <<retry, task, jobs, owner>>  BY DEF CreateBackup
<1>7. cr'[b] = c /\ \A a \in Backups : a # b => cr'[a] = cr[a]  BY <1>1, <1>5 DEF Numbers
<1>8. c \in Copies  BY <1>1, <1>4, <1>7, CopyType, NumbersBoth DEF Numbers
<1>9. PICK e : e = [action |-> "ADD", name |-> b, copy |-> c]  OBVIOUS
<1>10. e \in Items /\ e.action = "ADD" /\ e.name = b /\ e.copy = c  BY <1>8, <1>9 DEF Items
<1>11. Touch(uids + 1)  BY <1>4, <1>6, <1>7 DEF Touch
<1>12. \A i \in Held : i.copy.uid # uids + 1
  <2>1. \A i \in Held : i \in Items /\ i.copy.uid <= uids
    BY <1>1, HeldType DEF Inv, ItemsOK, ItemOK
  <2>2. \A i \in Items : i.copy.uid \in Nat  BY ItemType, BoundAssumption
  <2> QED  BY <1>1, <2>1, <2>2 DEF Numbers
<1>13. /\ Single' /\ Waiting' = Waiting \cup {e} /\ Held' = Held \cup {e}
  BY <1>1, <1>4, <1>5, <1>6, <1>9, <1>10, <1>12, SingleAppend DEF Orderly, Same
<1>14. Untouched(e)'
  <2>1. NeverRan(c.uid)'  BY <1>1, <1>4, <1>6 DEF NeverRan, Orderly, Owners, Numbers
  <2>2. NeverRan(e.copy.uid)'  BY <1>10, <2>1 DEF NeverRan
  <2> QED  BY <1>4, <1>7, <1>10, <2>2 DEF Untouched
<1>15. PICK u : u = uids + 1  OBVIOUS
<1>16. Touch(u) /\ \A i \in Held : i.copy.uid # u  BY <1>11, <1>12, <1>15 DEF Touch
<1>17. FreshItems'
  <2>1. \A i \in Waiting : i.copy.uid # u  BY <1>16 DEF Held
  <2> QED  BY <1>1, <1>13, <1>14, <1>16, <2>1, FreshKept DEF Orderly
<1>18. FreshTask'
  <2>1. task.phase # "idle" => Copy.uid # u  BY <1>16 DEF Held, Copy
  <2> QED  BY <1>1, <1>6, <1>16, <2>1, FreshTaskKept DEF Orderly
<1>19. Rejected'
  <2>1. \A a \in Backups : cr[a].uid # u
    <3>1. \A a \in Backups : cr[a].uid \in Nat /\ cr[a].uid <= uids
      BY <1>1, CopyType DEF Inv, ObjectsOK, Numbers
    <3> QED  BY <1>1, <1>15, <3>1 DEF Numbers
  <2>2. \A a \in Backups : cr'[a].state = "rejected" => cr'[a] = cr[a]
    BY <1>4, <1>7 DEF Finished
  <2>3. \A i \in Held' : i.action = "ADD" => i.copy.uid = u \/ \E j \in Held : Same(i, j)
    BY <1>4, <1>10, <1>13, <1>15 DEF Same
  <2> QED  BY <1>16, <2>1, <2>2, <2>3, RejectedKept DEF Orderly
<1>20. Owners'  BY <1>1, <1>6, OwnersKept DEF Orderly
<1> QED  BY <1>13, <1>17, <1>18, <1>19, <1>20 DEF Orderly

\* A deleted object is no longer asked about.
LEMMA OrderlyDelete ==
    ASSUME Inv, Orderly, Inv', NEW b \in Backups, DeleteBackup(b)
    PROVE  Orderly'
<1>1. TypeInv /\ TypeInv' /\ Numbers  BY NumbersBoth DEF Inv
<1>2. /\ cr' = [cr EXCEPT ![b] = NoCopy] /\ cr[b] # NoCopy
      /\ queue' = Append(queue, [action |-> "DELETE", name |-> b, copy |-> cr[b]])
      /\ UNCHANGED <<uids, retry, task, jobs, owner>>
  BY DEF DeleteBackup, Enqueue
<1>3. PICK e : e = [action |-> "DELETE", name |-> b, copy |-> cr[b]]  OBVIOUS
<1>4. e \in Items /\ e.action = "DELETE"
  <2>1. cr[b] \in Copies  BY <1>1, <1>2 DEF Numbers
  <2> QED  BY <1>3, <2>1 DEF Items
<1>5. cr'[b] = NoCopy /\ \A a \in Backups : a # b => cr'[a] = cr[a]  BY <1>1, <1>2 DEF Numbers
<1>6. Touch(0)  BY <1>2, <1>5, CopyType DEF Touch
<1>7. Single' /\ Waiting' = Waiting \cup {e} /\ Held' = Held \cup {e}
  BY <1>1, <1>2, <1>3, <1>4, SingleAppend DEF Orderly, Same
<1>8. \A i \in Held : i.copy.uid # 0  BY <1>1, HeldType, ItemType
<1>9. FreshItems'
  <2>1. Untouched(e)'  BY <1>4 DEF Untouched
  <2>2. \A i \in Waiting : i.copy.uid # 0  BY <1>8 DEF Held
  <2> QED  BY <1>1, <1>6, <1>7, <2>1, <2>2, FreshKept DEF Orderly
<1>10. FreshTask'
  <2>1. task.phase # "idle" => Copy.uid # 0  BY <1>8 DEF Held, Copy
  <2> QED  BY <1>1, <1>2, <1>6, <2>1, FreshTaskKept DEF Orderly
<1>11. Rejected'
  <2>1. \A a \in Backups : cr[a].state = "rejected" => cr[a].uid # 0
    BY <1>1, CopyType DEF Numbers, Finished
  <2>2. \A a \in Backups : cr'[a].state = "rejected" => cr'[a] = cr[a]
    BY <1>5, CopyType DEF Finished
  <2>3. \A i \in Held' : i.action = "ADD" => i.copy.uid = 0 \/ \E j \in Held : Same(i, j)
    BY <1>4, <1>7 DEF Same
  <2> QED  BY <1>6, <2>1, <2>2, <2>3, RejectedKept DEF Orderly
<1>12. Owners'  BY <1>1, <1>2, OwnersKept DEF Orderly
<1> QED  BY <1>7, <1>9, <1>10, <1>11, <1>12 DEF Orderly

\* Without a failure a status is written if and only if the copy is the present one.
LEMMA CalmStatus ==
    ASSUME TypeInv, task.phase # "idle", NEW c \in Copies, NEW s \in States,
           NEW ok \in BOOLEAN, UpdateStatus(c, s, ok), UNCHANGED <<faults, jobs, owner>>,
           c.uid = Copy.uid
    PROVE  /\ ok => Current(c) /\ cr'[task.item.name] = Stored(c, s)
           /\ ~ok => ~Current(c) /\ UNCHANGED cr
           /\ Touch(Copy.uid)
           /\ \A b \in Backups : cr'[b] = cr[b] \/ (b = task.item.name /\ cr'[b].state = s)
<1>1. task.item.name \in Backups /\ cr \in [Backups -> Copies \cup {NoCopy}]
  BY WorkerItem DEF TypeInv, TypeOK
<1>2. ~Breaks  BY DEF Breaks, TypeInv, TypeOK
<1>3. /\ ok => Current(c) /\ cr' = [cr EXCEPT ![task.item.name] = Stored(c, s)]
      /\ ~ok => ~Current(c) /\ UNCHANGED cr
  BY <1>2 DEF UpdateStatus
<1>4. Stored(c, s).uid = Copy.uid /\ Stored(c, s).state = s  BY MarkedType
<1>5. CASE ok
  <2>1. /\ cr'[task.item.name] = Stored(c, s)
        /\ \A b \in Backups : b # task.item.name => cr'[b] = cr[b]
    BY <1>1, <1>3, <1>5
  <2>2. \A b \in Backups : cr'[b] = cr[b] \/ cr'[b].uid = Copy.uid  BY <1>4, <2>1
  <2>3. \A b \in Backups : cr'[b] = cr[b] \/ (b = task.item.name /\ cr'[b].state = s)
    BY <1>4, <2>1
  <2>4. Touch(Copy.uid)  BY <2>2 DEF Touch
  <2> QED  BY <1>3, <1>5, <2>1, <2>3, <2>4
<1>6. CASE ~ok
  <2>1. UNCHANGED cr /\ ~Current(c)  BY <1>3, <1>6
  <2>2. Touch(Copy.uid)  BY <2>1, NoTouch
  <2> QED  BY <1>6, <2>1, <2>2
<1> QED  BY <1>5, <1>6

\* The item goes back, finished or for an object that is gone.
LEMMA OrderlyFail ==
    ASSUME Inv, Orderly, task.phase # "idle", task.item.action = "ADD",
           UNCHANGED <<uids, queue, jobs, owner>>, Touch(Copy.uid),
           \A b \in Backups : cr'[b].state = "rejected" => cr'[b] = cr[b],
           NEW c \in Copies, Fail(c), c.uid = Copy.uid,
           c.state \in Finished \/ c.uid # cr'[task.item.name].uid
    PROVE  Orderly'
<1>1. TypeInv /\ Single /\ Rejected  BY DEF Inv, Orderly
<1>2. PICK e : e = [task.item EXCEPT !.copy = c]  OBVIOUS
<1>3. /\ Single' /\ task'.phase = "idle" /\ Held' = Waiting'
      /\ Waiting' = Waiting \cup {e}
      /\ e.name = task.item.name /\ e.copy = c
      /\ \A i \in Held' : i.action = "ADD" => \E j \in Held : Same(i, j)
  BY <1>1, <1>2, SingleFail
<1>4. PICK u : u = Copy.uid  OBVIOUS
<1>5. Touch(u)  BY <1>4 DEF Touch
<1>6. /\ \A b \in Backups : cr[b].state = "rejected" => cr[b].uid # u
      /\ \A i \in Waiting : i.action = "ADD" => i.copy.uid # u
  BY <1>1, <1>4, OwnUid
<1>7. Untouched(e)'  BY <1>3 DEF Untouched
<1>8. FreshItems'  BY <1>1, <1>3, <1>5, <1>6, <1>7, FreshKept DEF Orderly
<1>9. FreshTask'  BY <1>3 DEF FreshTask
<1>10. Rejected'  BY <1>1, <1>3, <1>5, <1>6, RejectedKept
<1>11. Owners'  BY <1>1, OwnersKept DEF Orderly
<1> QED  BY <1>3, <1>8, <1>9, <1>10, <1>11 DEF Orderly

\* The item is done with; if its backup is rejected now, it has never run.
LEMMA OrderlyReturn ==
    ASSUME Inv, Orderly, task.phase # "idle", task.item.action = "ADD",
           UNCHANGED <<uids, queue, jobs, owner>>, Touch(Copy.uid), Return,
           \A b \in Backups : \/ cr'[b].state = "rejected" => cr'[b] = cr[b]
                              \/ cr'[b].uid = Copy.uid /\ NeverRan(Copy.uid)
    PROVE  Orderly'
<1>1. TypeInv /\ Single /\ Rejected  BY DEF Inv, Orderly
<1>2. task'.phase = "idle" /\ UNCHANGED retry  BY <1>1, ReturnType
<1>3. Single'  BY <1>1, <1>2, SingleTask
<1>4. Waiting' = Waiting /\ Held' = Waiting  BY <1>2 DEF Held, Waiting
<1>5. PICK u : u = Copy.uid  OBVIOUS
<1>6. Touch(u)  BY <1>5 DEF Touch
<1>7. /\ \A b \in Backups : cr[b].state = "rejected" => cr[b].uid # u
      /\ \A i \in Waiting : i.action = "ADD" => i.copy.uid # u
  BY <1>1, <1>5, OwnUid
<1>8. FreshItems'  BY <1>1, <1>4, <1>6, <1>7, FreshKept DEF Orderly
<1>9. FreshTask'  BY <1>2 DEF FreshTask
<1>10. Rejected'
  <2> SUFFICES ASSUME NEW b \in Backups, cr'[b].state = "rejected"
               PROVE  /\ NeverRan(cr[b].uid)'
                      /\ \A i \in Held' : i.action = "ADD" => i.copy.uid # cr'[b].uid
    BY DEF Rejected
  <2>1. CASE cr'[b] = cr[b]
    BY <1>1, <1>4, <2>1 DEF Rejected, NeverRan, Held
  <2>2. CASE cr'[b].uid = Copy.uid /\ NeverRan(Copy.uid)
    BY <1>4, <1>5, <1>7, <2>2 DEF NeverRan
  <2> QED  BY <2>1, <2>2
<1>11. Owners'  BY <1>1, OwnersKept DEF Orderly
<1> QED  BY <1>3, <1>8, <1>9, <1>10, <1>11 DEF Orderly

\* A backup is rejected, or the object of the item is gone.
LEMMA OrderlyReject ==
    ASSUME Inv, Orderly, UNCHANGED faults, RejectDuplicate
    PROVE  Orderly'
<1>1. /\ TypeInv /\ task.phase = "handler" /\ task.item.action = "ADD"
      /\ Copy.state \notin Finished /\ UNCHANGED <<uids, queue, jobs, owner>>
  BY DEF Inv, RejectDuplicate, InHandler
<1>2. PICK ok \in BOOLEAN : /\ UpdateStatus(Copy, "rejected", ok)
                            /\ IF ok THEN Return ELSE Fail(Marked(Copy, "rejected"))
  BY DEF RejectDuplicate
<1>3. Copy \in Copies /\ Copy = task.item.copy /\ task.item.name \in Backups
  BY <1>1, WorkerItem
<1>4. "rejected" \in States /\ "rejected" \in Finished  BY DEF States, Finished
<1>5. /\ ok => Current(Copy) /\ cr'[task.item.name] = Stored(Copy, "rejected")
      /\ ~ok => UNCHANGED cr
      /\ Touch(Copy.uid)
      /\ \A b \in Backups : cr'[b] = cr[b] \/ b = task.item.name
  BY <1>1, <1>2, <1>3, <1>4, CalmStatus
<1>6. CASE ok
  <2>1. NeverRan(Copy.uid)
    BY <1>1, <1>3, <1>5, <1>6 DEF Orderly, FreshTask, Untouched, Current
  <2>2. cr'[task.item.name].uid = Copy.uid  BY <1>3, <1>4, <1>5, <1>6, MarkedType
  <2>3. Return  BY <1>2, <1>6
  <2> QED  BY <1>1, <1>5, <2>1, <2>2, <2>3, OrderlyReturn
<1>7. CASE ~ok
  <2>1. PICK c \in Copies : c = Marked(Copy, "rejected")  BY <1>3, <1>4, MarkedType
  <2>2. c.uid = Copy.uid /\ c.state \in Finished  BY <1>3, <1>4, <2>1, MarkedType
  <2>3. Fail(c)  BY <1>2, <1>7, <2>1
  <2>4. \A b \in Backups : cr'[b] = cr[b]  BY <1>5, <1>7
  <2> QED  BY <1>1, <1>5, <2>2, <2>3, <2>4, OrderlyFail
<1> QED  BY <1>6, <1>7

\* A backup ends in an error before its job.
LEMMA OrderlyError ==
    ASSUME Inv, Orderly, UNCHANGED faults, RefuseUnnamed \/ MarkFailed
    PROVE  Orderly'
<1>1. TypeInv /\ task.phase # "idle" /\ UNCHANGED <<uids, queue, jobs, owner>>
  BY DEF Inv, RefuseUnnamed, MarkFailed, InHandler
<1>2. task.item.action = "ADD"  BY <1>1, WorkerItem DEF RefuseUnnamed, MarkFailed, InHandler
<1>3. PICK ok \in BOOLEAN : UpdateStatus(Copy, "error", ok)  BY DEF RefuseUnnamed, MarkFailed
<1>4. Copy \in Copies  BY <1>1, WorkerItem
<1>5. "error" \in States /\ "error" \in Finished  BY DEF States, Finished
<1>6. /\ Touch(Copy.uid)
      /\ \A b \in Backups : cr'[b] = cr[b] \/ cr'[b].state = "error"
  BY <1>1, <1>3, <1>4, <1>5, CalmStatus
<1>7. PICK c \in Copies : c = Marked(Copy, "error")  BY <1>4, <1>5, MarkedType
<1>8. c.uid = Copy.uid /\ c.state \in Finished  BY <1>4, <1>5, <1>7, MarkedType
<1>9. Fail(c)  BY <1>7 DEF RefuseUnnamed, MarkFailed
<1> QED  BY <1>1, <1>2, <1>6, <1>8, <1>9, OrderlyFail

\* The job has an outcome.
LEMMA OrderlyCompleted ==
    ASSUME Inv, Orderly, UNCHANGED faults, JobCompleted
    PROVE  Orderly'
<1>1. TypeInv /\ task.phase = "wait" /\ UNCHANGED <<uids, queue, jobs, owner>>
  BY DEF Inv, JobCompleted
<1>2. PICK s \in {"ready", "error"} : s = Outcome(job.st)  BY DEF JobCompleted, Outcome
<1>3. PICK ok \in BOOLEAN : /\ UpdateStatus(task.local, s, ok)
                            /\ IF ok THEN Return ELSE Fail(Copy)
  BY <1>2 DEF JobCompleted
<1>4. /\ task.item.action = "ADD" /\ Copy \in Copies /\ task.item.name \in Backups
      /\ task.local \in Copies /\ task.local.uid = Copy.uid
  BY <1>1, WorkerItem DEF TypeInv, TaskShape
<1>5. s \in States  BY DEF States
<1>6. /\ ~ok => ~Current(task.local) /\ UNCHANGED cr
      /\ Touch(Copy.uid)
      /\ \A b \in Backups : cr'[b] = cr[b] \/ cr'[b].state = s
  BY <1>1, <1>3, <1>4, <1>5, CalmStatus
<1>7. \A b \in Backups : cr'[b].state = "rejected" => cr'[b] = cr[b]  BY <1>6
<1>8. CASE ok  BY <1>1, <1>3, <1>4, <1>6, <1>7, <1>8, OrderlyReturn
<1>9. CASE ~ok
  <2>1. Copy.uid # cr[task.item.name].uid
    BY <1>1, <1>4, <1>6, <1>9 DEF Orderly, FreshTask, Current
  <2> QED  BY <1>1, <1>3, <1>4, <1>6, <1>7, <1>9, <2>1, OrderlyFail
<1> QED  BY <1>8, <1>9

\* The job is created: from now on the backup has run.
LEMMA OrderlyCreateJob ==
    ASSUME Inv, Orderly, CreateJob
    PROVE  Orderly'
<1>1. TypeInv /\ task.phase = "create" /\ UNCHANGED <<cr, uids, queue, retry>>
  BY DEF Inv, CreateJob
<1>2. /\ task.item \in Items /\ Copy \in Copies /\ Copy = task.item.copy
      /\ task.item.name \in Backups /\ task.item.action = "ADD" /\ Copy.state \notin Finished
  BY <1>1, WorkerItem
<1>3. /\ jobs' = jobs + 1 /\ jobs' \in 1 .. MaxJobs /\ jobs \in Nat
      /\ owner'[jobs'] = Copy.uid /\ \A j \in 1 .. jobs : owner'[j] = owner[j]
  BY <1>1, NewJobType DEF CreateJob, TypeInv, TypeOK
<1>4. PICK c \in Copies : /\ c = [Copy EXCEPT !.path = jobs']
                          /\ c.uid = Copy.uid /\ c.ver = Copy.ver /\ c.state = Copy.state
  <2>1. PICK j \in 0 .. MaxJobs : j = jobs'  BY <1>3
  <2>2. PICK c \in Copies : c = [Copy EXCEPT !.path = j]  BY <1>2, <2>1, PathType
  <2>3. c.uid = Copy.uid /\ c.ver = Copy.ver /\ c.state = Copy.state
    BY <1>2, <2>1, <2>2, PathType
  <2> QED  BY <2>1, <2>2, <2>3
<1>5. c.uid = Copy.uid /\ c.ver = Copy.ver /\ c.state = Copy.state  BY <1>4
<1>6. task' = [task EXCEPT !.phase = "run", !.item.copy = c]
  <2>1. task' = [task EXCEPT !.phase = "run", !.item.copy = [Copy EXCEPT !.path = jobs']]
    BY <1>3 DEF CreateJob, Copy
  <2> QED  BY <1>4, <2>1
<1>7. task'.phase = "run" /\ task'.item = [task.item EXCEPT !.copy = c] /\ Copy' = c
  BY <1>1, <1>2, <1>5, <1>6, GoesOnType
<1>8. task'.item.action = "ADD" /\ task'.item.name = task.item.name /\ task'.item.copy = c
  BY <1>2, <1>7, ItemType
<1>9. PICK u : u = Copy.uid  OBVIOUS
<1>10. Touch(u)  BY <1>1, <1>3, <1>9 DEF Touch
<1>11. /\ \A b \in Backups : cr[b].state = "rejected" => cr[b].uid # u
       /\ \A i \in Waiting : i.action = "ADD" => i.copy.uid # u
  BY <1>1, <1>2, <1>9, OwnUid DEF Orderly
<1>12. Single'  BY <1>1, <1>2, <1>5, <1>8, SingleTask DEF Orderly
<1>13. Waiting' = Waiting /\ Held' = Waiting \cup {task'.item}
  BY <1>1, <1>7 DEF Waiting, Held
<1>14. FreshItems'  BY <1>1, <1>10, <1>11, <1>13, FreshKept DEF Orderly
<1>15. FreshTask'
  <2>1. Copy.uid = cr[task.item.name].uid => Copy.ver = cr[task.item.name].ver
    BY <1>1, <1>2 DEF Orderly, FreshTask, Untouched
  <2> QED  BY <1>1, <1>5, <1>7, <1>8, <2>1 DEF FreshTask
<1>16. Rejected'
  <2>1. \A i \in Held' : i.action = "ADD" => i.copy.uid = u \/ \E j \in Held : Same(i, j)
    BY <1>5, <1>8, <1>9, <1>13 DEF Held, Same
  <2> QED  BY <1>1, <1>10, <1>11, <2>1, RejectedKept DEF Orderly
<1>17. Owners'
  <2>1. Copy.uid \in Nat /\ Copy.uid <= uids /\ uids \in Nat
    BY <1>1, <1>2, OwnItem, CopyType DEF TypeInv, TypeOK
  <2> QED  BY <1>1, <1>3, <2>1 DEF Orderly, Owners
<1> QED  BY <1>12, <1>14, <1>15, <1>16, <1>17 DEF Orderly

\* The job cannot be created because there is one.
LEMMA OrderlyCreateFails ==
    ASSUME Inv, Orderly, UNCHANGED faults, CreateJobFails
    PROVE  Orderly'
<1>1. /\ TypeInv /\ task.phase = "create" /\ UNCHANGED <<cr, uids, queue, retry>>
  BY DEF Inv, CreateJobFails
<1>2. ~Breaks  BY <1>1 DEF Breaks, TypeInv, TypeOK
<1>3. /\ UNCHANGED <<jobs, owner>>
      /\ task' = [task EXCEPT !.phase = "failed", !.item.copy.path = 0]
  BY <1>2 DEF CreateJobFails
<1>4. task.item \in Items /\ Copy \in Copies /\ task.item.action = "ADD" /\ Copy = task.item.copy
      /\ Copy.state \notin Finished
  BY <1>1, WorkerItem
<1>5. PICK c \in Copies : /\ c = [Copy EXCEPT !.path = 0]
                          /\ c.uid = Copy.uid /\ c.state = Copy.state
  <2>1. 0 \in 0 .. MaxJobs  BY BoundAssumption
  <2>2. PICK c \in Copies : c = [Copy EXCEPT !.path = 0]  BY <1>4, <2>1, PathType
  <2>3. c.uid = Copy.uid /\ c.state = Copy.state  BY <1>4, <2>1, <2>2, PathType
  <2> QED  BY <2>2, <2>3
<1>6. c.uid = Copy.uid /\ c.state = Copy.state  BY <1>5
<1>7. task' = [task EXCEPT !.phase = "failed", !.item.copy = c]
  <2>1. task' = [task EXCEPT !.phase = "failed", !.item.copy = [Copy EXCEPT !.path = 0]]
    BY <1>3 DEF Copy
  <2> QED  BY <1>5, <2>1
<1>8. task'.phase = "failed" /\ task'.item = [task.item EXCEPT !.copy = c]
  BY <1>1, <1>4, <1>6, <1>7, GoesOnType
<1>9. task'.item.action = "ADD" /\ task'.item.copy = c  BY <1>4, <1>8, ItemType
<1>10. Single'  BY <1>1, <1>4, <1>6, <1>9, SingleTask DEF Orderly
<1>11. Waiting' = Waiting /\ Held' = Waiting \cup {task'.item}
  BY <1>1, <1>8 DEF Waiting, Held
<1>12. FreshItems'  BY <1>1, <1>3, <1>11 DEF Orderly, FreshItems, Untouched, NeverRan
<1>13. FreshTask'  BY <1>8 DEF FreshTask
<1>14. Rejected'
  <2>1. task.item \in Held /\ Waiting \subseteq Held  BY <1>1 DEF Held
  <2> QED  BY <1>1, <1>3, <1>4, <1>6, <1>9, <1>11, <2>1 DEF Orderly, Rejected, NeverRan
<1>15. Owners'  BY <1>1, <1>3, OwnersKept DEF Orderly
<1> QED  BY <1>10, <1>12, <1>13, <1>14, <1>15 DEF Orderly

\* The outcome of the status update that says that the job runs.
LEMMA OrderlyRunning ==
    ASSUME Inv, Orderly, UNCHANGED faults, MarkRunning
    PROVE  Orderly'
<1>1. TypeInv /\ task.phase = "run" /\ UNCHANGED <<uids, queue, jobs, owner>>
  BY DEF Inv, MarkRunning
<1>2. /\ task.item \in Items /\ Copy \in Copies /\ Copy = task.item.copy
      /\ task.item.name \in Backups /\ task.item.action = "ADD"
  BY <1>1, WorkerItem
<1>3. "running" \in States /\ "running" # "rejected"  BY DEF States
<1>4. PICK m \in Copies : m = Marked(Copy, "running")  BY <1>2, <1>3, MarkedType
<1>5. PICK n \in Copies : n = Stored(Copy, "running")  BY <1>2, <1>3, MarkedType
<1>6. m.uid = Copy.uid  BY <1>2, <1>3, <1>4, MarkedType
<1>7. PICK ok \in BOOLEAN :
        /\ UpdateStatus(Copy, "running", ok)
        /\ IF ok THEN /\ task' = [task EXCEPT !.phase = "wait", !.item.copy = m, !.local = n]
                      /\ UNCHANGED retry
                 ELSE Fail(m)
  BY <1>4, <1>5 DEF MarkRunning
<1>8. /\ ok => Current(Copy) /\ cr'[task.item.name] = n
      /\ ~ok => ~Current(Copy) /\ UNCHANGED cr
      /\ Touch(Copy.uid)
      /\ \A b \in Backups : cr'[b] = cr[b] \/ cr'[b].state = "running"
  BY <1>1, <1>2, <1>3, <1>5, <1>7, CalmStatus
<1>9. \A b \in Backups : cr'[b].state = "rejected" => cr'[b] = cr[b]  BY <1>3, <1>8
<1>10. CASE ~ok
  <2>1. Copy.uid # cr[task.item.name].uid
    BY <1>1, <1>8, <1>10 DEF Orderly, FreshTask, Current
  <2>2. Fail(m) /\ UNCHANGED cr  BY <1>7, <1>8, <1>10
  <2> QED  BY <1>1, <1>2, <1>6, <1>8, <1>9, <2>1, <2>2, OrderlyFail
<1>11. CASE ok
  <2>1. task' = [task EXCEPT !.phase = "wait", !.item.copy = m, !.local = n] /\ UNCHANGED retry
    BY <1>7, <1>11
  <2>2. /\ task'.phase = "wait" /\ task'.item = [task.item EXCEPT !.copy = m]
        /\ task'.local = n
    BY <1>1, <2>1 DEF TypeInv, TypeOK, Tasks
  <2>3. task'.item.action = "ADD" /\ task'.item.name = task.item.name /\ task'.item.copy = m
    BY <1>2, <2>2, ItemType
  <2>4. PICK u : u = Copy.uid  OBVIOUS
  <2>5. Touch(u)  BY <1>8, <2>4
  <2>6. /\ \A b \in Backups : cr[b].state = "rejected" => cr[b].uid # u
        /\ \A i \in Waiting : i.action = "ADD" => i.copy.uid # u
    BY <1>1, <1>2, <2>4, OwnUid DEF Orderly
  <2>7. Single'  BY <1>1, <1>2, <1>6, <2>1, <2>3, SingleTask DEF Orderly
  <2>8. Waiting' = Waiting /\ Held' = Waiting \cup {task'.item}
    BY <1>1, <2>1, <2>2 DEF Waiting, Held
  <2>9. FreshItems'  BY <1>1, <2>5, <2>6, <2>8, FreshKept DEF Orderly
  <2>10. FreshTask'  BY <1>8, <1>11, <2>2, <2>3 DEF FreshTask
  <2>11. \A i \in Held' : i.action = "ADD" => i.copy.uid = u \/ \E j \in Held : Same(i, j)
    BY <1>6, <2>3, <2>4, <2>8 DEF Held, Same
  <2>12. Rejected'  BY <1>9, <2>5, <2>6, <2>11, RejectedKept DEF Orderly
  <2>13. Owners'  BY <1>1, OwnersKept DEF Orderly
  <2> QED  BY <2>7, <2>9, <2>10, <2>12, <2>13 DEF Orderly
<1> QED  BY <1>10, <1>11

\* Every step without a failure or a restart.
LEMMA OrderlyNext ==
    ASSUME Inv, Inv', Orderly, [Next]_vars, UNCHANGED <<faults, crashes>>
    PROVE  Orderly'
<1>1. faults \in Nat /\ crashes \in Nat  BY DEF Inv, TypeInv, TypeOK
<1>2. ~Breaks  BY <1>1 DEF Breaks
<1>3. ~Restart  BY <1>1 DEF Restart
<1>4. ~ApiError /\ ~RemoveFails  BY <1>2 DEF ApiError, RemoveFails
<1>5. ~WaitFails  BY <1>2 DEF WaitFails, Inv, OwnJob
<1>6. ASSUME NEW b \in Backups, CreateBackup(b) \/ DeleteBackup(b) PROVE Orderly'
  BY <1>6, OrderlyCreate, OrderlyDelete
<1>7. CASE IgnoreFinished \/ RemoveFiles
  BY <1>7, ReturnType, OrderlyQuiet DEF IgnoreFinished, RemoveFiles, Inv
<1>8. CASE JobStarts \/ JobEnds \/ JobRemoved \/ JobExpires
  BY <1>8, OrderlyQuiet DEF JobStarts, JobEnds, JobRemoved, JobExpires
<1>9. CASE UNCHANGED vars  BY <1>9, OrderlyQuiet DEF vars
<1>10. CASE RefuseUnnamed \/ MarkFailed \/ RejectDuplicate \/ MarkRunning \/ JobCompleted
  BY <1>10, OrderlyError, OrderlyReject, OrderlyRunning, OrderlyCompleted
<1>11. CASE DeletePrevJob \/ NoPrevJob \/ PrevJobGone \/ CreateJob \/ CreateJobFails
  BY <1>11, OrderlyPhase, OrderlyCreateJob, OrderlyCreateFails
<1>12. CASE Get \/ Requeue  BY <1>12, OrderlyGet, OrderlyRequeue
<1> QED  BY <1>3, <1>4, <1>5, <1>6, <1>7, <1>8, <1>9, <1>10, <1>11, <1>12 DEF Next, Handler

\* Failures and restarts are counted.
LEMMA CalmBefore ==
    ASSUME Inv, [Next]_vars, Calm'
    PROVE  Calm /\ UNCHANGED <<faults, crashes>>
<1>1. faults \in Nat /\ crashes \in Nat  BY DEF Inv, TypeInv, TypeOK
<1>2. UNCHANGED faults \/ Breaks
  <2>1. CASE Handler
    BY <2>1 DEF Handler, IgnoreFinished, RefuseUnnamed, RejectDuplicate, DeletePrevJob,
       NoPrevJob, PrevJobGone, CreateJob, CreateJobFails, MarkFailed, MarkRunning,
       JobCompleted, WaitFails, RemoveFiles, UpdateStatus, Works
  <2>2. CASE \E b \in Backups : CreateBackup(b) \/ DeleteBackup(b)
    BY <2>2 DEF CreateBackup, DeleteBackup
  <2>3. CASE Get \/ Requeue \/ ApiError \/ RemoveFails
    BY <2>3 DEF Get, Requeue, ApiError, RemoveFails
  <2>4. CASE JobStarts \/ JobEnds \/ JobRemoved \/ JobExpires \/ Restart
    BY <2>4 DEF JobStarts, JobEnds, JobRemoved, JobExpires, Restart
  <2>5. CASE UNCHANGED vars  BY <2>5 DEF vars
  <2> QED  BY <2>1, <2>2, <2>3, <2>4, <2>5 DEF Next
<1>3. UNCHANGED crashes \/ Restart
  <2>1. CASE Handler
    BY <2>1 DEF Handler, IgnoreFinished, RefuseUnnamed, RejectDuplicate, DeletePrevJob,
       NoPrevJob, PrevJobGone, CreateJob, CreateJobFails, MarkFailed, MarkRunning,
       JobCompleted, WaitFails, RemoveFiles
  <2>2. CASE \E b \in Backups : CreateBackup(b) \/ DeleteBackup(b)
    BY <2>2 DEF CreateBackup, DeleteBackup
  <2>3. CASE Get \/ Requeue \/ ApiError \/ RemoveFails
    BY <2>3 DEF Get, Requeue, ApiError, RemoveFails
  <2>4. CASE JobStarts \/ JobEnds \/ JobRemoved \/ JobExpires
    BY <2>4 DEF JobStarts, JobEnds, JobRemoved, JobExpires
  <2>5. CASE UNCHANGED vars  BY <2>5 DEF vars
  <2> QED  BY <2>1, <2>2, <2>3, <2>4, <2>5 DEF Next
<1>4. UNCHANGED faults  BY <1>1, <1>2 DEF Breaks, Calm
<1>5. UNCHANGED crashes  BY <1>1, <1>3 DEF Restart, Calm
<1> QED  BY <1>4, <1>5 DEF Calm

\* Without a restart and without failing calls only a backup for which no job was ever
\* created is rejected (handler, the check for an active job): the worker decides on an
\* item whose copy is the present one, and there is one item per object.
THEOREM RejectedNeverRanHolds == Spec => []RejectedNeverRan
<1> DEFINE CInv == Inv /\ (Calm => Orderly)
<1>1. ASSUME Init PROVE CInv
  <2>1. queue = <<>> /\ retry = {} /\ task.phase = "idle" /\ jobs = 0
        /\ cr = [b \in Backups |-> NoCopy]
    BY <1>1 DEF Init, Idle
  <2>2. Single /\ FreshItems  BY <2>1 DEF Single, FreshItems, Waiting
  <2>3. FreshTask /\ Owners  BY <2>1 DEF FreshTask, Owners
  <2>4. Rejected  BY <2>1, CopyType DEF Rejected, Finished
  <2> QED  BY <1>1, <2>2, <2>3, <2>4, InvInit DEF Orderly
<1>2. ASSUME CInv, [Next]_vars PROVE CInv'
  <2>1. Inv /\ Inv'  BY <1>2, InvNext
  <2> QED  BY <1>2, <2>1, CalmBefore, OrderlyNext
<1>3. CInv => RejectedNeverRan
  BY DEF Calm, Orderly, Rejected, NeverRan, RejectedNeverRan
<1> QED  BY <1>1, <1>2, <1>3, PTL DEF Spec

----------------------------------------------------------------------------
(* The restore controller beside the backup controller: the inductive      *)
(* invariant.                                                              *)

\* The dump of job p was complete once: it is never written again, at most removed.
Fixed(p) ==
    /\ p \in 1 .. jobs
    /\ dump[p] \in {"complete", "none"}
    /\ job # NoJob /\ job.id = p => job.st = "succeeded"

RTasks == [phase : {"handler", "job", "create", "failed", "run", "wait"},
           name : Restores, copy : RCopies, local : RCopies, path : 0 .. MaxJobs]

\* Types; the path is that of a dump once the worker has looked at the backup.
RShape ==
    /\ RTypeOK
    /\ rtask # RIdle /\ rtask.phase # "handler" => Fixed(rtask.path)

\* What restore job j is for and what it has read: a job that is done was given a
\* dump that was complete.
LoadSet == [of : Restores, path : 1 .. MaxJobs, got : {"none", "complete"}, done : BOOLEAN,
            runs : Nat, failed : Nat]

LoadOK(j) ==
    /\ load[j] \in LoadSet
    /\ Fixed(load[j].path)
    /\ load[j].done => load[j].got = "complete"
    /\ load[j].runs <= load[j].failed + 1

Loads ==
    /\ load = [j \in 1 .. MaxRJobs |-> load[j]]
    /\ \A j \in 1 .. rjobs : LoadOK(j)
    /\ rjob # RNoJob => /\ rjob.id <= rjobs
                        /\ load[rjob.id].done <=> rjob.st = "succeeded"
                        /\ rjob.st \in {"new", "backoff"} =>
                              load[rjob.id].runs <= load[rjob.id].failed

\* While the worker is about to wait or waits, the job is its own.
ROwnJob ==
    rtask # RIdle /\ rtask.phase \in {"run", "wait"} =>
        rjob # RNoJob /\ ~rjob.deleting /\ load[rjob.id].of = rtask.name

RInv == RShape /\ Loads /\ ROwnJob /\ ReadyMeansLoaded

\* As long as no call fails and the operator is not restarted there is one item for a
\* restore, or the worker has it.
RCalm == crashes = 0 /\ rfaults = 0

RSingle ==
    /\ \A i, k \in rqueue : i.name = k.name => i = k
    /\ rtask # RIdle => \A i \in rqueue : i.name # rtask.name

\* Nothing has happened for an object that has not been created.
Unborn ==
    \A s \in Restores : rcr[s].life = "no" =>
        /\ JobsOf(s) = {} /\ \A i \in rqueue : i.name # s
        /\ rtask # RIdle => rtask.name # s

\* A copy of s that the worker may start from: it is finished, or no job was made for s
\* and it has the version of the object.
FreshCopy(s, c) ==
    /\ c.life = "live" /\ c.named = rcr[s].named
    /\ rcr[s].life = "live" => \/ c.state \in Finished
                               \/ JobsOf(s) = {} /\ (c.named => c.ver = rcr[s].ver)

RFreshItems == \A i \in rqueue : FreshCopy(i.name, i.copy)

RFreshTask ==
    rtask # RIdle =>
        LET s == rtask.name IN
        /\ rtask.phase = "handler" => FreshCopy(s, RCopy)
        /\ RCopy.life = "live" /\ RCopy.named = rcr[s].named
        /\ rtask.phase # "handler" => RCopy.named
        /\ rtask.phase # "handler" /\ rcr[s].life = "live" =>
              /\ rtask.phase \in {"job", "create", "failed"} => JobsOf(s) = {}
              /\ rtask.phase # "wait" => RCopy.ver = rcr[s].ver
              /\ rtask.phase = "wait" => rtask.local.ver = rcr[s].ver
        /\ rtask.phase = "wait" => /\ rtask.local.life = "live"
                                   /\ rtask.local.named = rcr[s].named

\* One job at most.
OneJob == \A s \in Restores : rcr[s].life = "live" => \A j, k \in JobsOf(s) : j = k

ROrderly == RSingle /\ Unborn /\ RFreshItems /\ RFreshTask /\ OneJob

----------------------------------------------------------------------------
(* The restore controller: types.                                          *)

USE DEF rjob_vars

\* What updateStatus makes of a copy of a restore.
LEMMA RMarkedType ==
    ASSUME NEW c \in RCopies, NEW s \in States
    PROVE  /\ Marked(c, s) \in RCopies /\ Stored(c, s) \in RCopies
           /\ Marked(c, s).life = c.life /\ Marked(c, s).named = c.named
           /\ Marked(c, s).ver = c.ver /\ Marked(c, s).state = s
           /\ Stored(c, s).life = c.life /\ Stored(c, s).named = c.named
           /\ Stored(c, s).ver = c.ver + 1 /\ Stored(c, s).state = s
<1>1. /\ Marked(c, s) \in RCopies /\ Marked(c, s).life = c.life /\ Marked(c, s).ver = c.ver
      /\ Marked(c, s).named = c.named /\ Marked(c, s).state = s
  BY DEF Marked, RCopies
<1>2. /\ Stored(c, s) \in RCopies /\ Stored(c, s).life = c.life
      /\ Stored(c, s).named = c.named /\ Stored(c, s).ver = c.ver + 1
      /\ Stored(c, s).state = s
  BY <1>1 DEF Stored, RCopies
<1> QED  BY <1>1, <1>2

\* The worker of the restore controller while it works.
LEMMA RWorker ==
    ASSUME RTypeOK, rtask # RIdle
    PROVE  /\ rtask \in RTasks /\ rtask.name \in Restores /\ rtask.path \in 0 .. MaxJobs
           /\ RCopy = rtask.copy /\ RCopy \in RCopies /\ rtask.local \in RCopies
           /\ rtask.phase \in {"handler", "job", "create", "failed", "run", "wait"}
           /\ \A p \in {"job", "create", "failed", "run", "wait"} :
                 [rtask EXCEPT !.phase = p] \in RTasks
BY DEF RTypeOK, RTasks, RCopy

\* A worker in a phase of handler() works.
LEMMA RBusy ==
    ASSUME NEW p \in {"handler", "job", "create", "failed", "run", "wait"}, RPhase(p)
    PROVE  rtask # RIdle
BY DEF RPhase, RIdle

\* The items of the queue after an error.
LEMMA RFailType ==
    ASSUME RTypeOK, rtask # RIdle, NEW c \in RCopies, RFail(c)
    PROVE  rtask' = RIdle /\ rqueue' \subseteq RItems
BY RWorker DEF RFail, RItems, RTypeOK

\* What a call of UpdateStatus leaves in the API server.
LEMMA RStatusType ==
    ASSUME RTypeOK, rtask # RIdle, NEW c \in RCopies, NEW s \in States,
           NEW ok \in BOOLEAN, RUpdateStatus(c, s, ok)
    PROVE  /\ rcr' \in [Restores -> RCopies] /\ rfaults' \in 0 .. MaxRFaults
           /\ \/ UNCHANGED rcr
              \/ rcr' = [rcr EXCEPT ![rtask.name] = Stored(c, s)]
           /\ ok => rcr' = [rcr EXCEPT ![rtask.name] = Stored(c, s)]
<1>1. Stored(c, s) \in RCopies /\ rtask.name \in Restores  BY RMarkedType, RWorker
<1>2. /\ UNCHANGED rcr \/ rcr' = [rcr EXCEPT ![rtask.name] = Stored(c, s)]
      /\ ok => rcr' = [rcr EXCEPT ![rtask.name] = Stored(c, s)]
  BY DEF RUpdateStatus
<1>3. rfaults' \in 0 .. MaxRFaults
  BY RBoundAssumption DEF RUpdateStatus, RWorks, RBreaks, RTypeOK
<1> QED  BY <1>1, <1>2, <1>3 DEF RTypeOK

----------------------------------------------------------------------------
(* The dumps the restore controller relies on.                             *)

\* A ready backup has a dump that stays as it is.
LEMMA ReadyFixed ==
    ASSUME Inv, NEW b \in Backups, cr[b].state = "ready"
    PROVE  Fixed(cr[b].path)
<1>1. cr[b].path # 0 /\ dump[cr[b].path] = "complete"  BY DEF Inv, ReadyMeansDumped
<1>2. cr[b].path <= jobs  BY <1>1 DEF Inv, ObjectsOK, PathOK
<1>3. cr[b].path \in 0 .. MaxJobs /\ jobs \in Nat
  <2>1. cr[b] \in Copies \cup {NoCopy} /\ jobs \in 0 .. MaxJobs  BY DEF Inv, TypeInv, TypeOK
  <2>2. cr[b] # NoCopy  BY <1>1, CopyType
  <2>3. cr[b].path \in 0 .. MaxJobs  BY <2>1, <2>2, CopyType
  <2> QED  BY <2>1, <2>3, BoundAssumption
<1>4. job # NoJob /\ job.id = cr[b].path => job.st = "succeeded"  BY DEF Inv, ReadyJob
<1> QED  BY <1>1, <1>2, <1>3, <1>4 DEF Fixed

\* The backup controller at most removes it.
LEMMA FixedKept ==
    ASSUME Inv, [Next]_vars, NEW p, Fixed(p)
    PROVE  Fixed(p)'
<1>1. /\ TypeInv /\ jobs \in 0 .. MaxJobs /\ MaxJobs \in Nat /\ p \in 1 .. jobs
      /\ dump \in [1 .. MaxJobs -> {"none", "partial", "complete"}]
      /\ job \in Jobs \cup {NoJob}
  BY BoundAssumption DEF Inv, TypeInv, TypeOK, Fixed
<1>2. ASSUME UNCHANGED <<job, jobs, dump>> PROVE Fixed(p)'  BY <1>2 DEF Fixed
<1>3. ASSUME job # NoJob, job' = [job EXCEPT !.deleting = TRUE], UNCHANGED <<jobs, dump>>
      PROVE  Fixed(p)'
  <2>1. job'.id = job.id /\ job'.st = job.st  BY <1>1, <1>3 DEF Jobs
  <2> QED  BY <1>3, <2>1 DEF Fixed
<1>4. ASSUME NewJob, UNCHANGED dump PROVE Fixed(p)'
  <2>1. jobs' = jobs + 1 /\ job'.id = jobs + 1  BY <1>4 DEF NewJob
  <2> QED  BY <1>1, <1>4, <2>1 DEF Fixed
<1>5. ASSUME NEW st, job.st \in {"new", "active", "backoff"}, JobStep(st), UNCHANGED jobs,
             \A j \in 1 .. MaxJobs : j # job.id => dump'[j] = dump[j]
      PROVE  Fixed(p)'
  <2>1. job \in Jobs /\ job # NoJob  BY <1>1, <1>5 DEF NoJob
  <2>2. job.id # p  BY <1>5, <2>1 DEF Fixed
  <2>3. job'.id = job.id  BY <1>5, <2>1 DEF JobStep, Jobs
  <2> QED  BY <1>1, <1>5, <2>2, <2>3 DEF Fixed
<1>6. CASE \E b \in Backups : CreateBackup(b) \/ DeleteBackup(b)
  BY <1>2, <1>6 DEF CreateBackup, DeleteBackup
<1>7. CASE Get \/ Requeue \/ ApiError \/ RemoveFails \/ Restart \/ UNCHANGED vars
  BY <1>2, <1>7 DEF Get, Requeue, ApiError, RemoveFails, Restart, vars
<1>8. CASE IgnoreFinished \/ RefuseUnnamed \/ RejectDuplicate \/ NoPrevJob \/ PrevJobGone
           \/ MarkFailed \/ MarkRunning \/ JobCompleted \/ WaitFails
  BY <1>2, <1>8 DEF IgnoreFinished, RefuseUnnamed, RejectDuplicate, NoPrevJob, PrevJobGone,
     MarkFailed, MarkRunning, JobCompleted, WaitFails
<1>9. CASE DeletePrevJob \/ JobExpires
  BY <1>3, <1>9 DEF DeletePrevJob, JobExpires, NoJob
<1>10. CASE CreateJob  BY <1>4, <1>10 DEF CreateJob
<1>11. CASE CreateJobFails
  BY <1>2, <1>4, <1>11 DEF CreateJobFails
<1>12. CASE RemoveFiles
  <2>1. UNCHANGED <<job, jobs>> /\ (dump' = dump \/ dump' = [dump EXCEPT ![Copy.path] = "none"])
    BY <1>12 DEF RemoveFiles
  <2>2. dump'[p] \in {dump[p], "none"}  BY <1>1, <2>1
  <2> QED  BY <2>1, <2>2 DEF Fixed
<1>13. CASE JobStarts
  <2>1. \A j \in 1 .. MaxJobs : j # job.id => dump'[j] = dump[j]  BY <1>1, <1>13 DEF JobStarts
  <2> QED  BY <1>5, <1>13, <2>1 DEF JobStarts
<1>14. CASE JobEnds
  <2>1. \A j \in 1 .. MaxJobs : j # job.id => dump'[j] = dump[j]  BY <1>1, <1>14 DEF JobEnds
  <2> QED  BY <1>5, <1>14, <2>1 DEF JobEnds
<1>15. CASE JobRemoved
  <2>1. job' = NoJob /\ UNCHANGED <<jobs, dump>>  BY <1>15 DEF JobRemoved
  <2> QED  BY <2>1 DEF Fixed
<1> QED  BY <1>6, <1>7, <1>8, <1>9, <1>10, <1>11, <1>12, <1>13, <1>14, <1>15 DEF Next, Handler

----------------------------------------------------------------------------
(* The steps of the restore controller.                                    *)

\* The dumps that were fixed are, after a step too.
KeepsFixed == \A p : Fixed(p) => Fixed(p)'

\* The jobs that exist are for the same restores and have read the same.
LEMMA LoadsKept ==
    ASSUME Loads, KeepsFixed, UNCHANGED rjob_vars
    PROVE  Loads'
BY DEF Loads, LoadOK, KeepsFixed

\* A restore that has become ready has been loaded.
LEMMA LoadedKept ==
    ASSUME ReadyMeansLoaded, UNCHANGED <<rjobs, load>>,
           \A s \in Restores : rcr'[s].state = "ready" =>
               \/ rcr[s].state = "ready"
               \/ \E j \in JobsOf(s) : load[j].done /\ load[j].got = "complete"
    PROVE  ReadyMeansLoaded'
BY DEF ReadyMeansLoaded, JobsOf

\* The worker returns, with or without an error.
LEMMA RInvIdle ==
    ASSUME RInv, KeepsFixed, UNCHANGED rjob_vars,
           rtask' = RIdle, rqueue' \subseteq RItems, rfaults' \in 0 .. MaxRFaults,
           rcr' \in [Restores -> RCopies],
           \A s \in Restores : rcr'[s].state = "ready" =>
               \/ rcr[s].state = "ready"
               \/ \E j \in JobsOf(s) : load[j].done /\ load[j].got = "complete"
    PROVE  RInv'
<1>1. RShape'  BY DEF RInv, RShape, RTypeOK
<1>2. Loads'  BY LoadsKept DEF RInv
<1>3. ROwnJob'  BY DEF ROwnJob
<1>4. ReadyMeansLoaded'  BY LoadedKept DEF RInv
<1> QED  BY <1>1, <1>2, <1>3, <1>4 DEF RInv

\* The worker goes on to a phase in which no job is its own.
LEMMA RInvGoto ==
    ASSUME RInv, KeepsFixed, UNCHANGED <<rcr, rqueue, rjob_vars>>, rtask' \in RTasks,
           rtask'.phase \in {"job", "create", "failed"}, Fixed(rtask.path)',
           rfaults' \in 0 .. MaxRFaults
    PROVE  RInv'
<1>1. RTypeOK'  BY DEF RInv, RShape, RTypeOK, RTasks
<1>2. RShape'  BY <1>1 DEF RShape
<1>3. Loads'  BY LoadsKept DEF RInv
<1>4. ROwnJob'  BY DEF ROwnJob
<1>5. ReadyMeansLoaded'  BY LoadedKept DEF RInv
<1> QED  BY <1>2, <1>3, <1>4, <1>5 DEF RInv

\* A status other than ready makes no restore ready.
LEMMA NotReady ==
    ASSUME RTypeOK, rtask # RIdle, NEW c \in RCopies, NEW st \in States, st # "ready",
           NEW ok \in BOOLEAN, RUpdateStatus(c, st, ok)
    PROVE  /\ rcr' \in [Restores -> RCopies] /\ rfaults' \in 0 .. MaxRFaults
           /\ \A s \in Restores : rcr'[s].state = "ready" => rcr[s].state = "ready"
<1>1. /\ rcr' \in [Restores -> RCopies] /\ rfaults' \in 0 .. MaxRFaults
      /\ UNCHANGED rcr \/ rcr' = [rcr EXCEPT ![rtask.name] = Stored(c, st)]
  BY RStatusType
<1>2. Stored(c, st).state = st  BY RMarkedType
<1> QED  BY <1>1, <1>2 DEF RTypeOK

\* A step that ends in an error after such a status.
LEMMA RInvGivesUp ==
    ASSUME RInv, KeepsFixed, UNCHANGED rjob_vars, rtask # RIdle,
           NEW c \in RCopies, NEW st \in States, st # "ready",
           NEW ok \in BOOLEAN, RUpdateStatus(c, st, ok),
           NEW d \in RCopies, RFail(d) \/ RReturn
    PROVE  RInv'
<1>1. RTypeOK  BY DEF RInv, RShape
<1>2. /\ rcr' \in [Restores -> RCopies] /\ rfaults' \in 0 .. MaxRFaults
      /\ \A s \in Restores : rcr'[s].state = "ready" => rcr[s].state = "ready"
  BY <1>1, NotReady
<1>3. rtask' = RIdle /\ rqueue' \subseteq RItems
  <2>1. CASE RFail(d)  BY <1>1, <2>1, RFailType
  <2>2. CASE RReturn  BY <1>1, <2>2 DEF RReturn, RTypeOK
  <2> QED  BY <2>1, <2>2
<1> QED  BY <1>2, <1>3, RInvIdle

\* An error without a status.
LEMMA RInvFails ==
    ASSUME RInv, KeepsFixed, UNCHANGED <<rcr, rjob_vars>>, rtask # RIdle,
           RWorks \/ RBreaks, NEW d \in RCopies, RFail(d) \/ RReturn
    PROVE  RInv'
<1>1. RTypeOK  BY DEF RInv, RShape
<1>2. rcr' \in [Restores -> RCopies] /\ rfaults' \in 0 .. MaxRFaults
  BY <1>1, RBoundAssumption DEF RTypeOK, RWorks, RBreaks
<1>3. rtask' = RIdle /\ rqueue' \subseteq RItems
  <2>1. CASE RFail(d)  BY <1>1, <2>1, RFailType
  <2>2. CASE RReturn  BY <1>1, <2>2 DEF RReturn, RTypeOK
  <2> QED  BY <2>1, <2>2
<1> QED  BY <1>2, <1>3, RInvIdle

\* The parts of a job, and of none.
LEMMA RJobType ==
    ASSUME RTypeOK
    PROVE  /\ rjob # RNoJob => /\ rjob.id \in 1 .. MaxRJobs /\ rjob.tries \in 0 .. MaxBackoffs
                               /\ rjob.deleting \in BOOLEAN
                               /\ rjob.st \in {"new", "active", "backoff", "succeeded", "failed"}
           /\ rjob = RNoJob => rjob.st = "none" /\ rjob.deleting = FALSE
           /\ \A st \in {"new", "active", "backoff", "succeeded", "failed"} :
                 rjob # RNoJob => /\ [rjob EXCEPT !.st = st] # RNoJob
                                  /\ [rjob EXCEPT !.st = st].id = rjob.id
                                  /\ [rjob EXCEPT !.st = st].st = st
                                  /\ [rjob EXCEPT !.st = st].deleting = rjob.deleting
           /\ rjob # RNoJob => /\ [rjob EXCEPT !.deleting = TRUE] # RNoJob
                               /\ [rjob EXCEPT !.deleting = TRUE].id = rjob.id
                               /\ [rjob EXCEPT !.deleting = TRUE].st = rjob.st
BY DEF RTypeOK, RNoJob

\* The steps of handler() that write a status.
LEMMA RInvStatus ==
    ASSUME RInv, KeepsFixed,
           RRefuseUnnamed \/ RRejectDuplicate \/ RMarkFailed \/ RMarkRunning \/ RJobCompleted
    PROVE  RInv'
<1>1. RTypeOK  BY DEF RInv, RShape
<1>2. rtask # RIdle
  BY RBusy DEF RRefuseUnnamed, RRejectDuplicate, RMarkFailed, RMarkRunning, RJobCompleted,
     RStarts
<1>3. /\ RCopy \in RCopies /\ rtask.local \in RCopies /\ rtask.name \in Restores
      /\ Marked(RCopy, "error") \in RCopies /\ Marked(RCopy, "rejected") \in RCopies
      /\ Marked(RCopy, "running") \in RCopies /\ Stored(RCopy, "running") \in RCopies
  <2>1. RCopy \in RCopies /\ rtask.local \in RCopies /\ rtask.name \in Restores
    BY <1>1, <1>2, RWorker
  <2> QED  BY <2>1, RMarkedType DEF States
<1>4. "error" \in States /\ "rejected" \in States /\ "running" \in States  BY DEF States
<1>5. CASE RRefuseUnnamed
  BY <1>2, <1>3, <1>4, <1>5, RInvGivesUp DEF RRefuseUnnamed
<1>6. CASE RRejectDuplicate
  <2>1. PICK ok \in BOOLEAN : /\ RUpdateStatus(RCopy, "rejected", ok)
                              /\ IF ok THEN RReturn ELSE RFail(Marked(RCopy, "rejected"))
    BY <1>6 DEF RRejectDuplicate
  <2>2. UNCHANGED rjob_vars  BY <1>6 DEF RRejectDuplicate
  <2>3. PICK d \in RCopies : d = Marked(RCopy, "rejected")  BY <1>3
  <2>4. RFail(d) \/ RReturn  BY <2>1, <2>3
  <2> QED  BY <1>2, <1>3, <1>4, <2>1, <2>2, <2>4, RInvGivesUp
<1>7. CASE RMarkFailed
  BY <1>2, <1>3, <1>4, <1>7, RInvGivesUp DEF RMarkFailed
<1>8. CASE RMarkRunning
  <2>1. PICK ok \in BOOLEAN :
          /\ RUpdateStatus(RCopy, "running", ok)
          /\ IF ok THEN /\ rtask' = [rtask EXCEPT !.phase = "wait",
                                                  !.copy = Marked(RCopy, "running"),
                                                  !.local = Stored(RCopy, "running")]
                        /\ UNCHANGED rqueue
                   ELSE RFail(Marked(RCopy, "running"))
    BY <1>8 DEF RMarkRunning
  <2>2. UNCHANGED rjob_vars /\ RPhase("run")  BY <1>8 DEF RMarkRunning
  <2>3. PICK d \in RCopies : d = Marked(RCopy, "running")  BY <1>3
  <2>4. PICK e \in RCopies : e = Stored(RCopy, "running")  BY <1>3
  <2>5. CASE ~ok
    <3>1. RFail(d)  BY <2>1, <2>3, <2>5
    <3> QED  BY <1>2, <1>3, <1>4, <2>1, <2>2, <3>1, RInvGivesUp
  <2>6. CASE ok
    <3>1. rtask' = [rtask EXCEPT !.phase = "wait", !.copy = d, !.local = e] /\ UNCHANGED rqueue
      BY <2>1, <2>3, <2>4, <2>6
    <3>2. rtask \in RTasks  BY <1>1, <1>2, RWorker
    <3>3. /\ rtask' \in RTasks /\ rtask'.phase = "wait" /\ rtask'.name = rtask.name
          /\ rtask'.path = rtask.path
      BY <3>1, <3>2 DEF RTasks
    <3>4. /\ rcr' \in [Restores -> RCopies] /\ rfaults' \in 0 .. MaxRFaults
          /\ \A s \in Restores : rcr'[s].state = "ready" => rcr[s].state = "ready"
      BY <1>1, <1>2, <1>3, <1>4, <2>1, NotReady
    <3>5. RTypeOK'  BY <1>1, <2>2, <3>1, <3>3, <3>4 DEF RTypeOK, RTasks
    <3>6. Fixed(rtask.path)  BY <1>2, <2>2 DEF RInv, RShape, RPhase
    <3>7. Fixed(rtask.path)'
      <4>1. PICK p : p = rtask.path  OBVIOUS
      <4>2. Fixed(p)'  BY <3>6, <4>1 DEF KeepsFixed
      <4> QED  BY <3>3, <4>1, <4>2
    <3>8. RShape'  BY <3>5, <3>7 DEF RShape
    <3>9. Loads'  BY <2>2, LoadsKept DEF RInv
    <3>10. ROwnJob'  BY <1>2, <2>2, <3>3 DEF RInv, ROwnJob, RPhase
    <3>11. ReadyMeansLoaded'  BY <2>2, <3>4, LoadedKept DEF RInv
    <3> QED  BY <3>8, <3>9, <3>10, <3>11 DEF RInv
  <2> QED  BY <2>5, <2>6
<1>9. CASE RJobCompleted
  <2>1. PICK st \in {"ready", "error"} : st = Outcome(rjob.st)
    BY <1>9 DEF RJobCompleted, Outcome
  <2>2. PICK ok \in BOOLEAN : /\ RUpdateStatus(rtask.local, st, ok)
                              /\ IF ok THEN RReturn ELSE RFail(RCopy)
    BY <1>9, <2>1 DEF RJobCompleted
  <2>3. UNCHANGED rjob_vars /\ RPhase("wait")  BY <1>9 DEF RJobCompleted
  <2>4. CASE st = "error"
    BY <1>2, <1>3, <1>4, <2>2, <2>3, <2>4, RInvGivesUp
  <2>5. CASE st = "ready"
    <3>1. rjob.st = "succeeded"  BY <2>1, <2>5 DEF Outcome
    <3>2. PICK j : j = rjob.id  OBVIOUS
    <3>3. rjob # RNoJob /\ load[j].of = rtask.name
      BY <1>2, <2>3, <3>2 DEF RInv, ROwnJob, RPhase
    <3>4. j \in 1 .. rjobs /\ load[j].done
      <4>1. rjob.id \in 1 .. MaxRJobs /\ rjobs \in 0 .. MaxRJobs
        BY <1>1, <3>3, RJobType DEF RTypeOK
      <4>2. rjob.id <= rjobs /\ load[rjob.id].done  BY <3>1, <3>3 DEF RInv, Loads
      <4> QED  BY <3>2, <4>1, <4>2
    <3>5. load[j].got = "complete"  BY <3>4 DEF RInv, Loads, LoadOK
    <3>6. j \in JobsOf(rtask.name)  BY <3>3, <3>4 DEF JobsOf
    <3>7. /\ rcr' \in [Restores -> RCopies] /\ rfaults' \in 0 .. MaxRFaults
          /\ UNCHANGED rcr \/ rcr' = [rcr EXCEPT ![rtask.name] = Stored(rtask.local, st)]
      <4>1. st \in States  BY DEF States
      <4> QED  BY <1>1, <1>2, <1>3, <2>2, <4>1, RStatusType
    <3>8. \A s \in Restores : s # rtask.name => rcr'[s] = rcr[s]
      BY <1>1, <3>7 DEF RTypeOK
    <3>9. \A s \in Restores : rcr'[s].state = "ready" =>
               \/ rcr[s].state = "ready"
               \/ \E k \in JobsOf(s) : load[k].done /\ load[k].got = "complete"
      BY <3>4, <3>5, <3>6, <3>8
    <3>10. rtask' = RIdle /\ rqueue' \subseteq RItems
      BY <1>1, <1>2, <1>3, <2>2, RFailType DEF RReturn, RTypeOK
    <3> QED  BY <2>3, <3>7, <3>9, <3>10, RInvIdle
  <2> QED  BY <2>4, <2>5
<1> QED  BY <1>5, <1>6, <1>7, <1>8, <1>9

\* The worker looks at the backup.
LEMMA RInvLookup ==
    ASSUME RInv, Inv, KeepsFixed, LookupBackup
    PROVE  RInv'
<1>1. RTypeOK /\ rtask # RIdle /\ UNCHANGED rjob_vars
  BY RBusy DEF RInv, RShape, LookupBackup, RStarts
<1>2. rtask \in RTasks /\ RCopy \in RCopies  BY <1>1, RWorker
<1>3. PICK b \in Backups : b = RCopy.of  BY <1>2 DEF RCopies
<1>4. CASE cr[b].state # "ready"
  <2>1. RFail(RCopy) /\ RWorks /\ UNCHANGED rcr  BY <1>3, <1>4 DEF LookupBackup
  <2> QED  BY <1>1, <1>2, <2>1, RInvFails
<1>5. CASE cr[b].state = "ready"
  <2>1. Fixed(cr[b].path) /\ cr[b].path # 0
    BY <1>5, ReadyFixed DEF Inv, ReadyMeansDumped
  <2>2. rtask' = [rtask EXCEPT !.phase = "job", !.path = cr[b].path] /\ RWorks
        /\ UNCHANGED <<rqueue, rcr>>
    BY <1>3, <1>5, <2>1 DEF LookupBackup
  <2>3. PICK p : p = cr[b].path  OBVIOUS
  <2>4. p \in 0 .. MaxJobs
    <3>1. p \in 1 .. jobs /\ jobs \in 0 .. MaxJobs
      BY <2>1, <2>3 DEF Fixed, Inv, TypeInv, TypeOK
    <3> QED  BY <3>1, BoundAssumption
  <2>5. rtask' \in RTasks /\ rtask'.phase = "job" /\ rtask'.path = p
    BY <1>2, <2>2, <2>3, <2>4 DEF RTasks
  <2>6. Fixed(p)'  BY <2>1, <2>3 DEF KeepsFixed
  <2>7. Fixed(rtask.path)'  BY <2>5, <2>6
  <2>8. rfaults' \in 0 .. MaxRFaults  BY <1>1, <2>2 DEF RTypeOK, RWorks
  <2> QED  BY <1>1, <2>2, <2>5, <2>7, <2>8, RInvGoto
<1> QED  BY <1>4, <1>5

\* The job object marked as deleted.
LEMMA RJobDeleted ==
    ASSUME RTypeOK, Loads, KeepsFixed, rjob # RNoJob,
           rjob' = [rjob EXCEPT !.deleting = TRUE], UNCHANGED <<rjobs, load>>
    PROVE  Loads' /\ rjob' # RNoJob /\
           rjob' \in [id : 1 .. MaxRJobs, deleting : BOOLEAN, tries : 0 .. MaxBackoffs,
                      st : {"new", "active", "backoff", "succeeded", "failed"}]
<1>1. rjob' # RNoJob /\ rjob'.id = rjob.id /\ rjob'.st = rjob.st  BY RJobType
<1>2. Loads'  BY <1>1 DEF Loads, LoadOK, KeepsFixed
<1> QED  BY <1>1, <1>2 DEF RTypeOK

\* A new job, for the restore at hand.
LEMMA RNewJobType ==
    ASSUME RInv, KeepsFixed, rtask # RIdle, rtask.phase = "create", RNewJob
    PROVE  /\ Loads' /\ rjobs' \in 1 .. MaxRJobs /\ rjobs' = rjobs + 1
           /\ rjob' # RNoJob /\ ~rjob'.deleting /\ rjob'.id = rjobs'
           /\ rjob' \in [id : 1 .. MaxRJobs, deleting : BOOLEAN, tries : 0 .. MaxBackoffs,
                         st : {"new", "active", "backoff", "succeeded", "failed"}]
           /\ load'[rjobs'].of = rtask.name
           /\ \A j \in 1 .. rjobs : load'[j] = load[j]
<1>1. /\ RTypeOK /\ Loads /\ rtask.name \in Restores /\ Fixed(rtask.path)
  BY RWorker DEF RInv, RShape
<1>2. rjobs' = rjobs + 1 /\ rjobs' \in 1 .. MaxRJobs /\ rjobs \in Nat
  BY <1>1, RBoundAssumption DEF RTypeOK, RNewJob
<1>3. rjob' = [id |-> rjobs', st |-> "new", deleting |-> FALSE, tries |-> 0]
  BY <1>2 DEF RNewJob, RNoJob
<1>4. /\ rjob' # RNoJob /\ ~rjob'.deleting /\ rjob'.id = rjobs' /\ rjob'.st = "new"
      /\ rjob' \in [id : 1 .. MaxRJobs, deleting : BOOLEAN, tries : 0 .. MaxBackoffs,
                    st : {"new", "active", "backoff", "succeeded", "failed"}]
  BY <1>2, <1>3, BoundAssumption DEF RNoJob
<1>5. PICK l : l = [NoLoad EXCEPT !.of = rtask.name, !.path = rtask.path]  OBVIOUS
<1>6. load' = [load EXCEPT ![rjobs'] = l]  BY <1>2, <1>5 DEF RNewJob
<1>7. load'[rjobs'] = l /\ \A j \in 1 .. rjobs : load'[j] = load[j]
  BY <1>1, <1>2, <1>6 DEF Loads
<1>8. PICK p : p = rtask.path  OBVIOUS
<1>9. p \in 1 .. MaxJobs
  BY <1>1, <1>8, RWorker, BoundAssumption DEF Fixed
<1>10. Fixed(p)'  BY <1>1, <1>8 DEF KeepsFixed
<1>11. /\ l \in LoadSet
       /\ l.path = p /\ l.of = rtask.name /\ l.done = FALSE /\ l.runs = 0 /\ l.failed = 0
  BY <1>1, <1>5, <1>8, <1>9 DEF NoLoad, LoadSet
<1>12. ASSUME NEW j \in 1 .. rjobs' PROVE LoadOK(j)'
  <2>1. CASE j = rjobs'  BY <1>7, <1>10, <1>11, <2>1 DEF LoadOK
  <2>2. CASE j # rjobs'
    <3>1. j \in 1 .. rjobs  BY <1>2, <2>2
    <3>2. LoadOK(j) /\ load'[j] = load[j]  BY <1>1, <1>7, <3>1 DEF Loads
    <3> QED  BY <3>2 DEF LoadOK, KeepsFixed
  <2> QED  BY <2>1, <2>2
<1>13. load' = [j \in 1 .. MaxRJobs |-> load'[j]]  BY <1>1, <1>6 DEF Loads
<1>14. Loads'  BY <1>2, <1>4, <1>7, <1>11, <1>12, <1>13 DEF Loads
<1> QED  BY <1>2, <1>4, <1>7, <1>11, <1>14

\* The fixed dump of the worker when it only changes its phase.
LEMMA RPhaseType ==
    ASSUME RInv, KeepsFixed, rtask # RIdle, rtask.phase # "handler",
           NEW p \in {"job", "create", "failed", "run", "wait"}, RGoto(p)
    PROVE  /\ rtask' \in RTasks /\ rtask'.phase = p /\ rtask'.name = rtask.name
           /\ rtask'.copy = rtask.copy /\ rtask'.local = rtask.local
           /\ Fixed(rtask.path)' /\ UNCHANGED rqueue
<1>1. RTypeOK /\ Fixed(rtask.path)  BY DEF RInv, RShape
<1>2. rtask \in RTasks  BY <1>1, RWorker
<1>3. rtask' = [rtask EXCEPT !.phase = p] /\ UNCHANGED rqueue  BY DEF RGoto
<1>4. /\ rtask' \in RTasks /\ rtask'.phase = p /\ rtask'.name = rtask.name
      /\ rtask'.copy = rtask.copy /\ rtask'.local = rtask.local /\ rtask'.path = rtask.path
  BY <1>2, <1>3 DEF RTasks
<1>5. PICK q : q = rtask.path  OBVIOUS
<1>6. Fixed(q)'  BY <1>1, <1>5 DEF KeepsFixed
<1>7. Fixed(rtask.path)'  BY <1>4, <1>5, <1>6
<1> QED  BY <1>3, <1>4, <1>7

\* A restore stays ready when jobs are added.
LEMMA LoadedGrows ==
    ASSUME RTypeOK, ReadyMeansLoaded, UNCHANGED rcr, rjobs' = rjobs + 1,
           \A j \in 1 .. rjobs : load'[j] = load[j]
    PROVE  ReadyMeansLoaded'
<1> SUFFICES ASSUME NEW s \in Restores, rcr'[s].state = "ready"
             PROVE  \E j \in JobsOf(s)' : load'[j].done /\ load'[j].got = "complete"
  BY DEF ReadyMeansLoaded
<1>1. PICK j \in JobsOf(s) : load[j].done /\ load[j].got = "complete"
  BY DEF ReadyMeansLoaded
<1>2. j \in 1 .. rjobs /\ load[j].of = s  BY DEF JobsOf
<1>3. j \in 1 .. rjobs'  BY <1>2 DEF RTypeOK
<1>4. j \in JobsOf(s)'  BY <1>2, <1>3 DEF JobsOf
<1> QED  BY <1>1, <1>2, <1>4

\* The steps of handler() around the job.
LEMMA RInvJob ==
    ASSUME RInv, KeepsFixed,
           RIgnoreFinished \/ RApiError \/ RDeletePrevJob \/ RNoPrevJob
           \/ RCreateJob \/ RCreateJobFails \/ RWaitFails
    PROVE  RInv'
<1>1. RTypeOK /\ Loads  BY DEF RInv, RShape
<1>2. rtask # RIdle
  BY RBusy DEF RIgnoreFinished, RApiError, RDeletePrevJob, RNoPrevJob, RCreateJob,
     RCreateJobFails, RWaitFails, RStarts
<1>3. RCopy \in RCopies  BY <1>1, <1>2, RWorker
<1>4. CASE RIgnoreFinished
  BY <1>2, <1>3, <1>4, RInvFails DEF RIgnoreFinished, RWorks
<1>5. CASE RApiError  BY <1>2, <1>3, <1>5, RInvFails DEF RApiError
<1>6. CASE RWaitFails  BY <1>2, <1>3, <1>6, RInvFails DEF RWaitFails
<1>7. CASE RDeletePrevJob
  <2>1. /\ rtask.phase = "job" /\ RGoto("create") /\ UNCHANGED <<rcr, rjobs, load, rfaults>>
        /\ rjob # RNoJob /\ rjob' = [rjob EXCEPT !.deleting = TRUE]
    BY <1>7 DEF RDeletePrevJob, RPhase, RNoJob
  <2>2. /\ rtask' \in RTasks /\ rtask'.phase = "create" /\ Fixed(rtask.path)'
        /\ UNCHANGED rqueue
    BY <1>2, <2>1, RPhaseType
  <2>3. Loads' /\ rjob' \in [id : 1 .. MaxRJobs, deleting : BOOLEAN, tries : 0 .. MaxBackoffs,
                             st : {"new", "active", "backoff", "succeeded", "failed"}]
    BY <1>1, <2>1, RJobDeleted
  <2>4. RTypeOK'  BY <1>1, <2>1, <2>2, <2>3 DEF RTypeOK, RTasks
  <2>5. RShape' /\ ROwnJob'  BY <2>2, <2>4 DEF RShape, ROwnJob
  <2>6. ReadyMeansLoaded'  BY <2>1, LoadedKept DEF RInv
  <2> QED  BY <2>3, <2>5, <2>6 DEF RInv
<1>8. CASE RNoPrevJob
  <2>1. rtask.phase = "job" /\ RGoto("create") /\ UNCHANGED <<rcr, rjob_vars, rfaults>>
    BY <1>8 DEF RNoPrevJob, RPhase
  <2>2. /\ rtask' \in RTasks /\ rtask'.phase = "create" /\ Fixed(rtask.path)'
        /\ UNCHANGED rqueue
    BY <1>2, <2>1, RPhaseType
  <2>3. rfaults' \in 0 .. MaxRFaults  BY <1>1, <2>1 DEF RTypeOK
  <2> QED  BY <2>1, <2>2, <2>3, RInvGoto
<1>9. ASSUME RPhase("create"), NEW p \in {"run", "failed"}, RGoto(p), RNewJob, UNCHANGED rcr,
             rfaults' \in 0 .. MaxRFaults
      PROVE  RInv'
  <2>1. rtask.phase = "create"  BY <1>9 DEF RPhase
  <2>2. /\ rtask' \in RTasks /\ rtask'.phase = p /\ Fixed(rtask.path)'
        /\ rtask'.name = rtask.name /\ UNCHANGED rqueue
    BY <1>2, <1>9, <2>1, RPhaseType
  <2>3. /\ Loads' /\ rjobs' \in 1 .. MaxRJobs /\ rjobs' = rjobs + 1
        /\ rjob' # RNoJob /\ ~rjob'.deleting /\ rjob'.id = rjobs'
        /\ rjob' \in [id : 1 .. MaxRJobs, deleting : BOOLEAN, tries : 0 .. MaxBackoffs,
                      st : {"new", "active", "backoff", "succeeded", "failed"}]
        /\ load'[rjobs'].of = rtask.name
        /\ \A j \in 1 .. rjobs : load'[j] = load[j]
    BY <1>2, <1>9, <2>1, RNewJobType
  <2>4. RTypeOK'  BY <1>1, <1>9, <2>2, <2>3, RBoundAssumption DEF RTypeOK, RTasks
  <2>5. RShape'  BY <2>2, <2>4 DEF RShape
  <2>6. ROwnJob'  BY <2>2, <2>3 DEF ROwnJob
  <2>7. ReadyMeansLoaded'  BY <1>1, <1>9, <2>3, LoadedGrows DEF RInv
  <2> QED  BY <2>3, <2>5, <2>6, <2>7 DEF RInv
<1>10. CASE RCreateJob
  BY <1>1, <1>9, <1>10 DEF RCreateJob, RTypeOK
<1>11. CASE RCreateJobFails
  <2>1. RPhase("create") /\ RGoto("failed") /\ UNCHANGED rcr  BY <1>11 DEF RCreateJobFails
  <2>2. rfaults' \in 0 .. MaxRFaults
    BY <1>1, <1>11, RBoundAssumption DEF RCreateJobFails, RTypeOK, RWorks, RBreaks
  <2>3. RNewJob \/ UNCHANGED rjob_vars  BY <1>11 DEF RCreateJobFails
  <2>4. CASE RNewJob  BY <1>9, <2>1, <2>2, <2>4
  <2>5. CASE UNCHANGED rjob_vars
    <3>1. rtask.phase = "create"  BY <2>1 DEF RPhase
    <3>2. /\ rtask' \in RTasks /\ rtask'.phase = "failed" /\ Fixed(rtask.path)'
          /\ UNCHANGED rqueue
      BY <1>2, <2>1, <3>1, RPhaseType
    <3> QED  BY <2>1, <2>2, <2>5, <3>2, RInvGoto
  <2> QED  BY <2>3, <2>4, <2>5
<1> QED  BY <1>4, <1>5, <1>6, <1>7, <1>8, <1>10, <1>11

\* The steps of the job: what it reads is a dump that was complete.
LEMMA RInvKubernetes ==
    ASSUME RInv, KeepsFixed, UNCHANGED dump, RJobStarts \/ RJobEnds \/ RJobRemoved \/ RJobExpires
    PROVE  RInv'
<1> DEFINE JobSet == [id : 1 .. MaxRJobs, deleting : BOOLEAN, tries : 0 .. MaxBackoffs,
                      st : {"new", "active", "backoff", "succeeded", "failed"}]
<1>1. RTypeOK /\ Loads /\ UNCHANGED <<rcr, rqueue, rtask, rjobs, rfaults>>
  BY DEF RInv, RShape, RJobStarts, RJobEnds, RJobRemoved, RJobExpires
<1>2. rjob \in JobSet \/ rjob = RNoJob  BY <1>1 DEF RTypeOK
<1>3. ASSUME Loads', rjob' = RNoJob \/ rjob' \in JobSet, ROwnJob', ReadyMeansLoaded'
      PROVE  RInv'
  <2>1. RTypeOK'  BY <1>1, <1>3 DEF RTypeOK
  <2>2. rtask # RIdle /\ rtask.phase # "handler" => Fixed(rtask.path)'
    <3>1. PICK q : q = rtask.path  OBVIOUS
    <3>2. Fixed(q) => Fixed(q)'  BY DEF KeepsFixed
    <3> QED  BY <1>1, <3>1, <3>2 DEF RInv, RShape
  <2>3. RShape'  BY <1>1, <2>1, <2>2 DEF RShape
  <2> QED  BY <1>3, <2>3 DEF RInv
<1>4. CASE RJobRemoved
  <2>1. rjob.deleting /\ rjob' = RNoJob /\ UNCHANGED load  BY <1>4 DEF RJobRemoved
  <2>2. Loads'  BY <1>1, <2>1 DEF Loads, LoadOK, KeepsFixed
  <2>3. ROwnJob'  BY <1>1, <2>1 DEF RInv, ROwnJob
  <2>4. ReadyMeansLoaded'  BY <1>1, <2>1, LoadedKept DEF RInv
  <2> QED  BY <1>3, <2>1, <2>2, <2>3, <2>4
<1>5. CASE RJobExpires
  <2>1. /\ rjob # RNoJob /\ rtask = RIdle /\ rjob' = [rjob EXCEPT !.deleting = TRUE]
        /\ UNCHANGED load
    BY <1>5 DEF RJobExpires, RNoJob
  <2>2. Loads' /\ rjob' \in JobSet  BY <1>1, <2>1, RJobDeleted
  <2>3. ROwnJob'  BY <1>1, <2>1 DEF ROwnJob
  <2>4. ReadyMeansLoaded'  BY <1>1, <2>1, LoadedKept DEF RInv
  <2> QED  BY <1>3, <2>2, <2>3, <2>4
<1>6. ASSUME rjob.st \in {"new", "active", "backoff"},
             NEW st \in {"active", "succeeded", "failed", "backoff"},
             NEW t \in 0 .. MaxBackoffs, rjob' = [rjob EXCEPT !.st = st, !.tries = t],
             NEW k, k = rjob.id,
             NEW l, load' = [load EXCEPT ![k] = l],
             l.of = load[k].of, l.path = load[k].path,
             l \in LoadSet,
             l.done => l.got = "complete", l.done <=> st = "succeeded",
             l.runs <= l.failed + 1, st = "backoff" => l.runs <= l.failed
      PROVE  RInv'
  <2>1. rjob \in JobSet /\ rjob # RNoJob  BY <1>2, <1>6 DEF RNoJob
  <2>2. /\ rjob' \in JobSet /\ rjob'.id = k /\ rjob'.st = st /\ rjob'.deleting = rjob.deleting
        /\ rjob' # RNoJob
    BY <1>6, <2>1 DEF RNoJob
  <2>3. k \in 1 .. rjobs /\ rjobs \in 0 .. MaxRJobs /\ k \in 1 .. MaxRJobs
    BY <1>1, <1>6, <2>1 DEF Loads, RTypeOK
  <2>4. load'[k] = l /\ \A j \in 1 .. rjobs : j # k => load'[j] = load[j]
    BY <1>1, <1>6, <2>3 DEF Loads
  <2>5. ~load[k].done  BY <1>1, <1>6, <2>1 DEF Loads
  <2>6. ASSUME NEW j \in 1 .. rjobs' PROVE LoadOK(j)'
    <3>1. j \in 1 .. rjobs /\ LoadOK(j)  BY <1>1, <2>6 DEF Loads
    <3>2. Fixed(load[j].path)'
      <4>1. PICK q : q = load[j].path  OBVIOUS
      <4>2. Fixed(q)'  BY <3>1, <4>1 DEF LoadOK, KeepsFixed
      <4>3. load'[j].path = q  BY <1>6, <2>4, <3>1, <4>1
      <4> QED  BY <4>2, <4>3
    <3>3. CASE j = k  BY <1>6, <2>4, <3>2, <3>3 DEF LoadOK
    <3>4. CASE j # k
      <4>1. load'[j] = load[j]  BY <2>4, <3>1, <3>4
      <4> QED  BY <3>1, <3>2, <4>1 DEF LoadOK
    <3> QED  BY <3>3, <3>4
  <2>7. load' = [j \in 1 .. MaxRJobs |-> load'[j]]  BY <1>1, <1>6 DEF Loads
  <2>8. Loads'  BY <1>1, <1>6, <2>2, <2>3, <2>4, <2>6, <2>7 DEF Loads
  <2>9. ROwnJob'  BY <1>1, <1>6, <2>2, <2>4 DEF RInv, ROwnJob
  <2>10. \A j \in 1 .. rjobs : load'[j].of = load[j].of /\ (load[j].done => load'[j] = load[j])
    BY <1>6, <2>4, <2>5
  <2>11. ReadyMeansLoaded'
    BY <1>1, <2>10 DEF RInv, ReadyMeansLoaded, JobsOf
  <2> QED  BY <1>3, <2>2, <2>8, <2>9, <2>11
<1>7. ASSUME rjob.st \in {"new", "active", "backoff"}
      PROVE  /\ rjob \in JobSet /\ rjob.id \in 1 .. rjobs /\ LoadOK(rjob.id)
             /\ load[rjob.id].done = FALSE
  <2>1. rjob \in JobSet /\ rjob # RNoJob  BY <1>2, <1>7 DEF RNoJob
  <2>2. rjob.id \in 1 .. rjobs  BY <1>1, <2>1 DEF Loads, RTypeOK
  <2>3. LoadOK(rjob.id) /\ ~load[rjob.id].done  BY <1>1, <1>7, <2>1, <2>2 DEF Loads
  <2> QED  BY <2>1, <2>2, <2>3 DEF LoadOK
<1>8. CASE RJobStarts
  <2>1. PICK k : k = rjob.id  OBVIOUS
  <2>2. PICK g : g = dump[load[k].path]  OBVIOUS
  <2>3. PICK l : l = [load[k] EXCEPT !.got = g, !.runs = @ + 1]  OBVIOUS
  <2>4. rjob.st \in {"new", "backoff"} /\ rjob' = [rjob EXCEPT !.st = "active"]
    BY <1>8 DEF RJobStarts
  <2>5. load' = [load EXCEPT ![k] = l]  BY <1>8, <2>1, <2>2, <2>3 DEF RJobStarts
  <2>6. rjob \in JobSet /\ k \in 1 .. rjobs /\ LoadOK(k) /\ load[k].done = FALSE
    BY <1>7, <2>1, <2>4
  <2>7. g \in {"none", "complete"}  BY <2>2, <2>6 DEF LoadOK, Fixed
  <2>8. rjob # RNoJob /\ load[k].runs <= load[k].failed
    BY <1>1, <2>1, <2>4 DEF Loads, RNoJob
  <2>9. PICK m \in LoadSet : m = load[k] /\ ~m.done /\ m.runs <= m.failed
    BY <2>6, <2>8 DEF LoadOK
  <2>10. PICK n \in Nat : n = m.runs + 1 /\ n <= m.failed + 1  BY <2>9 DEF LoadSet
  <2>11. l = [m EXCEPT !.got = g, !.runs = n]  BY <2>3, <2>9, <2>10
  <2>12. /\ l \in LoadSet /\ l.runs = n /\ l.failed = m.failed
         /\ l.of = m.of /\ l.path = m.path /\ l.done = m.done
    BY <2>7, <2>11 DEF LoadSet
  <2>13. rjob.tries \in 0 .. MaxBackoffs
        /\ rjob' = [rjob EXCEPT !.st = "active", !.tries = rjob.tries]
    BY <2>4, <2>6
  <2> HIDE DEF JobSet
  <2> QED  BY <1>6, <2>1, <2>4, <2>5, <2>9, <2>10, <2>12, <2>13
<1>9. CASE RJobEnds
  <2>1. PICK k : k = rjob.id  OBVIOUS
  <2>2. rjob.st = "active"  BY <1>9 DEF RJobEnds
  <2>3. rjob \in JobSet /\ k \in 1 .. rjobs /\ LoadOK(k) /\ load[k].done = FALSE
    BY <1>7, <2>1, <2>2
  <2>4. CASE /\ load[rjob.id].got # "none" /\ rjob' = [rjob EXCEPT !.st = "succeeded"]
             /\ load' = [load EXCEPT ![rjob.id].done = TRUE]
    <3>1. PICK l : l = [load[k] EXCEPT !.done = TRUE]  OBVIOUS
    <3>2. load' = [load EXCEPT ![k] = l]  BY <2>1, <2>4, <3>1
    <3>3. /\ l \in LoadSet
          /\ l.of = load[k].of /\ l.path = load[k].path /\ l.done = TRUE
          /\ l.got = "complete" /\ l.runs <= l.failed + 1
      BY <2>1, <2>3, <2>4, <3>1 DEF LoadOK, LoadSet
    <3>4. rjob.tries \in 0 .. MaxBackoffs
          /\ rjob' = [rjob EXCEPT !.st = "succeeded", !.tries = rjob.tries]
      BY <2>3, <2>4
    <3> QED  BY <1>6, <2>1, <2>2, <3>2, <3>3, <3>4
  <2>5. ASSUME load' = [load EXCEPT ![rjob.id].failed = @ + 1], NEW st \in {"failed", "backoff"}, NEW t \in 0 .. MaxBackoffs,
               rjob' = [rjob EXCEPT !.st = st, !.tries = t]
        PROVE  RInv'
    <3>1. PICK l : l = [load[k] EXCEPT !.failed = @ + 1]  OBVIOUS
    <3>4. load' = [load EXCEPT ![k] = l]  BY <2>1, <2>5, <3>1
    <3>5. /\ l \in LoadSet
          /\ l.done = FALSE /\ l.of = load[k].of /\ l.path = load[k].path
          /\ l.runs <= l.failed /\ l.failed \in Nat /\ l.runs \in Nat
      BY <2>3, <3>1 DEF LoadOK, LoadSet
    <3>6. st # "succeeded" /\ st \in {"active", "succeeded", "failed", "backoff"}
          /\ rjob.st \in {"new", "active", "backoff"}
      BY <2>2
    <3>7. l.of = load[k].of /\ l.path = load[k].path  BY <3>5
    <3>8. rjob' = [rjob EXCEPT !.st = st, !.tries = t]  BY <2>5
    <3>9. /\ (l.done => l.got = "complete") /\ (l.done <=> st = "succeeded")
          /\ l.runs <= l.failed /\ l.runs <= l.failed + 1
      BY <3>5, <3>6
    <3>10. l \in LoadSet  BY <3>5
    <3> HIDE DEF JobSet
    <3> QED  BY <1>6, <2>1, <3>4, <3>6, <3>7, <3>8, <3>9, <3>10
  <2>6. CASE rjob' = [rjob EXCEPT !.st = "failed"] /\ load' = [load EXCEPT ![rjob.id].failed = @ + 1]
    <3>1. rjob.tries \in 0 .. MaxBackoffs
          /\ rjob' = [rjob EXCEPT !.st = "failed", !.tries = rjob.tries]
      BY <2>3, <2>6
    <3> QED  BY <2>5, <2>6, <3>1
  <2>7. CASE /\ rjob.tries < MaxBackoffs
             /\ rjob' = [rjob EXCEPT !.st = "backoff", !.tries = @ + 1]
             /\ load' = [load EXCEPT ![rjob.id].failed = @ + 1]
    <3>1. PICK t \in 0 .. MaxBackoffs : t = rjob.tries + 1
      BY <2>3, <2>7, BoundAssumption
    <3> QED  BY <2>5, <2>7, <3>1
  <2> QED  BY <1>9, <2>4, <2>6, <2>7 DEF RJobEnds
<1> QED  BY <1>4, <1>5, <1>8, <1>9

\* Objects, the queue, a restart, and a step of the backup controller.
LEMMA RInvObjects ==
    ASSUME RInv, KeepsFixed,
           \/ \E s \in Restores : CreateRestore(s) \/ DeleteRestore(s) \/ RGet(s)
           \/ RRestart
           \/ UNCHANGED rvars
    PROVE  RInv'
<1>1. RTypeOK /\ Loads /\ UNCHANGED rjob_vars
  BY DEF RInv, RShape, CreateRestore, DeleteRestore, RGet, RRestart, rvars
<1>2. Loads'  BY <1>1, LoadsKept
<1>3. UNCHANGED rfaults
  BY DEF CreateRestore, DeleteRestore, RGet, RRestart, rvars
<1>4. ASSUME UNCHANGED rtask PROVE ROwnJob' /\ (RTypeOK' => RShape')
  <2>1. rtask # RIdle /\ rtask.phase # "handler" => Fixed(rtask.path)'
    <3>1. PICK q : q = rtask.path  OBVIOUS
    <3>2. Fixed(q) => Fixed(q)'  BY DEF KeepsFixed
    <3> QED  BY <1>4, <3>1, <3>2 DEF RInv, RShape
  <2>2. ROwnJob'  BY <1>1, <1>4 DEF RInv, ROwnJob
  <2> QED  BY <1>4, <2>1, <2>2 DEF RShape
<1>5. ASSUME NEW s \in Restores, CreateRestore(s) PROVE RInv'
  <2>1. PICK named \in BOOLEAN, b \in Backups :
          /\ rcr' = [rcr EXCEPT ![s] = [rcr[s] EXCEPT !.life = "live", !.named = named, !.of = b]]
          /\ rqueue' = rqueue \cup {[name |-> s, copy |-> [rcr[s] EXCEPT !.life = "live",
                                                              !.named = named, !.of = b]]}
    BY <1>5 DEF CreateRestore
  <2>2. PICK c : c = [rcr[s] EXCEPT !.life = "live", !.named = named, !.of = b]  OBVIOUS
  <2>3. rcr[s] \in RCopies  BY <1>1 DEF RTypeOK
  <2>4. c \in RCopies /\ c.state = rcr[s].state  BY <2>2, <2>3 DEF RCopies
  <2>5. rcr' = [rcr EXCEPT ![s] = c] /\ rqueue' = rqueue \cup {[name |-> s, copy |-> c]}
    BY <2>1, <2>2
  <2>6. rcr' \in [Restores -> RCopies] /\ rqueue' \subseteq RItems
    BY <1>1, <2>4, <2>5 DEF RTypeOK, RItems
  <2>7. UNCHANGED rtask  BY <1>5 DEF CreateRestore
  <2>8. RTypeOK'  BY <1>1, <1>3, <2>6, <2>7 DEF RTypeOK
  <2>9. \A t \in Restores : rcr'[t].state = rcr[t].state  BY <1>1, <2>4, <2>5 DEF RTypeOK
  <2>10. ReadyMeansLoaded'  BY <1>1, <2>9, LoadedKept DEF RInv
  <2> QED  BY <1>2, <1>4, <2>7, <2>8, <2>10 DEF RInv
<1>6. ASSUME NEW s \in Restores, DeleteRestore(s) PROVE RInv'
  <2>1. rcr' = [rcr EXCEPT ![s] = [rcr[s] EXCEPT !.life = "gone"]] /\ UNCHANGED <<rqueue, rtask>>
    BY <1>6 DEF DeleteRestore
  <2>2. PICK c : c = [rcr[s] EXCEPT !.life = "gone"]  OBVIOUS
  <2>3. rcr[s] \in RCopies  BY <1>1 DEF RTypeOK
  <2>4. c \in RCopies /\ c.state = rcr[s].state  BY <2>2, <2>3 DEF RCopies
  <2>5. rcr' \in [Restores -> RCopies] /\ \A t \in Restores : rcr'[t].state = rcr[t].state
    BY <1>1, <2>1, <2>2, <2>4 DEF RTypeOK
  <2>6. RTypeOK'  BY <1>1, <1>3, <2>1, <2>5 DEF RTypeOK
  <2>7. ReadyMeansLoaded'  BY <1>1, <2>5, LoadedKept DEF RInv
  <2> QED  BY <1>2, <1>4, <2>1, <2>6, <2>7 DEF RInv
<1>7. ASSUME NEW s \in Restores, RGet(s) PROVE RInv'
  <2>1. PICK i \in rqueue : /\ i.name = s /\ rqueue' = rqueue \ {i}
                            /\ rtask' = [phase |-> "handler", name |-> s, copy |-> i.copy,
                                         local |-> i.copy, path |-> 0]
    BY <1>7 DEF RGet
  <2>2. i \in RItems /\ UNCHANGED rcr  BY <1>1, <1>7 DEF RTypeOK, RGet
  <2>3. i.copy \in RCopies  BY <2>2 DEF RItems
  <2>4. rtask' \in RTasks /\ rtask'.phase = "handler"
    BY <2>1, <2>3, BoundAssumption DEF RTasks
  <2>5. RTypeOK'  BY <1>1, <1>3, <2>1, <2>2, <2>4 DEF RTypeOK, RTasks
  <2>6. RShape' /\ ROwnJob'  BY <2>4, <2>5 DEF RShape, ROwnJob
  <2>7. ReadyMeansLoaded'  BY <1>1, <2>2, LoadedKept DEF RInv
  <2> QED  BY <1>2, <2>6, <2>7 DEF RInv
<1>8. CASE RRestart
  <2>1. /\ rtask' = RIdle /\ UNCHANGED rcr
        /\ rqueue' = {[name |-> s, copy |-> rcr[s]] : s \in {t \in Restores : rcr[t].life = "live"}}
    BY <1>8 DEF RRestart
  <2>2. rqueue' \subseteq RItems  BY <1>1, <2>1 DEF RTypeOK, RItems
  <2>3. rcr' \in [Restores -> RCopies] /\ rfaults' \in 0 .. MaxRFaults
    BY <1>1, <1>3, <2>1 DEF RTypeOK
  <2> QED  BY <1>1, <2>1, <2>2, <2>3, RInvIdle
<1>9. CASE UNCHANGED rvars
  <2>1. UNCHANGED <<rcr, rqueue, rtask>>  BY <1>9 DEF rvars
  <2>2. RTypeOK'  BY <1>1, <1>3, <2>1 DEF RTypeOK
  <2>3. ReadyMeansLoaded'  BY <1>1, <2>1, LoadedKept DEF RInv
  <2> QED  BY <1>2, <1>4, <2>1, <2>2, <2>3 DEF RInv
<1> QED  BY <1>5, <1>6, <1>7, <1>8, <1>9

\* To the backup controller, a step of the restore controller is a stuttering step.
LEMMA RNextNext == ASSUME [RNext]_all_vars PROVE [Next]_vars
BY DEF RNext, Next, all_vars

\* Every step keeps the invariant.
LEMMA RInvNext ==
    ASSUME Inv, RInv, [RNext]_all_vars
    PROVE  RInv'
<1>1. KeepsFixed  BY RNextNext, FixedKept DEF KeepsFixed
<1>2. CASE Next /\ UNCHANGED rvars  BY <1>1, <1>2, RInvObjects
<1>3. CASE RRestart  BY <1>1, <1>3, RInvObjects
<1>4. CASE \E s \in Restores : CreateRestore(s) \/ DeleteRestore(s) \/ RGet(s)
  BY <1>1, <1>4, RInvObjects
<1>5. CASE RHandler
  BY <1>1, <1>5, RInvStatus, RInvLookup, RInvJob DEF RHandler
<1>6. CASE RApiError  BY <1>1, <1>6, RInvJob
<1>7. CASE (RJobStarts \/ RJobEnds \/ RJobRemoved \/ RJobExpires) /\ UNCHANGED vars
  <2>1. UNCHANGED dump  BY <1>7 DEF vars
  <2> QED  BY <1>1, <1>7, <2>1, RInvKubernetes
<1>8. CASE UNCHANGED all_vars
  <2>1. UNCHANGED rvars  BY <1>8 DEF all_vars
  <2> QED  BY <1>1, <2>1, RInvObjects
<1> QED  BY <1>2, <1>3, <1>4, <1>5, <1>6, <1>7, <1>8 DEF RNext

\* The initial state.
LEMMA RInvInit == RInit => RInv
<1> SUFFICES ASSUME RInit PROVE RInv  OBVIOUS
<1>1. /\ rqueue = {} /\ rtask = RIdle /\ rjob = RNoJob /\ rjobs = 0 /\ rfaults = 0
      /\ load = [j \in 1 .. MaxRJobs |-> NoLoad]
      /\ rcr = [s \in Restores |-> [life |-> "no", ver |-> 0, state |-> "", named |-> TRUE,
                                    of |-> CHOOSE b \in Backups : TRUE]]
  BY DEF RInit
<1>2. PICK b \in Backups : b = CHOOSE d \in Backups : TRUE  BY RNamesAssumption
<1>3. PICK c : c = [life |-> "no", ver |-> 0, state |-> "", named |-> TRUE, of |-> b]  OBVIOUS
<1>4. c \in RCopies /\ c.state # "ready"  BY <1>3 DEF RCopies, States
<1>5. rcr = [s \in Restores |-> c]  BY <1>1, <1>2, <1>3
<1>6. RTypeOK
  <2>1. rcr \in [Restores -> RCopies]  BY <1>4, <1>5
  <2>2. 0 \in 0 .. MaxRJobs /\ 0 \in 0 .. MaxRFaults  BY RBoundAssumption
  <2> QED  BY <1>1, <2>1, <2>2 DEF RTypeOK
<1>7. RShape /\ ROwnJob  BY <1>1, <1>6 DEF RShape, ROwnJob
<1>8. Loads
  <2>1. PICK l : l = NoLoad  OBVIOUS
  <2>2. load = [j \in 1 .. MaxRJobs |-> load[j]]  BY <1>1, <2>1
  <2>3. rjobs = 0 /\ rjob = RNoJob  BY <1>1
  <2>4. \A j \in 1 .. rjobs : FALSE  BY <2>3
  <2> QED  BY <2>2, <2>3, <2>4 DEF Loads
<1>9. ReadyMeansLoaded  BY <1>4, <1>5 DEF ReadyMeansLoaded
<1> QED  BY <1>7, <1>8, <1>9 DEF RInv

----------------------------------------------------------------------------
(* A restore is carried out once.                                          *)

\* The jobs of every restore are the same after a step.
SameJobs == \A s \in Restores : JobsOf(s)' = JobsOf(s)

\* The jobs are the same when none is made.
LEMMA JobsKept ==
    ASSUME UNCHANGED rjobs, \A j \in 1 .. rjobs : load'[j].of = load[j].of
    PROVE  SameJobs
BY DEF SameJobs, JobsOf

\* Only the restore at hand may have changed, and exists as before.
RTouch ==
    /\ \A s \in Restores : s # rtask.name => rcr'[s] = rcr[s]
    /\ rcr'[rtask.name].life = rcr[rtask.name].life
    /\ rcr'[rtask.name].named = rcr[rtask.name].named

\* What a step says of the objects that it leaves alone.
LEMMA OthersKept ==
    ASSUME RTypeOK, ROrderly, SameJobs, rtask # RIdle, RTouch
    PROVE  /\ OneJob' /\ \A i \in rqueue : FreshCopy(i.name, i.copy)'
           /\ \A s \in Restores : rcr'[s].life = "no" =>
                /\ rcr[s].life = "no" /\ s # rtask.name /\ JobsOf(s)' = {}
                /\ \A i \in rqueue : i.name # s
<1>1. rtask.name \in Restores /\ \A i \in rqueue : i.name \in Restores
  BY RWorker DEF RTypeOK, RItems
<1>2. \A s \in Restores : rcr'[s].life = rcr[s].life /\ rcr'[s].named = rcr[s].named
  BY <1>1 DEF RTouch
<1>3. OneJob'  BY <1>2 DEF ROrderly, OneJob, SameJobs
<1>4. ASSUME NEW i \in rqueue PROVE FreshCopy(i.name, i.copy)'
  <2>1. i.name # rtask.name /\ FreshCopy(i.name, i.copy)
    BY <1>4 DEF ROrderly, RSingle, RFreshItems
  <2>2. rcr'[i.name] = rcr[i.name] /\ JobsOf(i.name)' = JobsOf(i.name)
    BY <1>1, <1>4, <2>1 DEF RTouch, SameJobs
  <2> QED  BY <2>1, <2>2 DEF FreshCopy
<1>5. ASSUME NEW s \in Restores, rcr'[s].life = "no"
      PROVE  /\ rcr[s].life = "no" /\ s # rtask.name /\ JobsOf(s)' = {}
             /\ \A i \in rqueue : i.name # s
  BY <1>2, <1>5 DEF ROrderly, Unborn, SameJobs
<1> QED  BY <1>3, <1>4, <1>5

\* The item goes back to the queue.
LEMMA ROrderlyFail ==
    ASSUME RTypeOK, ROrderly, SameJobs, rtask # RIdle, RTouch, NEW c \in RCopies, RFail(c),
           NEW s, s = rtask.name, FreshCopy(s, c)'
    PROVE  ROrderly'
<1>1. rtask' = RIdle /\ rqueue' = rqueue \cup {[name |-> s, copy |-> c]}  BY DEF RFail
<1>2. PICK n : n = [name |-> s, copy |-> c]  OBVIOUS
<1>3. n.name = s /\ n.copy = c /\ rqueue' = rqueue \cup {n}  BY <1>1, <1>2
<1>4. RSingle'  BY <1>1, <1>3 DEF ROrderly, RSingle
<1>5. Unborn'  BY <1>1, <1>3, OthersKept DEF Unborn
<1>6. RFreshItems'
  <2> SUFFICES ASSUME NEW i \in rqueue' PROVE FreshCopy(i.name, i.copy)'
    BY DEF RFreshItems
  <2>1. CASE i \in rqueue  BY <2>1, OthersKept
  <2>2. CASE i = n  BY <1>3, <2>2
  <2> QED  BY <1>3, <2>1, <2>2
<1>7. RFreshTask'  BY <1>1 DEF RFreshTask
<1> QED  BY <1>4, <1>5, <1>6, <1>7, OthersKept DEF ROrderly

\* The item is done with.
LEMMA ROrderlyReturn ==
    ASSUME RTypeOK, ROrderly, SameJobs, rtask # RIdle, RTouch, RReturn
    PROVE  ROrderly'
<1>1. rtask' = RIdle /\ rqueue' = rqueue  BY DEF RReturn
<1>2. RSingle'  BY <1>1 DEF ROrderly, RSingle
<1>3. Unborn'  BY <1>1, OthersKept DEF Unborn
<1>4. RFreshItems'  BY <1>1, OthersKept DEF RFreshItems
<1>5. RFreshTask'  BY <1>1 DEF RFreshTask
<1> QED  BY <1>2, <1>3, <1>4, <1>5, OthersKept DEF ROrderly

\* The worker goes on with the item.
LEMMA ROrderlyGoesOn ==
    ASSUME RTypeOK, ROrderly, SameJobs, rtask # RIdle, RTouch, UNCHANGED rqueue,
           rtask'.name = rtask.name, RFreshTask'
    PROVE  ROrderly'
<1>1. RSingle'  BY DEF ROrderly, RSingle
<1>2. Unborn'  BY OthersKept DEF Unborn
<1>3. RFreshItems'  BY OthersKept DEF RFreshItems
<1> QED  BY <1>1, <1>2, <1>3, OthersKept DEF ROrderly

\* A call of UpdateStatus that does not break: it fails because the copy is not current.
LEMMA RCalmStatus ==
    ASSUME RTypeOK, rtask # RIdle, rfaults' = rfaults, NEW c \in RCopies, NEW st \in States,
           NEW ok \in BOOLEAN, RUpdateStatus(c, st, ok),
           c.life = "live", NEW s, s = rtask.name, c.named = rcr[s].named
    PROVE  /\ RTouch
           /\ ok => rcr'[s].ver = Stored(c, st).ver
           /\ ~ok => UNCHANGED rcr /\ (rcr[s].life = "live" => rcr[s].ver # c.ver)
<1>1. s \in Restores /\ rcr \in [Restores -> RCopies]  BY RWorker DEF RTypeOK
<1>2. ~RBreaks  BY DEF RBreaks, RTypeOK
<1>3. PICK n : n = Stored(c, st)  OBVIOUS
<1>4. n.life = "live" /\ n.named = rcr[s].named  BY <1>3, RMarkedType
<1>5. \/ ok /\ rcr[s].life = "live" /\ rcr' = [rcr EXCEPT ![s] = n]
      \/ ~ok /\ UNCHANGED rcr /\ ~(rcr[s].life = "live" /\ rcr[s].ver = c.ver)
  BY <1>2, <1>3 DEF RUpdateStatus
<1>6. CASE ok /\ rcr[s].life = "live" /\ rcr' = [rcr EXCEPT ![s] = n]
  <2>1. rcr'[s] = n /\ \A t \in Restores : t # s => rcr'[t] = rcr[t]  BY <1>1, <1>6
  <2> QED  BY <1>3, <1>4, <1>6, <2>1 DEF RTouch
<1>7. CASE ~ok /\ UNCHANGED rcr /\ ~(rcr[s].life = "live" /\ rcr[s].ver = c.ver)
  BY <1>7 DEF RTouch
<1> QED  BY <1>5, <1>6, <1>7

\* A copy that says the restore is finished is fresh.
LEMMA FinishedFresh ==
    ASSUME NEW s, NEW c, c.life = "live", c.named = rcr'[s].named, c.state \in Finished
    PROVE  FreshCopy(s, c)'
BY DEF FreshCopy

\* The steps of handler() that write a status, when no call fails.
LEMMA ROrderlyStatus ==
    ASSUME RInv, ROrderly, UNCHANGED rfaults,
           RRefuseUnnamed \/ RRejectDuplicate \/ RMarkFailed \/ RMarkRunning \/ RJobCompleted
    PROVE  ROrderly'
<1>1. RTypeOK  BY DEF RInv, RShape
<1>2. rtask # RIdle
  BY RBusy DEF RRefuseUnnamed, RRejectDuplicate, RMarkFailed, RMarkRunning, RJobCompleted,
     RStarts
<1>3. PICK s : s = rtask.name  OBVIOUS
<1>4. PICK c \in RCopies : c = RCopy  BY <1>1, <1>2, RWorker
<1>5. /\ s \in Restores /\ rtask.local \in RCopies /\ rtask \in RTasks /\ rtask.copy = c
  BY <1>1, <1>2, <1>3, <1>4, RWorker
<1>6. c.life = "live" /\ c.named = rcr[s].named
  BY <1>2, <1>3, <1>4 DEF ROrderly, RFreshTask
<1>7. UNCHANGED rjob_vars
  BY DEF RRefuseUnnamed, RRejectDuplicate, RMarkFailed, RMarkRunning, RJobCompleted
<1>8. SameJobs  BY <1>7, JobsKept
<1>9. /\ "error" \in States /\ "rejected" \in States /\ "running" \in States
      /\ "ready" \in States /\ "error" \in Finished /\ "rejected" \in Finished
  BY DEF States, Finished
<1>10. ASSUME NEW st \in States, st \in Finished, RTouch, NEW d \in RCopies,
              d = Marked(c, st), RFail(d)
       PROVE  ROrderly'
  <2>1. d.life = "live" /\ d.named = rcr'[s].named /\ d.state \in Finished
    BY <1>3, <1>6, <1>10, RMarkedType DEF RTouch
  <2>2. FreshCopy(s, d)'  BY <2>1, FinishedFresh
  <2> QED  BY <1>1, <1>2, <1>3, <1>8, <1>10, <2>2, ROrderlyFail
<1>11. CASE RRefuseUnnamed
  <2>1. PICK ok \in BOOLEAN : RUpdateStatus(c, "error", ok)  BY <1>4, <1>11 DEF RRefuseUnnamed
  <2>2. RTouch  BY <1>1, <1>2, <1>3, <1>6, <1>9, <2>1, RCalmStatus
  <2>3. RFail(c) /\ ~c.named /\ c.state \notin Finished /\ rtask.phase = "handler"
    BY <1>4, <1>11 DEF RRefuseUnnamed, RStarts, RPhase
  <2>4. FreshCopy(s, c)  BY <1>2, <1>3, <1>4, <2>3 DEF ROrderly, RFreshTask
  <2>5. /\ rcr'[s].life = rcr[s].life /\ rcr'[s].named = rcr[s].named
        /\ JobsOf(s)' = JobsOf(s)
    BY <1>3, <1>5, <1>8, <2>2 DEF RTouch, SameJobs
  <2>6. FreshCopy(s, c)'  BY <2>3, <2>4, <2>5 DEF FreshCopy
  <2> QED  BY <1>1, <1>2, <1>3, <1>8, <2>2, <2>3, <2>6, ROrderlyFail
<1>12. CASE RRejectDuplicate
  <2>1. PICK d \in RCopies : d = Marked(c, "rejected")  BY <1>9, RMarkedType
  <2>2. PICK ok \in BOOLEAN : RUpdateStatus(c, "rejected", ok)
                              /\ (IF ok THEN RReturn ELSE RFail(d))
    BY <1>4, <1>12, <2>1 DEF RRejectDuplicate
  <2>3. RTouch  BY <1>1, <1>2, <1>3, <1>6, <1>9, <2>2, RCalmStatus
  <2>4. CASE RReturn  BY <1>1, <1>2, <1>8, <2>3, <2>4, ROrderlyReturn
  <2>5. CASE RFail(d)  BY <1>9, <1>10, <2>1, <2>3, <2>5
  <2> QED  BY <2>2, <2>4, <2>5
<1>13. CASE RMarkFailed
  <2>1. PICK d \in RCopies : d = Marked(c, "error")  BY <1>9, RMarkedType
  <2>2. PICK ok \in BOOLEAN : RUpdateStatus(c, "error", ok)  BY <1>4, <1>13 DEF RMarkFailed
  <2>3. RTouch  BY <1>1, <1>2, <1>3, <1>6, <1>9, <2>2, RCalmStatus
  <2>4. RFail(d)  BY <1>4, <1>13, <2>1 DEF RMarkFailed
  <2> QED  BY <1>9, <1>10, <2>1, <2>3, <2>4
<1>14. CASE RMarkRunning
  <2>1. PICK d \in RCopies : d = Marked(c, "running")  BY <1>9, RMarkedType
  <2>2. PICK e \in RCopies : e = Stored(c, "running")  BY <1>9, RMarkedType
  <2>3. PICK ok \in BOOLEAN :
          /\ RUpdateStatus(c, "running", ok)
          /\ IF ok THEN /\ rtask' = [rtask EXCEPT !.phase = "wait", !.copy = d, !.local = e]
                        /\ UNCHANGED rqueue
                   ELSE RFail(d)
    BY <1>4, <1>14, <2>1, <2>2 DEF RMarkRunning
  <2>4. rtask.phase = "run"  BY <1>14 DEF RMarkRunning, RPhase
  <2>5. /\ RTouch
        /\ ok => rcr'[s].ver = e.ver
        /\ ~ok => UNCHANGED rcr /\ (rcr[s].life = "live" => rcr[s].ver # c.ver)
    BY <1>1, <1>2, <1>3, <1>6, <1>9, <2>2, <2>3, RCalmStatus
  <2>6. rcr'[s].life = rcr[s].life /\ rcr'[s].named = rcr[s].named
    BY <1>3, <2>5 DEF RTouch
  <2>7. /\ d.life = "live" /\ d.named = rcr'[s].named
        /\ e.life = "live" /\ e.named = rcr'[s].named
    <3>1. "running" \in States  BY <1>9
    <3>2. d.life = c.life /\ d.named = c.named  BY <2>1, <3>1, RMarkedType
    <3>3. e.life = c.life /\ e.named = c.named  BY <2>2, <3>1, RMarkedType
    <3> QED  BY <1>6, <2>6, <3>2, <3>3
  <2>8. rcr[s].life = "live" => c.ver = rcr[s].ver
    BY <1>2, <1>3, <1>4, <2>4 DEF ROrderly, RFreshTask
  <2>9. CASE ~ok
    <3>1. rcr'[s].life # "live"  BY <2>5, <2>8, <2>9
    <3>2. FreshCopy(s, d)'  BY <2>7, <3>1 DEF FreshCopy
    <3>3. RFail(d)  BY <2>3, <2>9
    <3> QED  BY <1>1, <1>2, <1>3, <1>8, <2>5, <3>2, <3>3, ROrderlyFail
  <2>10. CASE ok
    <3>1. rtask' = [rtask EXCEPT !.phase = "wait", !.copy = d, !.local = e] /\ UNCHANGED rqueue
      BY <2>3, <2>10
    <3>2. /\ rtask'.phase = "wait" /\ rtask'.copy = d /\ rtask'.local = e /\ rtask'.name = s
      BY <1>3, <1>5, <3>1 DEF RTasks
    <3>3. c.named  BY <1>2, <1>4, <2>4 DEF ROrderly, RFreshTask
    <3>4. d.named  BY <1>6, <2>6, <2>7, <3>3
    <3>5. RFreshTask'  BY <2>5, <2>7, <2>10, <3>2, <3>4 DEF RFreshTask, RCopy
    <3> QED  BY <1>1, <1>2, <1>3, <1>8, <2>5, <3>1, <3>2, <3>5, ROrderlyGoesOn
  <2> QED  BY <2>9, <2>10
<1>15. CASE RJobCompleted
  <2>1. PICK st \in {"ready", "error"} : st = Outcome(rjob.st)
    BY <1>15 DEF RJobCompleted, Outcome
  <2>2. PICK e \in RCopies : e = rtask.local  BY <1>5
  <2>3. PICK ok \in BOOLEAN : /\ RUpdateStatus(e, st, ok)
                              /\ IF ok THEN RReturn ELSE RFail(c)
    BY <1>4, <1>15, <2>1, <2>2 DEF RJobCompleted
  <2>4. rtask.phase = "wait"  BY <1>15 DEF RJobCompleted, RPhase
  <2>5. /\ e.life = "live" /\ e.named = rcr[s].named
        /\ rcr[s].life = "live" => e.ver = rcr[s].ver
    BY <1>2, <1>3, <2>2, <2>4 DEF ROrderly, RFreshTask
  <2>6. st \in States  BY DEF States
  <2>7. /\ RTouch
        /\ ~ok => UNCHANGED rcr /\ (rcr[s].life = "live" => rcr[s].ver # e.ver)
    BY <1>1, <1>2, <1>3, <2>3, <2>5, <2>6, RCalmStatus
  <2>8. CASE ok  BY <1>1, <1>2, <1>8, <2>3, <2>7, <2>8, ROrderlyReturn
  <2>9. CASE ~ok
    <3>1. rcr'[s].life # "live" /\ rcr'[s].named = rcr[s].named  BY <2>5, <2>7, <2>9
    <3>2. FreshCopy(s, c)'  BY <1>6, <3>1 DEF FreshCopy
    <3>3. RFail(c)  BY <2>3, <2>9
    <3> QED  BY <1>1, <1>2, <1>3, <1>8, <2>7, <3>2, <3>3, ROrderlyFail
  <2> QED  BY <2>8, <2>9
<1> QED  BY <1>11, <1>12, <1>13, <1>14, <1>15

\* The other steps of handler(), when no call fails.
LEMMA ROrderlyHandler ==
    ASSUME Inv, RInv, ROrderly, KeepsFixed, UNCHANGED rfaults,
           RIgnoreFinished \/ LookupBackup \/ RDeletePrevJob \/ RNoPrevJob \/ RCreateJobFails
    PROVE  ROrderly'
<1>1. RTypeOK  BY DEF RInv, RShape
<1>2. rtask # RIdle
  BY RBusy DEF RIgnoreFinished, LookupBackup, RDeletePrevJob, RNoPrevJob, RCreateJobFails,
     RStarts
<1>3. PICK s : s = rtask.name  OBVIOUS
<1>4. PICK c \in RCopies : c = RCopy  BY <1>1, <1>2, RWorker
<1>5. s \in Restores /\ rtask \in RTasks /\ rtask.copy = c
  BY <1>1, <1>2, <1>3, <1>4, RWorker
<1>6. ~RBreaks  BY <1>1 DEF RBreaks, RTypeOK
<1>7. UNCHANGED <<rjobs, load>>
  BY <1>6 DEF RIgnoreFinished, LookupBackup, RDeletePrevJob, RNoPrevJob, RCreateJobFails
<1>8. SameJobs  BY <1>7, JobsKept
<1>9. RTypeOK /\ rtask # RIdle /\ s = rtask.name  BY <1>1, <1>2, <1>3
<1>10. UNCHANGED rcr => RTouch  BY DEF RTouch
<1>11. ASSUME NEW p \in {"job", "create", "failed"}, rtask'.phase = p, rtask'.name = s,
              rtask'.copy = c, UNCHANGED <<rcr, rqueue>>,
              c.life = "live", c.named = rcr[s].named, c.named,
              rcr[s].life = "live" => JobsOf(s) = {} /\ c.ver = rcr[s].ver
       PROVE  ROrderly'
  <2>1. JobsOf(s)' = JobsOf(s)  BY <1>5, <1>8 DEF SameJobs
  <2>2. RFreshTask'  BY <1>11, <2>1 DEF RFreshTask, RCopy
  <2> QED  BY <1>8, <1>9, <1>10, <1>11, <2>2, ROrderlyGoesOn
<1>12. CASE RIgnoreFinished
  BY <1>8, <1>9, <1>10, <1>12, ROrderlyReturn DEF RIgnoreFinished
<1>13. CASE LookupBackup
  <2>1. rtask.phase = "handler" /\ c.state \notin Finished /\ c.named
    BY <1>4, <1>13 DEF LookupBackup, RStarts, RPhase
  <2>2. FreshCopy(s, c)  BY <1>2, <1>3, <1>4, <2>1 DEF ROrderly, RFreshTask
  <2>3. PICK b \in Backups : b = RCopy.of  BY <1>4 DEF RCopies
  <2>4. CASE cr[b].state # "ready"
    <3>1. RFail(RCopy) /\ UNCHANGED rcr  BY <1>13, <2>3, <2>4 DEF LookupBackup
    <3>2. RFail(c) /\ rcr'[s] = rcr[s] /\ JobsOf(s)' = JobsOf(s)
      BY <1>4, <1>5, <1>8, <3>1 DEF SameJobs
    <3>3. FreshCopy(s, c)'  BY <2>2, <3>2 DEF FreshCopy
    <3> QED  BY <1>8, <1>9, <1>10, <3>1, <3>2, <3>3, ROrderlyFail
  <2>5. CASE cr[b].state = "ready"
    <3>1. cr[b].path # 0  BY <2>5 DEF Inv, ReadyMeansDumped
    <3>2. rtask' = [rtask EXCEPT !.phase = "job", !.path = cr[b].path] /\ UNCHANGED <<rqueue, rcr>>
      BY <1>13, <2>3, <2>5, <3>1 DEF LookupBackup
    <3>3. rtask'.phase = "job" /\ rtask'.name = s /\ rtask'.copy = c
      BY <1>3, <1>5, <3>2 DEF RTasks
    <3>4. /\ c.life = "live" /\ c.named = rcr[s].named
          /\ rcr[s].life = "live" => JobsOf(s) = {} /\ c.ver = rcr[s].ver
      BY <2>1, <2>2 DEF FreshCopy
    <3> QED  BY <1>11, <2>1, <3>2, <3>3, <3>4
  <2> QED  BY <2>4, <2>5
<1>14. ASSUME NEW q \in {"job", "create"}, rtask.phase = q,
              NEW p \in {"job", "create", "failed"}, RGoto(p), UNCHANGED rcr
       PROVE  ROrderly'
  <2>1. /\ c.life = "live" /\ c.named = rcr[s].named /\ c.named
        /\ rcr[s].life = "live" => JobsOf(s) = {} /\ c.ver = rcr[s].ver
    BY <1>2, <1>3, <1>4, <1>14 DEF ROrderly, RFreshTask
  <2>2. rtask' = [rtask EXCEPT !.phase = p] /\ UNCHANGED rqueue  BY <1>14 DEF RGoto
  <2>3. rtask'.phase = p /\ rtask'.name = s /\ rtask'.copy = c
    BY <1>3, <1>5, <2>2 DEF RTasks
  <2> QED  BY <1>11, <1>14, <2>1, <2>2, <2>3
<1>15. CASE RDeletePrevJob \/ RNoPrevJob
  BY <1>14, <1>15 DEF RDeletePrevJob, RNoPrevJob, RPhase
<1>16. CASE RCreateJobFails  BY <1>14, <1>16 DEF RCreateJobFails, RPhase
<1> QED  BY <1>12, <1>13, <1>15, <1>16

\* The job of a restore that had none.
LEMMA ROrderlyCreateJob ==
    ASSUME RInv, ROrderly, KeepsFixed, RCreateJob
    PROVE  ROrderly'
<1>1. RTypeOK /\ RPhase("create") /\ rtask.phase = "create" /\ UNCHANGED rcr
  BY DEF RInv, RShape, RCreateJob, RPhase
<1>2. rtask # RIdle  BY <1>1, RBusy
<1>3. PICK s \in Restores : s = rtask.name  BY <1>1, <1>2, RWorker
<1>4. PICK c \in RCopies : c = RCopy  BY <1>1, <1>2, RWorker
<1>5. /\ rtask'.phase = "run" /\ rtask'.name = s /\ rtask'.copy = c /\ UNCHANGED rqueue
      /\ rtask' \in RTasks
  BY <1>1, <1>2, <1>3, <1>4, RPhaseType DEF RCreateJob, RCopy
<1>6. /\ rjobs' = rjobs + 1 /\ load'[rjobs'].of = s
      /\ \A j \in 1 .. rjobs : load'[j] = load[j]
  BY <1>1, <1>2, <1>3, RNewJobType DEF RCreateJob
<1>7. rjobs \in Nat  BY <1>1, RBoundAssumption DEF RTypeOK
<1>8. \A t \in Restores : t # s => JobsOf(t)' = JobsOf(t)
  BY <1>6, <1>7 DEF JobsOf
<1>9. JobsOf(s)' = JobsOf(s) \cup {rjobs'}  BY <1>6, <1>7 DEF JobsOf
<1>10. /\ c.life = "live" /\ c.named = rcr[s].named /\ c.named
       /\ rcr[s].life = "live" => JobsOf(s) = {} /\ c.ver = rcr[s].ver
  BY <1>1, <1>2, <1>3, <1>4 DEF ROrderly, RFreshTask
<1>11. OneJob'
  <2> SUFFICES ASSUME NEW t \in Restores, rcr'[t].life = "live",
                      NEW j \in JobsOf(t)', NEW k \in JobsOf(t)'
               PROVE  j = k
    BY DEF OneJob
  <2>1. CASE t = s  BY <1>1, <1>9, <1>10, <2>1
  <2>2. CASE t # s  BY <1>1, <1>8, <2>2 DEF ROrderly, OneJob
  <2> QED  BY <2>1, <2>2
<1>12. rtask' # RIdle  BY <1>5 DEF RIdle
<1>13. RSingle'  BY <1>2, <1>3, <1>5 DEF ROrderly, RSingle
<1>14. Unborn'
  <2> SUFFICES ASSUME NEW t \in Restores, rcr'[t].life = "no"
               PROVE  /\ JobsOf(t)' = {} /\ \A i \in rqueue' : i.name # t
                      /\ rtask'.name # t
    BY DEF Unborn
  <2>1. rcr[t].life = "no"  BY <1>1
  <2>2. t # s /\ JobsOf(t) = {} /\ \A i \in rqueue : i.name # t
    BY <1>2, <1>3, <2>1 DEF ROrderly, Unborn
  <2> QED  BY <1>5, <1>8, <2>2
<1>15. RFreshItems'
  <2> SUFFICES ASSUME NEW i \in rqueue PROVE FreshCopy(i.name, i.copy)'
    BY <1>5 DEF RFreshItems
  <2>1. i.name \in Restores  BY <1>1 DEF RTypeOK, RItems
  <2>2. i.name # s /\ FreshCopy(i.name, i.copy)
    BY <1>2, <1>3 DEF ROrderly, RSingle, RFreshItems
  <2>3. JobsOf(i.name)' = JobsOf(i.name) /\ rcr' = rcr  BY <1>1, <1>8, <2>1, <2>2
  <2> QED  BY <2>2, <2>3 DEF FreshCopy
<1>16. RFreshTask'  BY <1>1, <1>5, <1>10 DEF RFreshTask, RCopy
<1> QED  BY <1>11, <1>13, <1>14, <1>15, <1>16 DEF ROrderly

\* An object is created.
LEMMA ROrderlyCreate ==
    ASSUME RInv, ROrderly, NEW s \in Restores, CreateRestore(s)
    PROVE  ROrderly'
<1>1. RTypeOK /\ rcr[s].life = "no" /\ UNCHANGED <<rtask, rjob_vars>>
  BY DEF RInv, RShape, CreateRestore
<1>2. PICK c : /\ c.life = "live" /\ c.named \in BOOLEAN
               /\ rcr' = [rcr EXCEPT ![s] = c] /\ rqueue' = rqueue \cup {[name |-> s, copy |-> c]}
  <2>1. PICK named \in BOOLEAN, b \in Backups :
          /\ rcr' = [rcr EXCEPT ![s] = [rcr[s] EXCEPT !.life = "live", !.named = named, !.of = b]]
          /\ rqueue' = rqueue \cup {[name |-> s, copy |-> [rcr[s] EXCEPT !.life = "live",
                                                              !.named = named, !.of = b]]}
    BY DEF CreateRestore
  <2>2. PICK c : c = [rcr[s] EXCEPT !.life = "live", !.named = named, !.of = b]  OBVIOUS
  <2>3. rcr[s] \in RCopies  BY <1>1 DEF RTypeOK
  <2>4. c.life = "live" /\ c.named \in BOOLEAN  BY <2>2, <2>3 DEF RCopies
  <2> QED  BY <2>1, <2>2, <2>4
<1>3. rcr'[s] = c /\ \A t \in Restores : t # s => rcr'[t] = rcr[t]
  BY <1>1, <1>2 DEF RTypeOK
<1>4. PICK n : n = [name |-> s, copy |-> c]  OBVIOUS
<1>5. n.name = s /\ n.copy = c /\ rqueue' = rqueue \cup {n}  BY <1>2, <1>4
<1>6. SameJobs  BY <1>1, JobsKept
<1>7. /\ JobsOf(s) = {} /\ \A i \in rqueue : i.name # s
      /\ rtask # RIdle => rtask.name # s
  BY <1>1 DEF ROrderly, Unborn
<1>8. RSingle'  BY <1>1, <1>5, <1>7 DEF ROrderly, RSingle
<1>9. Unborn'
  <2> SUFFICES ASSUME NEW t \in Restores, rcr'[t].life = "no"
               PROVE  /\ JobsOf(t)' = {} /\ \A i \in rqueue' : i.name # t
                      /\ rtask' # RIdle => rtask'.name # t
    BY DEF Unborn
  <2>1. t # s /\ rcr[t].life = "no"  BY <1>2, <1>3
  <2> QED  BY <1>1, <1>5, <1>6, <2>1 DEF ROrderly, Unborn, SameJobs
<1>10. RFreshItems'
  <2> SUFFICES ASSUME NEW i \in rqueue' PROVE FreshCopy(i.name, i.copy)'
    BY DEF RFreshItems
  <2>1. CASE i = n
    <3>1. JobsOf(s)' = {}  BY <1>6, <1>7 DEF SameJobs
    <3> QED  BY <1>2, <1>3, <1>5, <2>1, <3>1 DEF FreshCopy
  <2>2. CASE i \in rqueue
    <3>1. i.name \in Restores /\ i.name # s  BY <1>1, <1>7, <2>2 DEF RTypeOK, RItems
    <3>2. FreshCopy(i.name, i.copy)  BY <2>2 DEF ROrderly, RFreshItems
    <3>3. rcr'[i.name] = rcr[i.name] /\ JobsOf(i.name)' = JobsOf(i.name)
      BY <1>3, <1>6, <3>1 DEF SameJobs
    <3> QED  BY <3>2, <3>3 DEF FreshCopy
  <2> QED  BY <1>5, <2>1, <2>2
<1>11. RFreshTask'
  <2> SUFFICES ASSUME rtask # RIdle PROVE RFreshTask'  BY <1>1 DEF RFreshTask
  <2>1. PICK t \in Restores : t = rtask.name  BY <1>1, RWorker
  <2>2. rcr'[t] = rcr[t] /\ JobsOf(t)' = JobsOf(t)  BY <1>3, <1>6, <1>7, <2>1 DEF SameJobs
  <2> QED  BY <1>1, <2>1, <2>2 DEF ROrderly, RFreshTask, FreshCopy, RCopy
<1>12. OneJob'
  <2> SUFFICES ASSUME NEW t \in Restores, rcr'[t].life = "live"
               PROVE  \A j, k \in JobsOf(t)' : j = k
    BY DEF OneJob
  <2>1. JobsOf(t)' = JobsOf(t)  BY <1>6 DEF SameJobs
  <2>2. CASE t = s  BY <1>7, <2>1, <2>2
  <2>3. CASE t # s  BY <1>3, <2>1, <2>3 DEF ROrderly, OneJob
  <2> QED  BY <2>2, <2>3
<1> QED  BY <1>8, <1>9, <1>10, <1>11, <1>12 DEF ROrderly

\* An object is deleted.
LEMMA ROrderlyDelete ==
    ASSUME RInv, ROrderly, NEW s \in Restores, DeleteRestore(s)
    PROVE  ROrderly'
<1>1. RTypeOK /\ rcr[s].life = "live" /\ UNCHANGED <<rtask, rqueue, rjob_vars>>
      /\ rcr' = [rcr EXCEPT ![s] = [rcr[s] EXCEPT !.life = "gone"]]
  BY DEF RInv, RShape, DeleteRestore
<1>2. PICK c : c = [rcr[s] EXCEPT !.life = "gone"]  OBVIOUS
<1>3. rcr[s] \in RCopies  BY <1>1 DEF RTypeOK
<1>4. c.life = "gone" /\ c.named = rcr[s].named  BY <1>2, <1>3 DEF RCopies
<1>5. rcr'[s] = c /\ \A t \in Restores : t # s => rcr'[t] = rcr[t]
  BY <1>1, <1>2 DEF RTypeOK
<1>6. \A t \in Restores : /\ rcr'[t].named = rcr[t].named
                          /\ rcr'[t].life = "live" => rcr'[t] = rcr[t]
                          /\ rcr'[t].life = "no" => rcr[t].life = "no"
  BY <1>4, <1>5
<1>7. SameJobs  BY <1>1, JobsKept
<1>8. RSingle'  BY <1>1 DEF ROrderly, RSingle
<1>9. Unborn'  BY <1>1, <1>6, <1>7 DEF ROrderly, Unborn, SameJobs
<1>10. ASSUME NEW t \in Restores, NEW d, FreshCopy(t, d) PROVE FreshCopy(t, d)'
  BY <1>6, <1>7, <1>10 DEF FreshCopy, SameJobs
<1>11. RFreshItems'
  <2>1. \A i \in rqueue : i.name \in Restores  BY <1>1 DEF RTypeOK, RItems
  <2> QED  BY <1>1, <1>10, <2>1 DEF ROrderly, RFreshItems
<1>12. RFreshTask'
  <2> SUFFICES ASSUME rtask # RIdle PROVE RFreshTask'  BY <1>1 DEF RFreshTask
  <2>1. PICK t \in Restores : t = rtask.name  BY <1>1, RWorker
  <2>2. PICK d : d = RCopy  OBVIOUS
  <2>3. FreshCopy(t, d) => FreshCopy(t, d)'  BY <1>10
  <2>4. /\ rcr'[t].named = rcr[t].named /\ JobsOf(t)' = JobsOf(t)
        /\ rcr'[t].life = "live" => rcr'[t] = rcr[t]
    BY <1>6, <1>7 DEF SameJobs
  <2> QED  BY <1>1, <2>1, <2>2, <2>3, <2>4 DEF ROrderly, RFreshTask, RCopy
<1>13. OneJob'  BY <1>6, <1>7 DEF ROrderly, OneJob, SameJobs
<1> QED  BY <1>8, <1>9, <1>11, <1>12, <1>13 DEF ROrderly

\* The worker takes an item.
LEMMA ROrderlyGet ==
    ASSUME RInv, ROrderly, NEW s \in Restores, RGet(s)
    PROVE  ROrderly'
<1>1. RTypeOK /\ rtask = RIdle /\ UNCHANGED <<rcr, rjob_vars>>  BY DEF RInv, RShape, RGet
<1>2. PICK i \in rqueue : /\ i.name = s /\ rqueue' = rqueue \ {i}
                          /\ rtask' = [phase |-> "handler", name |-> s, copy |-> i.copy,
                                       local |-> i.copy, path |-> 0]
  BY DEF RGet
<1>3. rtask'.phase = "handler" /\ rtask'.name = s /\ rtask'.copy = i.copy  BY <1>2
<1>4. SameJobs  BY <1>1, JobsKept
<1>5. ASSUME NEW k \in rqueue PROVE FreshCopy(k.name, k.copy)'
  <2>1. FreshCopy(k.name, k.copy) /\ k.name \in Restores
    BY <1>1, <1>5 DEF ROrderly, RFreshItems, RTypeOK, RItems
  <2> QED  BY <1>1, <1>4, <2>1 DEF FreshCopy, SameJobs
<1>6. RSingle'  BY <1>2, <1>3 DEF ROrderly, RSingle
<1>7. Unborn'  BY <1>1, <1>2, <1>3, <1>4 DEF ROrderly, Unborn, SameJobs
<1>8. RFreshItems'  BY <1>2, <1>5 DEF RFreshItems
<1>9. RFreshTask'
  <2>1. FreshCopy(s, i.copy)'  BY <1>2, <1>5
  <2>2. i.copy.life = "live" /\ i.copy.named = rcr'[s].named  BY <2>1 DEF FreshCopy
  <2> QED  BY <1>3, <2>1, <2>2 DEF RFreshTask, RCopy
<1>10. OneJob'  BY <1>1, <1>4 DEF ROrderly, OneJob, SameJobs
<1> QED  BY <1>6, <1>7, <1>8, <1>9, <1>10 DEF ROrderly

\* Steps that leave the objects, the items, the worker and what the jobs are for.
LEMMA ROrderlyQuiet ==
    ASSUME ROrderly, UNCHANGED <<rcr, rqueue, rtask, rjobs>>, RTypeOK,
           \A j \in 1 .. rjobs : load'[j].of = load[j].of
    PROVE  ROrderly'
<1>1. SameJobs  BY JobsKept
<1>2. RSingle'  BY DEF ROrderly, RSingle
<1>3. Unborn' /\ OneJob'  BY <1>1 DEF ROrderly, Unborn, OneJob, SameJobs
<1>4. ASSUME NEW t \in Restores, NEW d, FreshCopy(t, d) PROVE FreshCopy(t, d)'
  BY <1>1, <1>4 DEF FreshCopy, SameJobs
<1>5. RFreshItems'
  <2>1. \A i \in rqueue : i.name \in Restores  BY DEF RTypeOK, RItems
  <2> QED  BY <1>4, <2>1 DEF ROrderly, RFreshItems
<1>6. RFreshTask'
  <2> SUFFICES ASSUME rtask # RIdle PROVE RFreshTask'  BY DEF RFreshTask
  <2>1. PICK t \in Restores : t = rtask.name  BY RWorker
  <2>2. JobsOf(t)' = JobsOf(t)  BY <1>1 DEF SameJobs
  <2> QED  BY <2>1, <2>2 DEF ROrderly, RFreshTask, FreshCopy, RCopy
<1> QED  BY <1>2, <1>3, <1>5, <1>6 DEF ROrderly

\* Every step without a failure or a restart.
LEMMA ROrderlyNext ==
    ASSUME Inv, RInv, ROrderly, [RNext]_all_vars, UNCHANGED <<crashes, rfaults>>
    PROVE  ROrderly'
<1>1. /\ RTypeOK /\ rfaults \in 0 .. MaxRFaults /\ crashes \in 0 .. MaxCrashes
      /\ MaxCrashes \in Nat /\ MaxRFaults \in Nat
  BY BoundAssumption, RBoundAssumption DEF Inv, TypeInv, TypeOK, RInv, RShape, RTypeOK
<1>2. ~RBreaks /\ ~Restart  BY <1>1 DEF RBreaks, Restart
<1>3. KeepsFixed  BY RNextNext, FixedKept DEF KeepsFixed
<1>4. ~RApiError /\ ~RWaitFails
  <2>1. ~RApiError  BY <1>2 DEF RApiError
  <2>2. RPhase("wait") => rjob # RNoJob
    BY RBusy DEF RInv, ROwnJob, RPhase
  <2>3. ~RWaitFails  BY <1>2, <2>2 DEF RWaitFails
  <2> QED  BY <2>1, <2>3
<1>5. CASE UNCHANGED rvars
  BY <1>1, <1>5, ROrderlyQuiet DEF rvars
<1>6. CASE UNCHANGED all_vars
  <2>1. UNCHANGED rvars  BY <1>6 DEF all_vars
  <2> QED  BY <1>5, <2>1
<1>7. CASE \E s \in Restores : CreateRestore(s) \/ DeleteRestore(s) \/ RGet(s)
  BY <1>7, ROrderlyCreate, ROrderlyDelete, ROrderlyGet
<1>8. CASE RHandler
  BY <1>3, <1>4, <1>8, ROrderlyStatus, ROrderlyHandler, ROrderlyCreateJob DEF RHandler
<1>9. CASE RJobStarts \/ RJobEnds \/ RJobRemoved \/ RJobExpires
  <2>1. UNCHANGED <<rcr, rqueue, rtask, rjobs>>
    BY <1>9 DEF RJobStarts, RJobEnds, RJobRemoved, RJobExpires
  <2>2. PICK k : k = rjob.id  OBVIOUS
  <2>3. \A j \in 1 .. rjobs : load'[j].of = load[j].of
    <3>1. \A j \in 1 .. rjobs :
             /\ j \in 1 .. MaxRJobs
             /\ load[j] \in LoadSet
      <4>1. rjobs \in 0 .. MaxRJobs  BY <1>1 DEF RTypeOK
      <4>2. \A j \in 1 .. rjobs : j \in 1 .. MaxRJobs  BY <4>1, RBoundAssumption
      <4> QED  BY <4>2 DEF RInv, Loads, LoadOK
    <3>2. load = [j \in 1 .. MaxRJobs |-> load[j]]  BY DEF RInv, Loads
    <3>3. PICK g : g = dump[load[rjob.id].path]  OBVIOUS
    <3>4. \/ UNCHANGED load
          \/ load' = [load EXCEPT ![k] = [load[k] EXCEPT !.got = g, !.runs = @ + 1]]
          \/ load' = [load EXCEPT ![k] = [load[k] EXCEPT !.done = TRUE]]
          \/ load' = [load EXCEPT ![k] = [load[k] EXCEPT !.failed = @ + 1]]
      BY <1>9, <2>2, <3>3 DEF RJobStarts, RJobEnds, RJobRemoved, RJobExpires
    <3>5. ASSUME NEW l, load' = [load EXCEPT ![k] = l], k \in 1 .. rjobs => l.of = load[k].of
          PROVE  \A j \in 1 .. rjobs : load'[j].of = load[j].of
      BY <3>1, <3>2, <3>5
    <3>6. \A l : l = [load[k] EXCEPT !.got = g, !.runs = @ + 1] =>
                    (k \in 1 .. rjobs => l.of = load[k].of)
      BY <3>1 DEF LoadSet
    <3>7. \A l : l = [load[k] EXCEPT !.done = TRUE] => (k \in 1 .. rjobs => l.of = load[k].of)
      BY <3>1 DEF LoadSet
    <3>8. \A l : l = [load[k] EXCEPT !.failed = @ + 1] => (k \in 1 .. rjobs => l.of = load[k].of)
      BY <3>1 DEF LoadSet
    <3> QED  BY <3>4, <3>5, <3>6, <3>7, <3>8
  <2> QED  BY <1>1, <2>1, <2>3, ROrderlyQuiet
<1> QED  BY <1>2, <1>4, <1>5, <1>6, <1>7, <1>8, <1>9 DEF RNext

\* Failures and restarts are counted.
LEMMA RCalmBefore ==
    ASSUME Inv, RInv, [RNext]_all_vars, RCalm'
    PROVE  RCalm /\ UNCHANGED <<crashes, rfaults>>
<1>1. rfaults \in Nat /\ crashes \in Nat
  BY BoundAssumption, RBoundAssumption DEF Inv, TypeInv, TypeOK, RInv, RShape, RTypeOK
<1>2. UNCHANGED crashes \/ crashes' = crashes + 1
  BY DEF RNext, Restart, all_vars, vars
<1>3. UNCHANGED rfaults \/ RBreaks
  <2>1. CASE RHandler
    BY <2>1 DEF RHandler, RIgnoreFinished, RRefuseUnnamed, LookupBackup, RRejectDuplicate,
       RDeletePrevJob, RNoPrevJob, RCreateJob, RCreateJobFails, RMarkFailed, RMarkRunning,
       RJobCompleted, RWaitFails, RUpdateStatus, RWorks
  <2>2. CASE \E s \in Restores : CreateRestore(s) \/ DeleteRestore(s) \/ RGet(s)
    BY <2>2 DEF CreateRestore, DeleteRestore, RGet
  <2>3. CASE RApiError \/ RJobStarts \/ RJobEnds \/ RJobRemoved \/ RJobExpires
    BY <2>3 DEF RApiError, RJobStarts, RJobEnds, RJobRemoved, RJobExpires
  <2>4. CASE RRestart \/ UNCHANGED rvars  BY <2>4 DEF RRestart, rvars
  <2>5. CASE UNCHANGED all_vars  BY <2>5 DEF all_vars, rvars
  <2> QED  BY <2>1, <2>2, <2>3, <2>4, <2>5 DEF RNext
<1> QED  BY <1>1, <1>2, <1>3 DEF RCalm, RBreaks

\* A set in which all elements are equal has at most one.
LEMMA AtMostOne ==
    ASSUME NEW S, \A j, k \in S : j = k
    PROVE  Cardinality(S) <= 1
<1>1. CASE S = {}  BY <1>1, FS_EmptySet
<1>2. CASE S # {}
  <2>1. PICK j \in S : S = {j}  BY <1>2
  <2> QED  BY <2>1, FS_Singleton
<1> QED  BY <1>1, <1>2

\* For any number of restores beside any number of backups: a ready restore was loaded
\* from a dump that was complete, whatever became of the backup meanwhile (handler, and
\* the job it creates), and without failing calls and restarts a dump is loaded
\* again, while the object exists, only by its one job after a run of psql that failed.
THEOREM RestoreSoundHolds == RSpec => []RestoreSound
<1> DEFINE CInv == Inv /\ RInv /\ (RCalm => ROrderly)
<1>1. ASSUME RInit PROVE CInv
  <2>1. Inv /\ RInv  BY <1>1, InvInit, RInvInit DEF RInit
  <2>2. rqueue = {} /\ rtask = RIdle /\ rjobs = 0  BY <1>1 DEF RInit
  <2>3. \A s \in Restores : JobsOf(s) = {}  BY <2>2 DEF JobsOf
  <2>4. RSingle /\ RFreshItems /\ RFreshTask  BY <2>2 DEF RSingle, RFreshItems, RFreshTask
  <2>5. Unborn /\ OneJob  BY <2>2, <2>3 DEF Unborn, OneJob
  <2> QED  BY <2>1, <2>4, <2>5 DEF ROrderly
<1>2. ASSUME CInv, [RNext]_all_vars PROVE CInv'
  <2>1. Inv'  BY <1>2, RNextNext, InvNext
  <2>2. RInv'  BY <1>2, RInvNext
  <2>3. RCalm' => ROrderly'  BY <1>2, RCalmBefore, ROrderlyNext
  <2> QED  BY <2>1, <2>2, <2>3
<1>3. ASSUME CInv PROVE RestoreSound
  <2>1. RTypeOK /\ ReadyMeansLoaded  BY <1>3 DEF RInv, RShape
  <2>2. LoadedAgainOnlyAfterFailure
    <3>1. \A s \in Restores : \A j \in JobsOf(s) : load[j].runs <= load[j].failed + 1
      BY <1>3 DEF RInv, Loads, LoadOK, JobsOf
    <3> QED
      BY <1>3, <3>1, AtMostOne DEF RCalm, ROrderly, OneJob, LoadedAgainOnlyAfterFailure
  <2> QED  BY <2>1, <2>2 DEF RestoreSound
<1> QED  BY <1>1, <1>2, <1>3, PTL DEF RSpec
=============================================================================
