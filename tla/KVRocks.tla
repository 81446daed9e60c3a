------------------------------ MODULE KVRocks ------------------------------
(***************************************************************************)
(* Backup and restore of kvrocks:                                          *)
(*   cmd/middleware/operator/kvrocks-bakcup/{controller,handler}.go        *)
(*   cmd/middleware/operator/kvrocks-restore/{controller,handler}.go       *)
(*   pkg/workload/kvrocks/helper.go  (BackupKVRocks, RestoreKVRocks)       *)
(*                                                                         *)
(* Two controllers with a queue and a worker each.  A backup removes the   *)
(* backup directory, asks kvrocks to save and waits for the directory; a   *)
(* restore scales the StatefulSet to zero, removes the database directory, *)
(* renames the backup directory to it and scales up again.  They know      *)
(* nothing of each other and share the directories: there is one path for  *)
(* all backups.  The outcome is recorded in the status of the object, with *)
(* optimistic concurrency on its resourceVersion.                          *)
(*                                                                         *)
(* Abstractions: the content of a directory is a version, 0 is an empty or *)
(* an old database, and Part is what is left of one when its removal has   *)
(* begun, whatever is written to it later; the cluster is of               *)
(* type KVRocks (for other types handler() returns at once); UPDATE        *)
(* events, which handler() ignores, are left out.                          *)
(***************************************************************************)
EXTENDS Integers, Sequences, FiniteSets

CONSTANTS
    Backups,      \* names of KVRocksBackup objects
    Restores,     \* names of KVRocksRestore objects
    MaxUids,      \* bound: objects ever created
    MaxWrites,    \* bound: versions of the data
    MaxFaults,    \* bound: calls that fail
    MaxCrashes    \* bound: restarts of the operator

ASSUME NamesAssumption ==
    /\ IsFiniteSet(Backups) /\ IsFiniteSet(Restores)
    /\ Backups \cap Restores = {}
ASSUME BoundAssumption ==
    /\ MaxUids \in Nat /\ MaxWrites \in Nat \ {0}
    /\ MaxFaults \in Nat /\ MaxCrashes \in Nat

VARIABLES
    cr,          \* cr[o]: the object in the API server
    uids,        \* objects created so far
    queue,       \* queue[w]: the workqueue of a controller
    retry,       \* retry[w]: items waiting for AddRateLimited
    task,        \* task[w]: what its worker is executing
    replicas,    \* of the StatefulSet
    pod,         \* the pod of kvrocks exists and has the database open
    saving,      \* what the BGSAVE that kvrocks is executing will save: the data when
                 \* it was accepted; Gone: none is executed
    db,          \* content of KVRocksDataDir/db
    bak,         \* content of KVRocksBackupDir/backup
    writes,      \* newest version of the data
    faults, crashes,
    overlapped,  \* history: a backup and a restore used the backup directory at a time
    cut          \* history: a removal of the backup directory was cut short

obj_vars == <<cr, uids>>
ctl_vars == <<queue, retry>>
kvr_vars == <<replicas, pod, saving, db, bak, writes>>
cnt_vars == <<faults, crashes>>
vars == <<obj_vars, ctl_vars, task, kvr_vars, cnt_vars, overlapped, cut>>

----------------------------------------------------------------------------
Objects == Backups \cup Restores
Workers == {"backup", "restore"}
WorkerOf(o) == IF o \in Backups THEN "backup" ELSE "restore"

Gone == -1
Part == -2
Versions == 0 .. MaxWrites
Contents == Versions \cup {Part, Gone}

States == {"", "running", "error", "ready"}
Finished == {"error", "ready"}

\* A copy of an object: uid 0 is no object; path: Status.BackupPath is set;
\* named: Spec.ClusterName is not empty.
Copies == [uid : 1 .. MaxUids, ver : Nat, state : States, path : BOOLEAN, named : BOOLEAN]
NoCopy == [uid |-> 0, ver |-> 0, state |-> "", path |-> FALSE, named |-> TRUE]

Items == [action : {"ADD", "DELETE"}, name : Objects, copy : Copies]
NoItem == [action |-> "NONE"]

\* BackupKVRocks: "connect", "remove", "save", "await"; RestoreKVRocks: "stat",
\* "down", "closing", "erase", "rename", "up", "starting"; "ready" and "error":
\* the outcome has to be recorded.
Phases == {"idle", "handler", "connect", "remove", "save", "await", "stat", "down",
           "closing", "erase", "rename", "up", "starting", "ready", "error"}

\* item: the queue item, whose copy updateStatus changes; local: the variable
\* `backup' or `restore' after the Running update; since: history, the version of
\* the data when a backup began, or when a save that was still running then began.
Idle == [phase |-> "idle", item |-> NoItem, local |-> NoCopy, since |-> 0]
Tasks == [phase : Phases, item : Items \cup {NoItem}, local : Copies \cup {NoCopy},
          since : Contents]

Init == /\ cr = [o \in Objects |-> NoCopy]
        /\ uids = 0
        /\ queue = [w \in Workers |-> <<>>] /\ retry = [w \in Workers |-> {}]
        /\ task = [w \in Workers |-> Idle]
        /\ replicas = 1 /\ pod = TRUE /\ saving = Gone
        /\ db = 1 /\ bak \in {Gone, 0} /\ writes = 1
        /\ faults = 0 /\ crashes = 0
        /\ overlapped = FALSE /\ cut = FALSE

----------------------------------------------------------------------------
(* Users, or the backup watcher, create and delete objects; the informers  *)
(* hand them to handleAddObject and handleDeleteObject.                    *)

Enqueue(a, o, c) ==
    queue' = [queue EXCEPT ![WorkerOf(o)] =
                Append(@, [action |-> a, name |-> o, copy |-> c])]

CreateObject(o) ==
    /\ cr[o] = NoCopy
    /\ uids < MaxUids
    /\ uids' = uids + 1
    /\ \E named \in BOOLEAN :
        LET c == [NoCopy EXCEPT !.uid = uids + 1, !.named = named] IN
        cr' = [cr EXCEPT ![o] = c] /\ Enqueue("ADD", o, c)
    /\ UNCHANGED <<retry, task, kvr_vars, cnt_vars, overlapped, cut>>

DeleteObject(o) ==
    /\ cr[o] # NoCopy
    /\ cr' = [cr EXCEPT ![o] = NoCopy]
    /\ Enqueue("DELETE", o, cr[o])
    /\ UNCHANGED <<uids, retry, task, kvr_vars, cnt_vars, overlapped, cut>>

----------------------------------------------------------------------------
(* The workers: processNextWorkItem.                                       *)

Get(w) ==
    /\ task[w].phase = "idle"
    /\ queue[w] # <<>>
    /\ task' = [task EXCEPT ![w] = [Idle EXCEPT !.phase = "handler", !.item = Head(queue[w])]]
    /\ queue' = [queue EXCEPT ![w] = Tail(@)]
    /\ UNCHANGED <<obj_vars, retry, kvr_vars, cnt_vars, overlapped, cut>>

Requeue(w) ==
    /\ \E i \in retry[w] : /\ queue' = [queue EXCEPT ![w] = Append(@, i)]
                           /\ retry' = [retry EXCEPT ![w] = @ \ {i}]
    /\ UNCHANGED <<obj_vars, task, kvr_vars, cnt_vars, overlapped, cut>>

Goto(w, phase) == task' = [task EXCEPT ![w].phase = phase] /\ UNCHANGED retry

\* handler() returned: nil, or an error with the item's copy as it is now.
Return(w) == task' = [task EXCEPT ![w] = Idle] /\ UNCHANGED retry
Fail(w, c) ==
    /\ task' = [task EXCEPT ![w] = Idle]
    /\ retry' = [retry EXCEPT ![w] = @ \cup {[task[w].item EXCEPT !.copy = c]}]

Works == UNCHANGED faults
Breaks == faults < MaxFaults /\ faults' = faults + 1

\* updateStatus(c, state) changes its copy to Marked(c, state) and then calls
\* UpdateStatus, which returns Stored(c, state) or an error.
Marked(c, state) == [c EXCEPT !.state = state]
Stored(c, state) == [Marked(c, state) EXCEPT !.ver = @ + 1]

\* A copy that is not current is refused; a call that breaks may have been applied
\* before its answer was lost.
UpdateStatus(w, c, state, ok) ==
    LET o == task[w].item.name
        current == cr[o].uid = c.uid /\ cr[o].ver = c.ver
        write == current /\ cr' = [cr EXCEPT ![o] = Stored(c, state)] IN
    \/ ok /\ Works /\ write
    \/ ~ok /\ Works /\ ~current /\ UNCHANGED cr
    \/ ~ok /\ Breaks /\ (write \/ UNCHANGED cr)

----------------------------------------------------------------------------
(* handler(): the part that is the same in both controllers.               *)

InHandler(w, a) == task[w].phase = "handler" /\ task[w].item.action = a
Copy(w) == task[w].item.copy

IgnoreFinished(w) ==
    /\ InHandler(w, "ADD")
    /\ Copy(w).state \in Finished
    /\ Return(w)
    /\ UNCHANGED <<obj_vars, queue, kvr_vars, cnt_vars, overlapped, cut>>

\* The restore controller marks a copy of its own (restore.DeepCopy()).
RefuseUnnamed(w) ==
    /\ InHandler(w, "ADD")
    /\ Copy(w).state \notin Finished /\ ~Copy(w).named
    /\ \E ok \in BOOLEAN : UpdateStatus(w, Copy(w), "error", ok)
    /\ Fail(w, IF w = "backup" THEN Marked(Copy(w), "error") ELSE Copy(w))
    /\ UNCHANGED <<uids, queue, kvr_vars, crashes, overlapped, cut>>

\* The RedixCluster cannot be read.
FindFails(w) ==
    /\ InHandler(w, "ADD")
    /\ Copy(w).state \notin Finished /\ Copy(w).named
    /\ Breaks
    /\ Fail(w, Copy(w))
    /\ UNCHANGED <<obj_vars, queue, kvr_vars, crashes, overlapped, cut>>

MarkRunning_KeepResult(w) ==
    /\ InHandler(w, "ADD")
    /\ Copy(w).state \notin Finished /\ Copy(w).named
    /\ \E ok \in BOOLEAN :
        /\ UpdateStatus(w, Copy(w), "running", ok)
        /\ IF ok
             THEN /\ task' = [task EXCEPT ![w].phase = IF w = "backup" THEN "connect" ELSE "stat",
                                          ![w].item.copy = Stored(Copy(w), "running"),
                                          ![w].local = Stored(Copy(w), "running")]
                  /\ UNCHANGED retry
             ELSE Fail(w, NoCopy)
    /\ UNCHANGED <<uids, queue, kvr_vars, crashes, overlapped, cut>>

\* The item keeps the marked copy with its old version; the stored one is only
\* known to this call of handler().
MarkRunning(w) ==
    /\ InHandler(w, "ADD")
    /\ Copy(w).state \notin Finished /\ Copy(w).named
    /\ \E ok \in BOOLEAN :
        /\ UpdateStatus(w, Copy(w), "running", ok)
        /\ IF ok
             THEN /\ task' = [task EXCEPT ![w] =
                       [phase |-> IF w = "backup" THEN "connect" ELSE "stat",
                        item  |-> [@.item EXCEPT !.copy = Marked(Copy(w), "running")],
                        local |-> Stored(Copy(w), "running"),
                        since |-> 0]]
                  /\ UNCHANGED retry
             ELSE Fail(w, Marked(Copy(w), "running"))
    /\ UNCHANGED <<uids, queue, kvr_vars, crashes, overlapped, cut>>

\* `update ... ready error' is only logged.
MarkReady(w) ==
    /\ task[w].phase = "ready"
    /\ \E ok \in BOOLEAN : UpdateStatus(w, task[w].local, "ready", ok)
    /\ Return(w)
    /\ UNCHANGED <<uids, queue, kvr_vars, crashes, overlapped, cut>>

MarkError_Silent(w) ==
    /\ task[w].phase = "error"
    /\ Fail(w, Copy(w))
    /\ UNCHANGED <<obj_vars, queue, kvr_vars, cnt_vars, overlapped, cut>>

MarkError(w) ==
    /\ task[w].phase = "error"
    /\ \E ok \in BOOLEAN : UpdateStatus(w, task[w].local, "error", ok)
    /\ Fail(w, Copy(w))
    /\ UNCHANGED <<uids, queue, kvr_vars, crashes, overlapped, cut>>

----------------------------------------------------------------------------
(* BackupKVRocks.                                                          *)

\* A restore has found the backup directory and has not yet renamed it, or it
\* has stopped kvrocks and nobody has started it again.
Relies == task["restore"].phase \in {"down", "closing", "erase", "rename"} \/ replicas = 0

\* A backup has found kvrocks running and has not yet recorded its outcome.
BackingUp == task["backup"].phase \in {"remove", "save", "await", "ready"}

\* os.RemoveAll is at work on the backup directory, and some of it is gone.
Removing == \/ task["backup"].phase = "remove"
            \/ InHandler("backup", "DELETE") /\ Copy("backup").path
HalfRemoved == Removing /\ bak = Part

\* A step that leaves everything but the phase alone.
Local == UNCHANGED <<obj_vars, queue, kvr_vars, cnt_vars, overlapped, cut>>

\* GetKVRocksClient: PING is answered by a running kvrocks.
Connect ==
    /\ task["backup"].phase = "connect"
    /\ task' = [task EXCEPT !["backup"].phase = IF pod THEN "remove" ELSE "error",
                            !["backup"].since = IF saving = Gone THEN db ELSE saving]
    /\ UNCHANGED retry
    /\ Local

RemovePrev_Keep ==
    /\ task["backup"].phase = "remove"
    /\ Goto("backup", "save")
    /\ Local

\* os.RemoveAll(backupDir), here and for a backup that was deleted, removes one file
\* after another.
RemoveSome ==
    /\ Removing /\ bak \in Versions
    /\ bak' = Part
    /\ overlapped' = (overlapped \/ Relies)
    /\ UNCHANGED <<obj_vars, ctl_vars, task, replicas, pod, saving, db, writes, cnt_vars, cut>>

\* os.RemoveAll(backupDir) has removed everything, or there was nothing.
RemovePrev ==
    /\ task["backup"].phase = "remove"
    /\ bak' = Gone
    /\ overlapped' = (overlapped \/ Relies)
    /\ Goto("backup", "save")
    /\ UNCHANGED <<obj_vars, queue, replicas, pod, saving, db, writes, cnt_vars, cut>>

\* BGSAVE is refused by a kvrocks that is already saving, and by none.  The
\* answer may be lost after the command was accepted.
BgSave ==
    /\ task["backup"].phase = "save"
    /\ \/ /\ pod /\ saving = Gone
          /\ saving' = db
          /\ (Works /\ Goto("backup", "await")) \/ (Breaks /\ Goto("backup", "error"))
       \/ /\ ~pod \/ saving # Gone
          /\ Works
          /\ Goto("backup", "error")
          /\ UNCHANGED saving
    /\ UNCHANGED <<obj_vars, queue, replicas, pod, db, bak, writes, crashes, overlapped, cut>>

\* The directory is there: BackupPath is set in the copy that is stored next.
BackupComplete ==
    /\ task["backup"].phase = "await"
    /\ bak # Gone
    /\ task' = [task EXCEPT !["backup"].phase = "ready", !["backup"].local.path = TRUE]
    /\ UNCHANGED retry
    /\ Local

\* Thirty minutes have passed and nobody is writing the directory.
BackupTimeout ==
    /\ task["backup"].phase = "await"
    /\ bak = Gone /\ saving = Gone
    /\ Goto("backup", "error")
    /\ Local

\* case DELETE: remove the files; a failure, with some of them gone or none, is only
\* logged.  The restore controller has no such case.
RemoveFiles ==
    /\ InHandler("backup", "DELETE")
    /\ \/ /\ Copy("backup").path
          /\ bak' = Gone
          /\ overlapped' = (overlapped \/ Relies)
          /\ Works /\ UNCHANGED cut
       \/ /\ Copy("backup").path => Breaks
          /\ ~Copy("backup").path => Works
          /\ cut' = (cut \/ HalfRemoved)
          /\ UNCHANGED <<bak, overlapped>>
    /\ Return("backup")
    /\ UNCHANGED <<obj_vars, queue, replicas, pod, saving, db, writes, crashes>>

IgnoreDelete ==
    /\ InHandler("restore", "DELETE")
    /\ Return("restore")
    /\ Local

----------------------------------------------------------------------------
(* RestoreKVRocks.                                                         *)

StatBackup_Unchecked ==
    /\ task["restore"].phase = "stat"
    /\ Goto("restore", "down")
    /\ Local

\* os.Stat finds the directory, or what is left of it.
StatBackup ==
    /\ task["restore"].phase = "stat"
    /\ Goto("restore", IF bak # Gone THEN "down" ELSE "error")
    /\ overlapped' = (overlapped \/ HalfRemoved)
    /\ UNCHANGED <<obj_vars, queue, kvr_vars, cnt_vars, cut>>

\* GetScale and UpdateScale; the answer may be lost after it was applied.
Scale(n, next) ==
    /\ replicas' = n
    /\ (Works /\ Goto("restore", next)) \/ (Breaks /\ Goto("restore", "error"))
    /\ UNCHANGED <<obj_vars, queue, pod, saving, db, bak, writes, crashes, overlapped, cut>>

ScaleDown ==
    /\ task["restore"].phase = "down"
    /\ Scale(0, "closing")

ScaleUp == task["restore"].phase = "up" /\ Scale(1, "starting")

PodsClosed_NoWait == task["restore"].phase = "closing" /\ Goto("restore", "erase") /\ Local
PodsClosed == task["restore"].phase = "closing" /\ ~pod /\ Goto("restore", "erase") /\ Local

\* Stat and RemoveAll of dbDir, which removes one file after another: an error if it
\* does not exist.
EraseSome ==
    /\ task["restore"].phase = "erase" /\ db \in Versions
    /\ db' = Part
    /\ UNCHANGED <<obj_vars, ctl_vars, task, replicas, pod, saving, bak, writes, cnt_vars, overlapped, cut>>

EraseDb ==
    /\ task["restore"].phase = "erase"
    /\ db' = Gone
    /\ Goto("restore", IF db # Gone THEN "rename" ELSE "error")
    /\ UNCHANGED <<obj_vars, queue, replicas, pod, saving, bak, writes, cnt_vars, overlapped, cut>>

\* os.Rename(backupDir, dbDir).
Rename ==
    /\ task["restore"].phase = "rename"
    /\ IF bak # Gone THEN db' = bak /\ bak' = Gone ELSE UNCHANGED <<db, bak>>
    /\ overlapped' = (overlapped \/ BackingUp)
    /\ Goto("restore", IF bak # Gone THEN "up" ELSE "error")
    /\ UNCHANGED <<obj_vars, queue, replicas, pod, saving, writes, cnt_vars, cut>>

PodsStarted == task["restore"].phase = "starting" /\ pod /\ Goto("restore", "ready") /\ Local

\* A call of BackupKVRocks or RestoreKVRocks fails without effect, os.RemoveAll in
\* the midst of its work, or a wait ends before what it waits for has happened.
CallFails(w) ==
    /\ task[w].phase \notin {"idle", "handler", "ready", "error"}
    /\ Breaks
    /\ Goto(w, "error")
    /\ cut' = (cut \/ (w = "backup" /\ HalfRemoved))
    /\ UNCHANGED <<obj_vars, queue, kvr_vars, crashes, overlapped>>

----------------------------------------------------------------------------
(* kvrocks, its clients and the StatefulSet controller (external).         *)

Write ==
    /\ pod /\ writes < MaxWrites
    /\ writes' = writes + 1 /\ db' = IF db = Part THEN Part ELSE writes + 1
    /\ UNCHANGED <<obj_vars, ctl_vars, task, replicas, pod, saving, bak, cnt_vars, overlapped, cut>>

\* kvrocks makes a checkpoint when it accepts BGSAVE, in a directory of another name,
\* and at the end puts that in the place of whatever is there.
SaveDone ==
    /\ pod /\ saving # Gone
    /\ saving' = Gone /\ bak' = saving
    /\ UNCHANGED <<obj_vars, ctl_vars, task, replicas, pod, db, writes, cnt_vars, overlapped, cut>>

PodStops ==
    /\ replicas = 0 /\ pod
    /\ pod' = FALSE /\ saving' = Gone
    /\ UNCHANGED <<obj_vars, ctl_vars, task, replicas, db, bak, writes, cnt_vars, overlapped, cut>>

\* kvrocks makes an empty database if there is none.
PodStarts ==
    /\ replicas = 1 /\ ~pod
    /\ pod' = TRUE
    /\ db' = IF db = Gone THEN 0 ELSE db
    /\ UNCHANGED <<obj_vars, ctl_vars, task, replicas, saving, bak, writes, cnt_vars, overlapped, cut>>

Listed(w) == {o \in Objects : WorkerOf(o) = w /\ cr[o] # NoCopy}
Orders(S) == {s \in [1 .. Cardinality(S) -> S] : \A k, l \in DOMAIN s : s[k] = s[l] => k = l}
Added(s) == [k \in DOMAIN s |-> [action |-> "ADD", name |-> s[k], copy |-> cr[s[k]]]]

\* The operator restarts: every object that exists arrives as an ADD again.
Restart ==
    /\ crashes < MaxCrashes
    /\ crashes' = crashes + 1
    /\ task' = [w \in Workers |-> Idle] /\ retry' = [w \in Workers |-> {}]
    /\ \E b \in Orders(Listed("backup")), r \in Orders(Listed("restore")) :
         queue' = [w \in Workers |-> Added(IF w = "backup" THEN b ELSE r)]
    /\ cut' = (cut \/ HalfRemoved)
    /\ UNCHANGED <<obj_vars, kvr_vars, faults, overlapped>>

BackupSteps ==
    \/ Connect \/ RemoveSome \/ RemovePrev \/ BgSave \/ BackupComplete \/ BackupTimeout \/ RemoveFiles

RestoreSteps ==
    \/ StatBackup \/ ScaleDown \/ PodsClosed \/ EraseSome \/ EraseDb \/ Rename \/ ScaleUp
    \/ PodsStarted \/ IgnoreDelete

Handler(w) ==
    \/ IgnoreFinished(w) \/ RefuseUnnamed(w) \/ MarkRunning(w)
    \/ MarkReady(w) \/ MarkError(w)

Next ==
    \/ \E o \in Objects : CreateObject(o) \/ DeleteObject(o)
    \/ \E w \in Workers : \/ Get(w) \/ Requeue(w) \/ Handler(w)
                          \/ FindFails(w) \/ CallFails(w)
    \/ BackupSteps \/ RestoreSteps
    \/ Write \/ SaveDone \/ PodStops \/ PodStarts
    \/ Restart

Spec == Init /\ [][Next]_vars

\* The workers run, delays pass, kvrocks saves, and the StatefulSet controller
\* follows the number of replicas.
Fairness ==
    /\ \A w \in Workers : WF_vars(Get(w)) /\ WF_vars(Requeue(w)) /\ WF_vars(Handler(w))
    /\ WF_vars(BackupSteps) /\ WF_vars(RestoreSteps)
    /\ WF_vars(SaveDone) /\ WF_vars(PodStops) /\ WF_vars(PodStarts)

FairSpec == Spec /\ Fairness

----------------------------------------------------------------------------
(* Properties.                                                             *)

\* Objects, items, the workers and kvrocks are of their types.
TypeOK ==
    /\ cr \in [Objects -> Copies \cup {NoCopy}]
    /\ uids \in 0 .. MaxUids
    /\ queue \in [Workers -> Seq(Items)] /\ retry \in [Workers -> SUBSET Items]
    /\ task \in [Workers -> Tasks]
    /\ replicas \in {0, 1} /\ pod \in BOOLEAN
    /\ saving \in Contents /\ db \in Contents /\ bak \in Contents
    /\ writes \in 1 .. MaxWrites
    /\ faults \in 0 .. MaxFaults /\ crashes \in 0 .. MaxCrashes
    /\ overlapped \in BOOLEAN /\ cut \in BOOLEAN

\* With both controllers at work, failing calls, lost answers and restarts at any
\* file that is removed: the database directory is removed and replaced only while no
\* kvrocks has it open, as a whole and after all of it is gone, by one checkpoint or
\* by what is left of one whose removal had begun; and kvrocks never comes up on a
\* database that is missing (module DataDir).
Data == INSTANCE DataDir WITH running <- pod, snap <- saving

ImplementsDataDir == Data!Spec

\* A restore, failed or interrupted anywhere and repeated, always leaves the data or
\* a backup whole, and kvrocks runs on a database that is whole; unless a backup
\* removed the directory the restore relies on, or had been cut short while it
\* removed it: RestoreKVRocks takes what is left for a backup.
DataNotLost ==
    ~overlapped /\ ~cut => /\ db \in Versions \/ bak \in Versions
                           /\ pod => db \in Versions

\* A backup becomes ready only when the directory holds data at least as new as when
\* the backup began: never a directory an earlier backup left, one that is half
\* removed, or none.  Only a save that was still running when it began may put there
\* what it had checkpointed before, and os.Stat takes that for the new one.
ReadyMeansSaved ==
    [][\A o \in Backups :
         /\ cr[o].state # "ready" /\ cr'[o].state = "ready"
         /\ ~overlapped /\ task["backup"].since \in Versions
         => bak \in Versions /\ bak >= task["backup"].since]_vars

\* Once no more objects are created each has its outcome, although the operator
\* restarts and the controllers interfere, when no call fails: a backup or restore
\* that cannot succeed any more is recorded as an error and not retried with a copy
\* that is outdated for good.
EveryObjectFinishes ==
    <>[](faults > 0 \/ \A o \in Objects : cr[o] = NoCopy \/ cr[o].state \in Finished)

\* A restore that stopped kvrocks starts it again, unless a call failed, the
\* operator restarted, or a backup removed the directory meanwhile: then a retry
\* ends at os.Stat or at the outdated copy, and kvrocks stays stopped.
ComesBack ==
    replicas = 0 ~> replicas = 1 \/ faults > 0 \/ crashes > 0 \/ overlapped

\* What must happen in the end: outcomes for the objects, and kvrocks running.
EventuallyDone == EveryObjectFinishes /\ ComesBack
=============================================================================
