------------------------------ MODULE PGBackup ------------------------------
(***************************************************************************)
(* The pgcluster-backup controller:                                        *)
(*   cmd/middleware/operator/pgcluster-backup/{controller,handler}.go      *)
(*                                                                         *)
(* A PGClusterBackup object asks for a dump of the citus cluster.  One     *)
(* worker takes the objects one by one, runs a Kubernetes Job with a fixed *)
(* name, waits for it and records the outcome in the object's status.  The *)
(* status is written with optimistic concurrency: UpdateStatus succeeds    *)
(* only if the caller's copy has the object's current resourceVersion.     *)
(* After an error the queue item goes back to the queue with the copy it   *)
(* had, changed in place by updateStatus, and with its old version.        *)
(*                                                                         *)
(* Abstractions: every object has a VolumeSpec (the CRD requires it); the  *)
(* path of a dump is the number of the job that writes it; the lookups of  *)
(* the cluster and its password are one call that may fail; UPDATE events, *)
(* which handler() ignores, are left out; so are the pods of a job         *)
(* (watchJobDelete).                                                       *)
(***************************************************************************)
EXTENDS Integers, Sequences, FiniteSets

CONSTANTS
    Backups,      \* names of PGClusterBackup objects
    MaxUids,      \* bound: objects ever created
    MaxJobs,      \* bound: jobs ever created
    MaxFaults,    \* bound: API calls and removals of files that fail
    MaxCrashes,   \* bound: restarts of the operator
    MaxBackoffs   \* bound: times a job's pod fails and is started again

ASSUME NamesAssumption == IsFiniteSet(Backups)
ASSUME BoundAssumption ==
    /\ MaxUids \in Nat /\ MaxJobs \in Nat /\ MaxFaults \in Nat
    /\ MaxCrashes \in Nat /\ MaxBackoffs \in Nat

VARIABLES
    cr,          \* cr[b]: the object in the API server
    uids,        \* objects created so far
    queue,       \* the workqueue
    retry,       \* items waiting for AddRateLimited, each with a delay of its own
    task,        \* what the worker is executing
    job,         \* the job object of the fixed name
    jobs,        \* jobs created so far
    dump,        \* dump[j]: the file job j writes
    owner,       \* history: owner[j], the uid of the object job j was created for
    faults, crashes, backoffs

obj_vars == <<cr, uids>>
job_vars == <<job, jobs, dump, owner>>
cnt_vars == <<faults, crashes, backoffs>>
vars == <<obj_vars, queue, retry, task, job_vars, cnt_vars>>

----------------------------------------------------------------------------
States == {"", "running", "rejected", "error", "ready"}
Finished == {"rejected", "error", "ready"}

\* A copy of an object: uid 0 is no object, path 0 is an empty BackupPath;
\* named: Spec.ClusterName is not empty.
Copies == [uid : 1 .. MaxUids, ver : Nat, state : States, path : 0 .. MaxJobs,
           named : BOOLEAN]
NoCopy == [uid |-> 0, ver |-> 0, state |-> "", path |-> 0, named |-> TRUE]

Items == [action : {"ADD", "DELETE"}, name : Backups, copy : Copies]

\* phase: where handler() is; item: the queue item, whose copy updateStatus
\* changes; local: the variable `backup' after the Running update.
NoItem == [action |-> "NONE"]
Idle == [phase |-> "idle", item |-> NoItem, local |-> NoCopy]
Tasks == [phase : {"idle", "handler", "gone", "create", "failed", "run", "wait"},
          item : Items \cup {NoItem}, local : Copies \cup {NoCopy}]

\* "new": created, no pod yet; "backoff": a pod failed, the next one will start.
NoJob == [id |-> 0, st |-> "none", deleting |-> FALSE]
Jobs == [id : 1 .. MaxJobs, st : {"new", "active", "backoff", "succeeded", "failed"},
         deleting : BOOLEAN]

Init == /\ cr = [b \in Backups |-> NoCopy]
        /\ uids = 0
        /\ queue = <<>> /\ retry = {}
        /\ task = Idle
        /\ job = NoJob /\ jobs = 0
        /\ dump = [j \in 1 .. MaxJobs |-> "none"]
        /\ owner = [j \in 1 .. MaxJobs |-> 0]
        /\ faults = 0 /\ crashes = 0 /\ backoffs = 0

----------------------------------------------------------------------------
(* Users, or the backup watcher, create and delete objects; the informer   *)
(* hands them to handleAddObject and handleDeleteObject.                   *)

Enqueue(a, b, c) == queue' = Append(queue, [action |-> a, name |-> b, copy |-> c])

CreateBackup(b) ==
    /\ cr[b] = NoCopy
    /\ uids < MaxUids
    /\ uids' = uids + 1
    /\ \E named \in BOOLEAN :
        LET c == [uid |-> uids + 1, ver |-> 0, state |-> "", path |-> 0,
                  named |-> named] IN
        /\ cr' = [cr EXCEPT ![b] = c]
        /\ Enqueue("ADD", b, c)
    /\ UNCHANGED <<retry, task, job_vars, cnt_vars>>

DeleteBackup(b) ==
    /\ cr[b] # NoCopy
    /\ cr' = [cr EXCEPT ![b] = NoCopy]
    /\ Enqueue("DELETE", b, cr[b])
    /\ UNCHANGED <<uids, retry, task, job_vars, cnt_vars>>

----------------------------------------------------------------------------
(* The worker: processNextWorkItem.                                        *)

Get ==
    /\ task.phase = "idle"
    /\ queue # <<>>
    /\ task' = [Idle EXCEPT !.phase = "handler", !.item = Head(queue)]
    /\ queue' = Tail(queue)
    /\ UNCHANGED <<obj_vars, retry, job_vars, cnt_vars>>

Requeue ==
    /\ \E i \in retry : queue' = Append(queue, i) /\ retry' = retry \ {i}
    /\ UNCHANGED <<obj_vars, task, job_vars, cnt_vars>>

\* handler() returned: nil, or an error with the item's copy as it is now.
Return == task' = Idle /\ UNCHANGED retry
Fail(c) ==
    /\ task' = Idle
    /\ retry' = retry \cup {[task.item EXCEPT !.copy = c]}

\* The API server lets the call through, or refuses it without effect.
Works == UNCHANGED faults
Breaks == faults < MaxFaults /\ faults' = faults + 1

\* UpdateStatus: optimistic concurrency on the resourceVersion.
Current_AnyVersion(c) == cr[task.item.name].uid = c.uid
Current(c) ==
    cr[task.item.name].uid = c.uid /\ cr[task.item.name].ver = c.ver

\* updateStatus(c, state) changes its copy to Marked(c, state) and then calls
\* UpdateStatus, which returns Stored(c, state) or an error.
Marked(c, state) == [c EXCEPT !.state = state]
Stored(c, state) == [Marked(c, state) EXCEPT !.ver = @ + 1]

\* A copy that is not current is refused; a call that breaks may have been applied
\* before its answer was lost.
UpdateStatus(c, state, ok) ==
    LET write == Current(c) /\ cr' = [cr EXCEPT ![task.item.name] = Stored(c, state)] IN
    \/ ok /\ Works /\ write
    \/ ~ok /\ Works /\ ~Current(c) /\ UNCHANGED cr
    \/ ~ok /\ Breaks /\ (write \/ UNCHANGED cr)

----------------------------------------------------------------------------
(* handler(), case ADD.                                                    *)

InHandler(a) == task.phase = "handler" /\ task.item.action = a
Copy == task.item.copy

IgnoreFinished_Running ==
    /\ InHandler("ADD")
    /\ Copy.state \in Finished \cup {"running"}
    /\ Return
    /\ UNCHANGED <<obj_vars, queue, job_vars, cnt_vars>>

\* `ignore backup with finished state'
IgnoreFinished ==
    /\ InHandler("ADD")
    /\ Copy.state \in Finished
    /\ Return
    /\ UNCHANGED <<obj_vars, queue, job_vars, cnt_vars>>

RefuseUnnamed ==
    /\ InHandler("ADD")
    /\ Copy.state \notin Finished
    /\ ~Copy.named
    /\ \E ok \in BOOLEAN : UpdateStatus(Copy, "error", ok)
    /\ Fail(Marked(Copy, "error"))
    /\ UNCHANGED <<uids, queue, job_vars, crashes, backoffs>>

\* The cluster, its secret or the previous job cannot be read, the previous job
\* cannot be deleted, or is not gone within a minute.
ApiError ==
    /\ task.phase \in {"handler", "gone"} /\ task.item.action = "ADD"
    /\ Copy.state \notin Finished /\ Copy.named
    /\ Breaks
    /\ Fail(Copy)
    /\ UNCHANGED <<obj_vars, queue, job_vars, crashes, backoffs>>

\* currentJob.Status.Active > 0
RejectDuplicate ==
    /\ InHandler("ADD")
    /\ Copy.state \notin Finished /\ Copy.named
    /\ job.st = "active"
    /\ \E ok \in BOOLEAN : /\ UpdateStatus(Copy, "rejected", ok)
                           /\ IF ok THEN Return ELSE Fail(Marked(Copy, "rejected"))
    /\ UNCHANGED <<uids, queue, job_vars, crashes, backoffs>>

\* Succeeded > 0 || Failed > 0: delete the previous job.
DeletePrevJob ==
    /\ InHandler("ADD")
    /\ Copy.state \notin Finished /\ Copy.named
    /\ job.st \in {"backoff", "succeeded", "failed"}
    /\ job' = [job EXCEPT !.deleting = TRUE]
    /\ task' = [task EXCEPT !.phase = "gone"]
    /\ UNCHANGED <<obj_vars, queue, retry, jobs, dump, owner, cnt_vars>>

NoPrevJob ==
    /\ InHandler("ADD")
    /\ Copy.state \notin Finished /\ Copy.named
    /\ job.st \in {"none", "new"}
    /\ task' = [task EXCEPT !.phase = "create"]
    /\ UNCHANGED <<obj_vars, queue, retry, job_vars, cnt_vars>>

\* `waiting for job deleted'
PrevJobGone ==
    /\ task.phase = "gone"
    /\ job = NoJob
    /\ task' = [task EXCEPT !.phase = "create"]
    /\ UNCHANGED <<obj_vars, queue, retry, job_vars, cnt_vars>>

\* A job object of the fixed name, created for the object of the item at hand.
NewJob ==
    /\ jobs' = jobs + 1
    /\ job' = [id |-> jobs + 1, st |-> "new", deleting |-> FALSE]
    /\ owner' = [owner EXCEPT ![jobs + 1] = Copy.uid]

\* The path is set in the item's copy, then the job is created.
CreateJob ==
    /\ task.phase = "create"
    /\ job = NoJob
    /\ jobs < MaxJobs
    /\ NewJob
    /\ task' = [task EXCEPT !.phase = "run", !.item.copy.path = jobs + 1]
    /\ UNCHANGED <<obj_vars, queue, retry, dump, cnt_vars>>

\* The job cannot be created: one of this name exists, or the call breaks (its
\* answer may be all that was lost: the job is there).  The copy keeps the path;
\* 0 stands for the path of a job that does not exist.
CreateJobFails ==
    /\ task.phase = "create"
    /\ \/ /\ job # NoJob /\ Works
          /\ task' = [task EXCEPT !.phase = "failed", !.item.copy.path = 0]
          /\ UNCHANGED <<job, jobs, owner>>
       \/ /\ Breaks
          /\ task' = [task EXCEPT !.phase = "failed", !.item.copy.path = 0]
          /\ UNCHANGED <<job, jobs, owner>>
       \/ /\ Breaks
          /\ job = NoJob /\ jobs < MaxJobs
          /\ NewJob
          /\ task' = [task EXCEPT !.phase = "failed", !.item.copy.path = jobs + 1]
    /\ UNCHANGED <<obj_vars, queue, retry, dump, crashes, backoffs>>

\* `c.updateStatus(backup, BackupStateError, err); return err'
MarkFailed ==
    /\ task.phase = "failed"
    /\ \E ok \in BOOLEAN : UpdateStatus(Copy, "error", ok)
    /\ Fail(Marked(Copy, "error"))
    /\ UNCHANGED <<uids, queue, job_vars, crashes, backoffs>>

MarkRunning_PollByRequeue ==
    /\ task.phase = "run"
    /\ \E ok \in BOOLEAN :
        /\ UpdateStatus(Copy, "running", ok)
        /\ Fail(IF ok THEN Stored(Copy, "running") ELSE Marked(Copy, "running"))
    /\ UNCHANGED <<uids, queue, job_vars, crashes, backoffs>>

\* `backup, err = c.updateStatus(backup, Running)': the item keeps the old copy,
\* the new one is only known to this call of handler().
MarkRunning ==
    /\ task.phase = "run"
    /\ \E ok \in BOOLEAN :
        /\ UpdateStatus(Copy, "running", ok)
        /\ IF ok THEN /\ task' = [task EXCEPT !.phase = "wait",
                                              !.item.copy = Marked(Copy, "running"),
                                              !.local = Stored(Copy, "running")]
                      /\ UNCHANGED retry
                 ELSE Fail(Marked(Copy, "running"))
    /\ UNCHANGED <<uids, queue, job_vars, crashes, backoffs>>

\* waitForJobComplete.  The outcome of the job is written from the local copy;
\* if that fails the item returns to the queue with its own, older, copy.
\* Outcome: the state that is recorded for the job as the poll finds it.
Outcome_AnyEnd(st) == IF st \in {"succeeded", "failed", "backoff"} THEN "ready" ELSE ""
Outcome(st) == CASE st = "succeeded" -> "ready"
                 [] st \in {"failed", "backoff"} -> "error"
                 [] OTHER -> ""

JobCompleted ==
    /\ task.phase = "wait"
    /\ Outcome(job.st) # ""
    /\ \E ok \in BOOLEAN : /\ UpdateStatus(task.local, Outcome(job.st), ok)
                           /\ IF ok THEN Return ELSE Fail(Copy)
    /\ UNCHANGED <<uids, queue, job_vars, crashes, backoffs>>

\* A poll fails: the call breaks, the job is gone, or the hour is over.
WaitFails ==
    /\ task.phase = "wait"
    /\ (job = NoJob /\ Works) \/ Breaks
    /\ Fail(Copy)
    /\ UNCHANGED <<obj_vars, queue, job_vars, crashes, backoffs>>

\* handler(), case DELETE: clean up the backup files.
RemoveFiles ==
    /\ InHandler("DELETE")
    /\ dump' = IF Copy.path = 0 THEN dump ELSE [dump EXCEPT ![Copy.path] = "none"]
    /\ Return
    /\ UNCHANGED <<obj_vars, queue, job, jobs, owner, cnt_vars>>

\* os.RemoveAll fails: the item goes back to the queue.
RemoveFails ==
    /\ InHandler("DELETE")
    /\ Copy.path # 0
    /\ Breaks
    /\ Fail(Copy)
    /\ UNCHANGED <<obj_vars, queue, job_vars, crashes, backoffs>>

----------------------------------------------------------------------------
(* The job controller, the pods and the TTL controller (external).         *)

JobStep(st) == job' = [job EXCEPT !.st = st]

JobStarts ==
    /\ job.st \in {"new", "backoff"} /\ ~job.deleting
    /\ JobStep("active")
    /\ dump' = [dump EXCEPT ![job.id] = "partial"]
    /\ UNCHANGED <<obj_vars, queue, retry, task, jobs, owner, cnt_vars>>

JobEnds ==
    /\ job.st = "active" /\ ~job.deleting
    /\ \/ /\ JobStep("succeeded")
          /\ dump' = [dump EXCEPT ![job.id] = "complete"]
          /\ UNCHANGED backoffs
       \/ JobStep("failed") /\ UNCHANGED <<dump, backoffs>>
       \/ /\ backoffs < MaxBackoffs /\ backoffs' = backoffs + 1
          /\ JobStep("backoff") /\ UNCHANGED dump
    /\ UNCHANGED <<obj_vars, queue, retry, task, jobs, owner, faults, crashes>>

\* Garbage collection of a deleted job.
JobRemoved ==
    /\ job.deleting
    /\ job' = NoJob
    /\ UNCHANGED <<obj_vars, queue, retry, task, jobs, dump, owner, cnt_vars>>

\* TTLSecondsAfterFinished is five minutes, and handler() polls its job every five
\* seconds: a job does not expire under a handler that is about to look at it.
JobExpires ==
    /\ job.st \in {"succeeded", "failed"} /\ ~job.deleting
    /\ task.phase \notin {"run", "wait"}
    /\ job' = [job EXCEPT !.deleting = TRUE]
    /\ UNCHANGED <<obj_vars, queue, retry, task, jobs, dump, owner, cnt_vars>>

----------------------------------------------------------------------------
\* The operator restarts: every object that exists arrives as an ADD again.
Restart ==
    /\ crashes < MaxCrashes
    /\ crashes' = crashes + 1
    /\ task' = Idle /\ retry' = {}
    /\ \E s \in [1 .. Cardinality({b \in Backups : cr[b] # NoCopy})
                   -> {b \in Backups : cr[b] # NoCopy}] :
        /\ \A k, l \in DOMAIN s : k # l => s[k] # s[l]
        /\ queue' = [k \in DOMAIN s |->
                       [action |-> "ADD", name |-> s[k], copy |-> cr[s[k]]]]
    /\ UNCHANGED <<obj_vars, job_vars, faults, backoffs>>

Handler ==
    \/ IgnoreFinished \/ RefuseUnnamed \/ RejectDuplicate \/ DeletePrevJob
    \/ NoPrevJob \/ PrevJobGone \/ CreateJob \/ CreateJobFails
    \/ MarkFailed \/ MarkRunning \/ JobCompleted \/ WaitFails \/ RemoveFiles

Next ==
    \/ \E b \in Backups : CreateBackup(b) \/ DeleteBackup(b)
    \/ Get \/ Requeue \/ Handler \/ ApiError \/ RemoveFails
    \/ JobStarts \/ JobEnds \/ JobRemoved \/ JobExpires
    \/ Restart

Spec == Init /\ [][Next]_vars

----------------------------------------------------------------------------
(* Properties.                                                             *)

\* Objects, items, the worker and the job are of their types.
TypeOK ==
    /\ cr \in [Backups -> Copies \cup {NoCopy}]
    /\ uids \in 0 .. MaxUids
    /\ queue \in Seq(Items) /\ retry \subseteq Items
    /\ task \in Tasks
    /\ job \in Jobs \cup {NoJob} /\ jobs \in 0 .. MaxJobs
    /\ dump \in [1 .. MaxJobs -> {"none", "partial", "complete"}]
    /\ owner \in [1 .. MaxJobs -> 0 .. MaxUids]
    /\ faults \in 0 .. MaxFaults /\ crashes \in 0 .. MaxCrashes
    /\ backoffs \in 0 .. MaxBackoffs

\* A backup that says it is ready can be restored: its BackupPath is a dump that
\* a job created for this very object has completed.  Failures, lost answers,
\* restarts, stale retries and jobs of other objects included.
ReadyMeansDumped ==
    \A b \in Backups :
        cr[b].state = "ready"
        => cr[b].path # 0 /\ dump[cr[b].path] = "complete" /\ owner[cr[b].path] = cr[b].uid

\* What can be read off the object is true.
BackupsSound == TypeOK /\ ReadyMeansDumped

\* A finished object never changes again: a retry that works from an old copy,
\* or a job that runs on, does not touch the outcome that has been reported.
FinishedIsFinal ==
    [][\A b \in Backups :
         (cr[b].state \in Finished /\ cr'[b].uid = cr[b].uid) => cr'[b] = cr[b]]_vars

\* Without a restart and without failing calls a backup is rejected only in
\* favour of another one: no job was ever created for it.
RejectedNeverRan ==
    (crashes = 0 /\ faults = 0) =>
        \A b \in Backups : cr[b].state = "rejected"
                           => \A j \in 1 .. jobs : owner[j] # cr[b].uid

\* Every backup reaches an outcome, or its object is deleted (or the bound on
\* jobs, which stale items of deleted objects can use up, is reached).  The
\* fairness is stated in PGRestore.
EveryBackupFinishes ==
    \A b \in Backups : \A u \in 1 .. MaxUids :
        cr[b].uid = u ~> \/ cr[b].uid # u \/ cr[b].state \in Finished
                         \/ jobs = MaxJobs
=============================================================================
