----------------------------- MODULE PGRestore -----------------------------
(***************************************************************************)
(* The pgcluster-restore controller at work beside the backup controller:  *)
(*   cmd/middleware/operator/pgcluster-restore/{controller,handler}.go     *)
(*                                                                         *)
(* A PGClusterRestore object names a PGClusterBackup.  When that backup is *)
(* ready, one worker runs psql on its dump, in a Job of a fixed name, and  *)
(* records the outcome.  The two controllers share the operator's process  *)
(* (a restart ends both) and the files of the dumps.                       *)
(*                                                                         *)
(* Abstractions are those of PGBackup.  UPDATE and DELETE events, which    *)
(* handler() ignores, are left out, and a name is used once.               *)
(***************************************************************************)
EXTENDS PGBackup

CONSTANTS
    Restores,     \* names of PGClusterRestore objects
    MaxRJobs,     \* bound: restore jobs ever created
    MaxRFaults    \* bound: calls of the restore controller that fail

ASSUME RNamesAssumption == Backups # {}
ASSUME RBoundAssumption == MaxRJobs \in Nat /\ MaxRFaults \in Nat

VARIABLES
    rcr,          \* rcr[s]: the object in the API server
    rqueue,       \* items of the queue, with their delays: in no fixed order
    rtask,        \* what the worker of the restore controller is executing
    rjob,         \* the restore job of the fixed name
    rjobs,        \* restore jobs created so far
    load,         \* load[j]: history, what job j is for, what it has read, and its
                  \* pods: the runs of psql that were started and that failed
    rfaults

rjob_vars == <<rjob, rjobs, load>>
rvars == <<rcr, rqueue, rtask, rjob_vars, rfaults>>
all_vars == <<vars, rvars>>

\* A copy of an object, with the backup it names.
RCopies == [life : {"no", "live", "gone"}, ver : Nat, state : States, named : BOOLEAN,
            of : Backups]
RItems == [name : Restores, copy : RCopies]

RIdle == [phase |-> "idle"]
RNoJob == [id |-> 0, st |-> "none", deleting |-> FALSE, tries |-> 0]
NoLoad == [of |-> NoItem, path |-> 0, got |-> "none", done |-> FALSE, runs |-> 0, failed |-> 0]

RInit ==
    /\ Init
    /\ rcr = [s \in Restores |-> [life |-> "no", ver |-> 0, state |-> "", named |-> TRUE,
                                  of |-> CHOOSE b \in Backups : TRUE]]
    /\ rqueue = {} /\ rtask = RIdle
    /\ rjob = RNoJob /\ rjobs = 0
    /\ load = [j \in 1 .. MaxRJobs |-> NoLoad]
    /\ rfaults = 0

----------------------------------------------------------------------------
(* Objects and the queue.                                                  *)

CreateRestore(s) ==
    /\ rcr[s].life = "no"
    /\ \E named \in BOOLEAN, b \in Backups :
        LET c == [rcr[s] EXCEPT !.life = "live", !.named = named, !.of = b] IN
        /\ rcr' = [rcr EXCEPT ![s] = c]
        /\ rqueue' = rqueue \cup {[name |-> s, copy |-> c]}
    /\ UNCHANGED <<rtask, rjob_vars, rfaults>>

DeleteRestore(s) ==
    /\ rcr[s].life = "live"
    /\ rcr' = [rcr EXCEPT ![s].life = "gone"]
    /\ UNCHANGED <<rqueue, rtask, rjob_vars, rfaults>>

RGet(s) ==
    /\ rtask = RIdle
    /\ \E i \in rqueue : /\ i.name = s
                         /\ rqueue' = rqueue \ {i}
                         /\ rtask' = [phase |-> "handler", name |-> s, copy |-> i.copy,
                                      local |-> i.copy, path |-> 0]
    /\ UNCHANGED <<rcr, rjob_vars, rfaults>>

RReturn == rtask' = RIdle /\ UNCHANGED rqueue
RFail(c) ==
    /\ rtask' = RIdle
    /\ rqueue' = rqueue \cup {[name |-> rtask.name, copy |-> c]}

RWorks == UNCHANGED rfaults
RBreaks == rfaults < MaxRFaults /\ rfaults' = rfaults + 1

\* updateStatus, with optimistic concurrency and answers that may be lost.
RUpdateStatus(c, state, ok) ==
    LET current == rcr[rtask.name].life = "live" /\ rcr[rtask.name].ver = c.ver
        write == current /\ rcr' = [rcr EXCEPT ![rtask.name] = Stored(c, state)] IN
    \/ ok /\ RWorks /\ write
    \/ ~ok /\ RWorks /\ ~current /\ UNCHANGED rcr
    \/ ~ok /\ RBreaks /\ (write \/ UNCHANGED rcr)

----------------------------------------------------------------------------
(* handler(), case ADD.                                                    *)

RPhase(p) == rtask.phase = p
RGoto(p) == rtask' = [rtask EXCEPT !.phase = p] /\ UNCHANGED rqueue
RCopy == rtask.copy
RStarts == RPhase("handler") /\ RCopy.state \notin Finished

RIgnoreFinished ==
    /\ RPhase("handler")
    /\ RCopy.state \in Finished
    /\ RReturn
    /\ UNCHANGED <<rcr, rjob_vars, rfaults>>

\* updateStatus(restore.DeepCopy(), ...): the item keeps its copy, and the error
\* brings it back again and again.
RRefuseUnnamed ==
    /\ RStarts /\ ~RCopy.named
    /\ \E ok \in BOOLEAN : RUpdateStatus(RCopy, "error", ok)
    /\ RFail(RCopy)
    /\ UNCHANGED rjob_vars

LookupBackup_AnyState ==
    /\ RStarts /\ RCopy.named
    /\ rtask' = [rtask EXCEPT !.phase = "job", !.path = cr[RCopy.of].path]
    /\ cr[RCopy.of].path # 0
    /\ RWorks /\ UNCHANGED <<rqueue, rcr, rjob_vars>>

\* A backup that is not ready, or not there, is waited for by returning an error.
LookupBackup ==
    /\ RStarts /\ RCopy.named
    /\ LET b == cr[RCopy.of] IN
       CASE b.state # "ready" -> RFail(RCopy) /\ RWorks /\ UNCHANGED rcr
         [] b.state = "ready" /\ b.path = 0 ->
              /\ \E ok \in BOOLEAN : RUpdateStatus(RCopy, "rejected", ok)
              /\ RFail(Marked(RCopy, "rejected"))
         [] OTHER -> /\ rtask' = [rtask EXCEPT !.phase = "job", !.path = b.path]
                     /\ RWorks /\ UNCHANGED <<rqueue, rcr>>
    /\ UNCHANGED rjob_vars

\* The cluster, its secret, the backup or the previous job cannot be read, or
\* the previous job not deleted.
RApiError ==
    /\ (RStarts /\ RCopy.named) \/ RPhase("job")
    /\ RBreaks
    /\ RFail(RCopy)
    /\ UNCHANGED <<rcr, rjob_vars>>

RRejectDuplicate ==
    /\ RPhase("job")
    /\ rjob.st = "active"
    /\ \E ok \in BOOLEAN : /\ RUpdateStatus(RCopy, "rejected", ok)
                           /\ IF ok THEN RReturn ELSE RFail(Marked(RCopy, "rejected"))
    /\ UNCHANGED rjob_vars

\* The previous job is deleted; unlike the backup controller, this one does not
\* wait until it is gone.
RDeletePrevJob ==
    /\ RPhase("job")
    /\ rjob.st \in {"backoff", "succeeded", "failed"}
    /\ rjob' = [rjob EXCEPT !.deleting = TRUE]
    /\ RGoto("create")
    /\ UNCHANGED <<rcr, rjobs, load, rfaults>>

RNoPrevJob ==
    /\ RPhase("job")
    /\ rjob.st \in {"none", "new"}
    /\ RGoto("create")
    /\ UNCHANGED <<rcr, rjob_vars, rfaults>>

RNewJob ==
    /\ rjob = RNoJob /\ rjobs < MaxRJobs
    /\ rjobs' = rjobs + 1
    /\ rjob' = [RNoJob EXCEPT !.id = rjobs + 1, !.st = "new"]
    /\ load' = [load EXCEPT ![rjobs + 1] = [NoLoad EXCEPT !.of = rtask.name, !.path = rtask.path]]

RCreateJob ==
    /\ RPhase("create")
    /\ RNewJob
    /\ RGoto("run")
    /\ UNCHANGED <<rcr, rfaults>>

\* A job of this name exists, or the call breaks, with or without an effect.
RCreateJobFails ==
    /\ RPhase("create")
    /\ \/ rjob # RNoJob /\ RWorks /\ UNCHANGED rjob_vars
       \/ RBreaks /\ (RNewJob \/ UNCHANGED rjob_vars)
    /\ RGoto("failed")
    /\ UNCHANGED rcr

RMarkFailed ==
    /\ RPhase("failed")
    /\ \E ok \in BOOLEAN : RUpdateStatus(RCopy, "error", ok)
    /\ RFail(Marked(RCopy, "error"))
    /\ UNCHANGED rjob_vars

RMarkRunning ==
    /\ RPhase("run")
    /\ \E ok \in BOOLEAN :
        /\ RUpdateStatus(RCopy, "running", ok)
        /\ IF ok THEN /\ rtask' = [rtask EXCEPT !.phase = "wait",
                                                !.copy = Marked(RCopy, "running"),
                                                !.local = Stored(RCopy, "running")]
                      /\ UNCHANGED rqueue
                 ELSE RFail(Marked(RCopy, "running"))
    /\ UNCHANGED rjob_vars

RJobCompleted ==
    /\ RPhase("wait")
    /\ Outcome(rjob.st) # ""
    /\ \E ok \in BOOLEAN : /\ RUpdateStatus(rtask.local, Outcome(rjob.st), ok)
                           /\ IF ok THEN RReturn ELSE RFail(RCopy)
    /\ UNCHANGED rjob_vars

RWaitFails ==
    /\ RPhase("wait")
    /\ (rjob = RNoJob /\ RWorks) \/ RBreaks
    /\ RFail(RCopy)
    /\ UNCHANGED <<rcr, rjob_vars>>

----------------------------------------------------------------------------
(* The restore job (external): psql -f runs to the end of the file, whole  *)
(* or not, and fails without one.  A pod that failed, perhaps in the midst *)
(* of the file, is followed by another, since the job has no BackoffLimit  *)
(* of its own.                                                             *)

RJobStarts ==
    /\ rjob.st \in {"new", "backoff"} /\ ~rjob.deleting
    /\ rjob' = [rjob EXCEPT !.st = "active"]
    /\ load' = [load EXCEPT ![rjob.id].got = dump[load[rjob.id].path], ![rjob.id].runs = @ + 1]
    /\ UNCHANGED <<rcr, rqueue, rtask, rjobs, rfaults>>

RJobEnds ==
    /\ rjob.st = "active" /\ ~rjob.deleting
    /\ \/ /\ load[rjob.id].got # "none"
          /\ rjob' = [rjob EXCEPT !.st = "succeeded"]
          /\ load' = [load EXCEPT ![rjob.id].done = TRUE]
       \/ /\ \/ rjob' = [rjob EXCEPT !.st = "failed"]
             \/ rjob.tries < MaxBackoffs /\ rjob' = [rjob EXCEPT !.st = "backoff", !.tries = @ + 1]
          /\ load' = [load EXCEPT ![rjob.id].failed = @ + 1]
    /\ UNCHANGED <<rcr, rqueue, rtask, rjobs, rfaults>>

RJobRemoved ==
    /\ rjob.deleting
    /\ rjob' = RNoJob
    /\ UNCHANGED <<rcr, rqueue, rtask, rjobs, load, rfaults>>

RJobExpires ==
    /\ rjob.st \in {"succeeded", "failed"} /\ ~rjob.deleting
    /\ rtask = RIdle
    /\ rjob' = [rjob EXCEPT !.deleting = TRUE]
    /\ UNCHANGED <<rcr, rqueue, rtask, rjobs, load, rfaults>>

----------------------------------------------------------------------------
(* Both controllers.                                                       *)

\* What PGBackup!Restart does to this controller.
RRestart ==
    /\ rtask' = RIdle
    /\ rqueue' = {[name |-> s, copy |-> rcr[s]] : s \in {t \in Restores : rcr[t].life = "live"}}
    /\ UNCHANGED <<rcr, rjob_vars, rfaults>>

RHandler ==
    \/ RIgnoreFinished \/ RRefuseUnnamed \/ LookupBackup \/ RRejectDuplicate
    \/ RDeletePrevJob \/ RNoPrevJob \/ RCreateJob \/ RCreateJobFails \/ RMarkFailed
    \/ RMarkRunning \/ RJobCompleted \/ RWaitFails

RNext ==
    \/ Next /\ crashes' = crashes /\ UNCHANGED rvars
    \/ Restart /\ RRestart
    \/ \E s \in Restores : (CreateRestore(s) \/ DeleteRestore(s)) /\ UNCHANGED vars
    \/ \E s \in Restores : RGet(s) /\ UNCHANGED vars
    \/ RHandler /\ UNCHANGED vars
    \/ RApiError /\ UNCHANGED vars
    \/ (RJobStarts \/ RJobEnds \/ RJobRemoved \/ RJobExpires) /\ UNCHANGED vars

RSpec == RInit /\ [][RNext]_all_vars

\* The worker goroutines run, delays pass, and Kubernetes runs and removes jobs;
\* the workqueue is first-in first-out, so an item that waits
\* behind others, which may return to the queue for ever, is taken.
RFairSpec ==
    /\ RSpec
    /\ WF_all_vars(Get /\ UNCHANGED rvars) /\ WF_all_vars(Requeue /\ UNCHANGED rvars)
    /\ WF_all_vars(Handler /\ UNCHANGED rvars)
    /\ WF_all_vars(JobStarts /\ UNCHANGED rvars) /\ WF_all_vars(JobEnds /\ UNCHANGED rvars)
    /\ WF_all_vars(JobRemoved /\ UNCHANGED rvars)
    /\ \A s \in Restores : SF_all_vars(RGet(s) /\ UNCHANGED vars)
    /\ WF_all_vars(RHandler /\ UNCHANGED vars)
    /\ WF_all_vars(RJobStarts /\ UNCHANGED vars) /\ WF_all_vars(RJobEnds /\ UNCHANGED vars)
    /\ WF_all_vars(RJobRemoved /\ UNCHANGED vars)

----------------------------------------------------------------------------
(* Properties.                                                             *)

\* Type invariant of what this module adds.
RTypeOK ==
    /\ rcr \in [Restores -> RCopies] /\ rqueue \subseteq RItems
    /\ rtask = RIdle \/ rtask \in [phase : {"handler", "job", "create", "failed", "run", "wait"},
                                   name : Restores, copy : RCopies, local : RCopies,
                                   path : 0 .. MaxJobs]
    /\ rjob = RNoJob \/ rjob \in [id : 1 .. MaxRJobs, deleting : BOOLEAN, tries : 0 .. MaxBackoffs,
                                  st : {"new", "active", "backoff", "succeeded", "failed"}]
    /\ rjobs \in 0 .. MaxRJobs /\ rfaults \in 0 .. MaxRFaults

JobsOf(s) == {j \in 1 .. rjobs : load[j].of = s}

\* A restore says it is ready only after a job made for it has loaded a dump that
\* was complete when the job opened it, although the backup may be deleted, fail
\* or be repeated at any time after the restore has looked at it.
ReadyMeansLoaded ==
    \A s \in Restores : rcr[s].state = "ready" =>
        \E j \in JobsOf(s) : load[j].done /\ load[j].got = "complete"

\* psql does not clear the database, so a dump that psql is loading or has loaded
\* must not be loaded again.  As long as the object exists, no call of the
\* controller fails and the operator does not restart, it is not: there is one job,
\* and it runs psql a second time only after a run that failed (of which psql has
\* kept whatever it executed before it failed).
LoadedAgainOnlyAfterFailure ==
    (crashes = 0 /\ rfaults = 0) =>
        \A s \in Restores : rcr[s].life = "live" =>
            /\ Cardinality(JobsOf(s)) <= 1
            /\ \A j \in JobsOf(s) : load[j].runs <= load[j].failed + 1

\* What the restore controller promises, in one invariant.
RestoreSound == RTypeOK /\ ReadyMeansLoaded /\ LoadedAgainOnlyAfterFailure

\* Without failing calls, a restore whose backup is there to stay gets an
\* outcome (or the bound on jobs is reached), restarts included.
EveryRestoreFinishes ==
    \A s \in Restores :
        <>[](rcr[s].life = "live" /\ cr[rcr[s].of].state = "ready") =>
            <>(rcr[s].state \in Finished \/ rfaults > 0 \/ rjobs = MaxRJobs)

\* Backups and restores all get an outcome.
EveryOutcomeComes == EveryBackupFinishes /\ EveryRestoreFinishes
=============================================================================
