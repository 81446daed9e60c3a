------------------------- MODULE RequestController -------------------------
(***************************************************************************)
(* The middleware-request controller of the middleware operator, for       *)
(* requests of type PostgreSQL:                                            *)
(*   cmd/middleware/operator/middleware-request/controller.go  (the queue) *)
(*   cmd/middleware/operator/middleware-request/handler.go  (the dispatch) *)
(*   cmd/middleware/operator/middleware-request/handler_pg.go  (the work)  *)
(*   pkg/postgres/client.go  (the SQL the work is made of)                 *)
(*                                                                         *)
(* A MiddlewareRequest asks for a database role and some databases on the  *)
(* citus cluster (node 0 is the master).  An informer turns changes of the *)
(* request objects into queue items; one worker goroutine takes the items  *)
(* one by one and runs SQL statements node by node.  A second goroutine,   *)
(* the pgcluster controller, replays every request when the cluster has    *)
(* been created anew (PGClusterRecreated), without going through the queue.*)
(*                                                                         *)
(* One step of the model is one SQL statement group on one node, so that   *)
(* the two goroutines interleave and a failure can hit between any two     *)
(* statements.  Abstractions: every request has its own role and its own   *)
(* application namespace, so databases are kept per request; the password  *)
(* of a role is the version of the object it was written from; extensions, *)
(* scripts and the citus extension of a database are one flag (`setup').   *)
(***************************************************************************)
EXTENDS Integers, Sequences, FiniteSets

CONSTANTS
    Requests,        \* names of MiddlewareRequest objects
    Dbs,             \* database names a request may list
    Dist,            \* the databases that are distributed (db.IsDistributed())
    Replicas,        \* replicas of the citus StatefulSet
    MaxGen,          \* bound: changes of one request object in the API server
    MaxFaults,       \* bound: SQL statements and API calls that fail
    MaxCrashes,      \* bound: restarts of the operator
    MaxRelists,      \* bound: re-lists of the informer after a lost watch
    MaxRecreates     \* bound: times the cluster is created anew

ASSUME DistAssumption == Dist \subseteq Dbs
ASSUME ReplicasAssumption == Replicas \in Nat \ {0}
ASSUME BoundAssumption ==
    /\ MaxGen \in Nat /\ MaxFaults \in Nat /\ MaxCrashes \in Nat
    /\ MaxRelists \in Nat /\ MaxRecreates \in Nat

VARIABLES
    gen,         \* gen[r]: number of changes of r in the API server so far
    api,         \* api[r]: the object in the API server, or absent
    known,       \* known[r]: the object in the informer's cache
    watch,       \* watch[r]: events of r on their way to the event handlers
    queue,       \* the workqueue
    delayed,     \* items of AddAfter(5s): equal delays, so a FIFO
    task,        \* what each of the two goroutines is executing
    notify,      \* "due": notifyClusterCreated has yet to call PGClusterRecreated
    replay,      \* requests PGClusterRecreated listed and has yet to visit
    role,        \* role[n][r]: version whose password r's role has, 0: no role
    dbs,         \* dbs[n][r]: databases owned by r's role on node n
    setup,       \* setup[n][r]: of these, the ones whose citus, extension and
                 \* script statements have run
    workers,     \* workers[r]: <<d, n>> if the master lists n as worker of d
    faults, crashes, relists, recreates,     \* what the bounds count
    applied,     \* history: newest version of r an item of which completed
    excuse       \* history: excuse[r], how the code left r's events behind

api_vars  == <<gen, api>>
inf_vars  == <<known, watch>>
pg_vars   == <<role, dbs, setup, workers>>
cnt_vars  == <<faults, crashes, relists, recreates>>
hist_vars == <<applied, excuse>>
vars == <<api_vars, inf_vars, queue, delayed, task, notify, replay,
          pg_vars, cnt_vars, hist_vars>>

Nodes == 0 .. Replicas - 1
Procs == {"worker", "recreate"}

----------------------------------------------------------------------------
(* Objects, queue items and tasks.                                         *)

\* A request object is its version and the databases it lists; 0 is no object.
Absent == [ver |-> 0, dbs |-> {}]
Objects == [ver : 1 .. MaxGen, dbs : SUBSET Dbs]

\* enqueueObj: the action and the object the event carried.  tomb: the object
\* is a cache.DeletedFinalStateUnknown, not a *MiddlewareRequest.
Items == [action : {"ADD", "UPDATE", "DELETE"}, req : Requests,
          ver : 1 .. MaxGen, dbs : SUBSET Dbs, tomb : BOOLEAN]

Item(a, r, o, v, t) ==
    [action |-> a, req |-> r, ver |-> v, dbs |-> o.dbs, tomb |-> t]

\* Where a goroutine is.  "handler": at the entry of handler();
\* "user", "createdb", "setup": in the node loop of createOrUpdatePGRequest;
\* "addworker": in addWorkerNode; "list", "prune": deleteDatabaseIfNotExists;
\* "drop", "droprest": deletePGAll; "done": handler() returned nil.
Phases == {"idle", "handler", "user", "createdb", "setup", "addworker",
           "list", "prune", "drop", "droprest", "done"}

\* NoItem and NoDb stand for `nothing'; NoDb is only compared with databases.
NoItem == [action |-> "NONE"]

\* todo: what the innermost loop still has to visit; db: the one it is at.
Idle == [phase |-> "idle", item |-> NoItem, node |-> 0, todo |-> {}, db |-> {}]

\* db is a singleton, or empty when no database is being worked on.
Tasks == [phase : Phases, item : Items \cup {NoItem}, node : Nodes,
          todo : SUBSET Dbs, db : SUBSET Dbs]

Start(i) == [Idle EXCEPT !.phase = "handler", !.item = i]

Running(p) == task[p].phase # "idle"

RunsOn(p, r) == Running(p) /\ task[p].item.req = r

\* index + 1 < *sts.Spec.Replicas: the node loop has another iteration.
MoreNodes_Inclusive(t) == t.node + 1 <= Replicas
MoreNodes(t) == t.node + 1 < Replicas

\* Databases of the item that node n has to hold (db.IsDistributed() || index == 0).
Wanted(i, n) == IF n = 0 THEN i.dbs ELSE i.dbs \cap Dist

----------------------------------------------------------------------------
(* The initial state: an empty cluster, no requests, an idle operator.     *)

NoPG == /\ role = [n \in Nodes |-> [r \in Requests |-> 0]]
        /\ dbs = [n \in Nodes |-> [r \in Requests |-> {}]]
        /\ setup = [n \in Nodes |-> [r \in Requests |-> {}]]
        /\ workers = [r \in Requests |-> {}]

Init == /\ gen = [r \in Requests |-> 0]
        /\ api = [r \in Requests |-> Absent]
        /\ known = [r \in Requests |-> Absent]
        /\ watch = [r \in Requests |-> <<>>]
        /\ queue = <<>>
        /\ delayed = <<>>
        /\ task = [p \in Procs |-> Idle]
        /\ notify = "none"
        /\ replay = {}
        /\ NoPG
        /\ faults = 0 /\ crashes = 0 /\ relists = 0 /\ recreates = 0
        /\ applied = [r \in Requests |-> 0]
        /\ excuse = [r \in Requests |-> {}]

----------------------------------------------------------------------------
(* The API server and the informer (client-go, external).                  *)

\* A user creates, edits or deletes request r; the watch carries the event.
Change(r, a, o) ==
    /\ gen[r] < MaxGen
    /\ gen' = [gen EXCEPT ![r] = @ + 1]
    /\ api' = [api EXCEPT ![r] = IF a = "DELETE" THEN Absent
                                 ELSE [ver |-> gen[r] + 1, dbs |-> o]]
    /\ watch' = [watch EXCEPT ![r] =
                    Append(@, Item(a, r, IF a = "DELETE" THEN api[r] ELSE [dbs |-> o],
                                   gen[r] + 1, FALSE))]
    /\ UNCHANGED <<known, queue, delayed, task, notify, replay,
                   pg_vars, cnt_vars, hist_vars>>

CreateRequest(r) == api[r] = Absent /\ \E o \in SUBSET Dbs : Change(r, "ADD", o)
EditRequest(r)   == api[r] # Absent /\ \E o \in SUBSET Dbs : Change(r, "UPDATE", o)
DeleteRequest(r) == api[r] # Absent /\ Change(r, "DELETE", {})

\* The informer calls the event handler, which enqueues the object it is given
\* (handleAddObject, handleUpdateObject, handleDeleteObject).
HandleEvent(r) ==
    /\ watch[r] # <<>>
    /\ LET e == Head(watch[r]) IN
        /\ known' = [known EXCEPT ![r] = IF e.action = "DELETE" THEN Absent
                                         ELSE [ver |-> e.ver, dbs |-> e.dbs]]
        /\ queue' = Append(queue, e)
    /\ watch' = [watch EXCEPT ![r] = Tail(@)]
    /\ UNCHANGED <<api_vars, delayed, task, notify, replay,
                   pg_vars, cnt_vars, hist_vars>>

\* The watch broke and the informer listed again: the pending events of r are
\* replaced by the difference between the cache and the list.  A deletion found
\* this way is delivered as a tombstone; an object that came and went while the
\* watch was down leaves no event at all, and one that was changed before the
\* cache of a restarted operator was filled is an ADD.
Relist(r) ==
    /\ relists < MaxRelists
    /\ watch[r] # <<>>
    /\ relists' = relists + 1
    /\ watch' = [watch EXCEPT ![r] =
         IF api[r] # Absent
           THEN <<Item(IF known[r] = Absent THEN "ADD" ELSE "UPDATE",
                       r, api[r], api[r].ver, FALSE)>>
           ELSE IF known[r] # Absent
             THEN <<Item("DELETE", r, known[r], gen[r], TRUE)>>
             ELSE <<>>]
    /\ excuse' = [excuse EXCEPT ![r] =
         IF known[r] = Absent /\ (api[r] = Absent \/ crashes > 0)
           THEN @ \cup {"lost"} ELSE @]
    /\ UNCHANGED <<api_vars, known, queue, delayed, task, notify, replay,
                   pg_vars, faults, crashes, recreates, applied>>

----------------------------------------------------------------------------
(* The worker: processNextWorkItem.                                        *)

Stale(i) == i.ver < applied[i.req]

\* workqueue.Get: the head of the queue goes to the worker, an item that was
\* overtaken by a newer one of its request included.
Get ==
    /\ ~Running("worker")
    /\ queue # <<>>
    /\ queue' = Tail(queue)
    /\ task' = [task EXCEPT !["worker"] = Start(Head(queue))]
    /\ excuse' = [excuse EXCEPT ![Head(queue).req] =
                    IF Stale(Head(queue)) THEN @ \cup {"overtaken"} ELSE @]
    /\ UNCHANGED <<api_vars, inf_vars, delayed, notify, replay,
                   pg_vars, cnt_vars, applied>>

\* The 5 seconds of AddAfter are over: the item joins the queue at its end.
Requeue ==
    /\ delayed # <<>>
    /\ queue' = Append(queue, Head(delayed))
    /\ delayed' = Tail(delayed)
    /\ UNCHANGED <<api_vars, inf_vars, task, notify, replay,
                   pg_vars, cnt_vars, hist_vars>>

\* handler() returned nil: Forget.
Forget ==
    /\ task["worker"].phase = "done"
    /\ LET i == task["worker"].item IN
         applied' = [applied EXCEPT ![i.req] = IF i.ver > @ THEN i.ver ELSE @]
    /\ task' = [task EXCEPT !["worker"] = Idle]
    /\ UNCHANGED <<api_vars, inf_vars, queue, delayed, notify, replay,
                   pg_vars, cnt_vars, excuse>>

----------------------------------------------------------------------------
(* The statements of handler().  p is the goroutine that runs them.        *)

\* History: the replay writes from an object that the worker has already left
\* behind, or is leaving behind just now.
Overtaken(p) ==
    LET i == task[p].item IN
    IF /\ p = "recreate"
       /\ \/ Stale(i)
          \/ RunsOn("worker", i.req) /\ task["worker"].item.ver > i.ver
      THEN [excuse EXCEPT ![i.req] = @ \cup {"overtaken"}]
      ELSE excuse

\* One statement ran: t is where p is afterwards.
Step(p, t) ==
    /\ task' = [task EXCEPT ![p] = t]
    /\ excuse' = Overtaken(p)
    /\ UNCHANGED <<api_vars, inf_vars, queue, delayed, notify, replay,
                   cnt_vars, applied>>

\* handler(): switch on the action.  A tombstone is not a *MiddlewareRequest.
Dispatch(p) ==
    LET t == task[p] IN
    /\ t.phase = "handler"
    /\ ~t.item.tomb
    /\ Step(p, IF t.item.action = "DELETE"
                 THEN [t EXCEPT !.phase = "drop", !.todo = Wanted(t.item, 0)]
                 ELSE [t EXCEPT !.phase = "user"])
    /\ UNCHANGED pg_vars

\* client.CreateOrUpdateUser on the node.
CreateOrUpdateUser(p) ==
    LET t == task[p] IN
    /\ t.phase = "user"
    /\ role' = [role EXCEPT ![t.node][t.item.req] = t.item.ver]
    /\ Step(p, [t EXCEPT !.phase = "createdb", !.todo = Wanted(t.item, t.node)])
    /\ UNCHANGED <<dbs, setup, workers>>

CreateDatabaseIfNotExists_SkipExisting(p) ==
    LET t == task[p] IN
    /\ t.phase = "createdb"
    /\ \E d \in t.todo :
        /\ dbs' = [dbs EXCEPT ![t.node][t.item.req] = @ \cup {d}]
        /\ Step(p, IF d \in dbs[t.node][t.item.req]
                     THEN [t EXCEPT !.todo = @ \ {d}]
                     ELSE [t EXCEPT !.phase = "setup", !.db = {d}])
    /\ UNCHANGED <<role, setup, workers>>

\* client.CreateDatabaseIfNotExists; the owner must be an existing role.
CreateDatabaseIfNotExists(p) ==
    LET t == task[p] IN
    /\ t.phase = "createdb"
    /\ \E d \in t.todo :
        /\ d \in dbs[t.node][t.item.req] \/ role[t.node][t.item.req] # 0
        /\ dbs' = [dbs EXCEPT ![t.node][t.item.req] = @ \cup {d}]
        /\ Step(p, [t EXCEPT !.phase = "setup", !.db = {d}])
    /\ UNCHANGED <<role, setup, workers>>

\* SwitchDatabase, CreateCitus, SetMasterNode, CreateExtensions, ExecuteScript.
SetupDatabase(p) ==
    LET t == task[p] IN
    /\ t.phase = "setup"
    /\ t.db \subseteq dbs[t.node][t.item.req]
    /\ setup' = [setup EXCEPT ![t.node][t.item.req] = @ \cup t.db]
    /\ Step(p, [t EXCEPT !.phase = "createdb", !.todo = @ \ t.db, !.db = {}])
    /\ UNCHANGED <<role, dbs, workers>>

\* if action == UPDATE: only an update removes databases.
Prunes_Never(t) == FALSE
Prunes(t) == t.item.action = "UPDATE"

\* End of one iteration of a node loop: the next node, or what follows the loop.
\* (index += 1 of createOrUpdatePGRequest and of addWorkerNode.)
NextNode(p) ==
    LET t == task[p] IN
    /\ t.phase \in {"createdb", "addworker"}
    /\ t.todo = {}
    /\ Step(p,
         IF MoreNodes(t)
           THEN IF t.phase = "createdb"
                  THEN [t EXCEPT !.phase = "user", !.node = @ + 1]
                  ELSE [t EXCEPT !.todo = t.item.dbs \cap Dist, !.node = @ + 1]
           ELSE IF t.phase = "createdb" /\ Replicas > 1
                  THEN [t EXCEPT !.phase = "addworker", !.node = 1,
                                 !.todo = t.item.dbs \cap Dist]
                  ELSE [t EXCEPT !.node = 0,
                                 !.phase = IF Prunes(t) THEN "list" ELSE "done"])
    /\ UNCHANGED pg_vars

\* client.AddWorkerNode on the master: citus must be there on both nodes.
AddWorkerNode(p) ==
    LET t == task[p] IN
    /\ t.phase = "addworker"
    /\ \E d \in t.todo :
        /\ d \in setup[0][t.item.req] /\ d \in setup[t.node][t.item.req]
        /\ workers' = [workers EXCEPT ![t.item.req] = @ \cup {<<d, t.node>>}]
        /\ Step(p, [t EXCEPT !.todo = @ \ {d}])
    /\ UNCHANGED <<role, dbs, setup>>

\* What the cluster is after client.DropDatabase(d) on node n.  The list of
\* worker nodes is kept in the database of the master and goes with it.
DropDatabase(n, r, d) ==
    /\ dbs' = [dbs EXCEPT ![n][r] = @ \ {d}]
    /\ setup' = [setup EXCEPT ![n][r] = @ \ {d}]
    /\ workers' = IF n = 0 THEN [workers EXCEPT ![r] = {w \in @ : w[1] # d}]
                  ELSE workers
    /\ UNCHANGED role

ListUnlisted_SkipMaster(p) ==
    LET t == task[p] IN
    /\ t.phase = "list"
    /\ \E d \in dbs[0][t.item.req] \ t.item.dbs :
         Step(p, [t EXCEPT !.phase = "prune", !.node = 1, !.db = {d}, !.todo = {d}])
    /\ UNCHANGED pg_vars

\* deleteDatabaseIfNotExists: ListDatabaseByOwner on the master.
ListUnlisted(p) ==
    LET t == task[p] IN
    /\ t.phase = "list"
    /\ Step(p, [t EXCEPT !.phase = "prune",
                         !.todo = dbs[0][t.item.req] \ t.item.dbs])
    /\ UNCHANGED pg_vars

\* deleteDatabaseIfNotExists: one database after the other, on every node.
PruneDatabase(p) ==
    LET t == task[p] IN
    /\ t.phase = "prune"
    /\ \E d \in t.todo :
        /\ t.node > 0 => t.db = {d}
        /\ DropDatabase(t.node, t.item.req, d)
        /\ Step(p, IF MoreNodes(t)
                     THEN [t EXCEPT !.node = @ + 1, !.db = {d}]
                     ELSE [t EXCEPT !.node = 0, !.db = {}, !.todo = @ \ {d}])

PruneReturns(p) ==
    LET t == task[p] IN
    /\ t.phase = "prune"
    /\ t.todo = {}
    /\ Step(p, [t EXCEPT !.phase = "done"])
    /\ UNCHANGED pg_vars

\* deletePGAll: the databases of the request, then whatever else the role owns.
DropOne(p) ==
    LET t == task[p] IN
    /\ t.phase \in {"drop", "droprest"}
    /\ \E d \in t.todo :
        /\ DropDatabase(t.node, t.item.req, d)
        /\ Step(p, [t EXCEPT !.todo = @ \ {d}])

ListOwned_Nothing(p) ==
    LET t == task[p] IN
    /\ t.phase = "drop"
    /\ t.todo = {}
    /\ Step(p, [t EXCEPT !.phase = "droprest"])
    /\ UNCHANGED pg_vars

\* deletePGAll: ListDatabaseByOwner on this node.
ListOwned(p) ==
    LET t == task[p] IN
    /\ t.phase = "drop"
    /\ t.todo = {}
    /\ Step(p, [t EXCEPT !.phase = "droprest", !.todo = dbs[t.node][t.item.req]])
    /\ UNCHANGED pg_vars

\* client.DeleteUser: drop role if exists, refused while it owns a database.
DeleteUser(p) ==
    LET t == task[p] IN
    /\ t.phase = "droprest"
    /\ t.todo = {}
    /\ dbs[t.node][t.item.req] = {}
    /\ role' = [role EXCEPT ![t.node][t.item.req] = 0]
    /\ Step(p, IF MoreNodes(t)
                 THEN [t EXCEPT !.phase = "drop", !.node = @ + 1,
                                !.todo = Wanted(t.item, t.node + 1)]
                 ELSE [t EXCEPT !.phase = "done", !.node = 0])
    /\ UNCHANGED <<dbs, setup, workers>>

Statement(p) ==
    \/ Dispatch(p) \/ CreateOrUpdateUser(p) \/ CreateDatabaseIfNotExists(p)
    \/ SetupDatabase(p) \/ NextNode(p) \/ AddWorkerNode(p)
    \/ ListUnlisted(p) \/ PruneDatabase(p) \/ PruneReturns(p)
    \/ DropOne(p) \/ ListOwned(p) \/ DeleteUser(p)

----------------------------------------------------------------------------
(* Errors.                                                                 *)

\* The database refuses the statement p is at, whatever the network does.
Refused(p) ==
    LET t == task[p]
        r == t.item.req IN
    \/ t.phase = "handler" /\ t.item.tomb
    \/ /\ t.phase = "createdb"
       /\ role[t.node][r] = 0 /\ ~(t.todo \subseteq dbs[t.node][r])
    \/ t.phase = "setup" /\ ~(t.db \subseteq dbs[t.node][r])
    \/ /\ t.phase = "addworker"
       /\ ~(t.todo \subseteq setup[0][r] \cap setup[t.node][r])
    \/ t.phase = "droprest" /\ t.todo = {} /\ dbs[t.node][r] # {}

\* An item may fail as long as a statement of it is still to run.
Failing(p) ==
    /\ task[p].phase \notin {"idle", "done"}
    /\ \/ Refused(p) /\ UNCHANGED faults
       \/ ~Refused(p) /\ faults < MaxFaults /\ faults' = faults + 1

\* `if eobj.action != DELETE': who goes back to the queue.
AfterError_GiveUp(i) == Idle
AfterError(i) == IF i.action # "DELETE" THEN Idle ELSE Start(i)

\* handler() returned an error.  ADD and UPDATE go back to the queue after five
\* seconds; DELETE is run again, from its first statement, by the same worker.
WorkerError ==
    /\ Failing("worker")
    /\ LET i == task["worker"].item IN
        /\ task' = [task EXCEPT !["worker"] = AfterError(i)]
        /\ delayed' = IF i.action # "DELETE" THEN Append(delayed, i) ELSE delayed
    /\ UNCHANGED <<api_vars, inf_vars, queue, notify, replay, pg_vars,
                   crashes, relists, recreates, hist_vars>>

\* PGClusterRecreated only logs the error and goes on with the next request.
ReplayError ==
    /\ Failing("recreate")
    /\ task' = [task EXCEPT !["recreate"] = Idle]
    /\ excuse' = [excuse EXCEPT ![task["recreate"].item.req] = @ \cup {"swallowed"}]
    /\ UNCHANGED <<api_vars, inf_vars, queue, delayed, notify, replay, pg_vars,
                   crashes, relists, recreates, applied>>

----------------------------------------------------------------------------
(* The pgcluster controller's goroutine.                                   *)

\* The StatefulSet was gone and has been created: the databases are empty, and
\* notifyClusterCreated is about to be called.
ClusterCreated ==
    /\ recreates < MaxRecreates
    /\ notify = "none" /\ replay = {} /\ ~Running("recreate")
    /\ recreates' = recreates + 1
    /\ notify' = "due"
    /\ role' = [n \in Nodes |-> [r \in Requests |-> 0]]
    /\ dbs' = [n \in Nodes |-> [r \in Requests |-> {}]]
    /\ setup' = [n \in Nodes |-> [r \in Requests |-> {}]]
    /\ workers' = [r \in Requests |-> {}]
    /\ UNCHANGED <<api_vars, inf_vars, queue, delayed, task, replay,
                   faults, crashes, relists, hist_vars>>

\* PGClusterRecreated lists all requests from the API server.  Nothing is replayed
\* when the call fails, or when the pgcluster handler fails before it notifies:
\* run again, it finds the StatefulSet and takes the cluster for an old one.
ListRequests ==
    /\ notify = "due"
    /\ notify' = "none"
    /\ \/ /\ replay' = {Item("ADD", r, api[r], api[r].ver, FALSE) :
                          r \in {q \in Requests : api[q] # Absent}}
          /\ UNCHANGED <<faults, excuse>>
       \/ /\ faults < MaxFaults
          /\ faults' = faults + 1
          /\ excuse' = [r \in Requests |-> excuse[r] \cup {"swallowed"}]
          /\ UNCHANGED replay
    /\ UNCHANGED <<api_vars, inf_vars, queue, delayed, task, pg_vars,
                   crashes, relists, recreates, applied>>

\* for _, r := range reqs.Items
ReplayNext ==
    /\ ~Running("recreate")
    /\ \E i \in replay :
        /\ task' = [task EXCEPT !["recreate"] = Start(i)]
        /\ replay' = replay \ {i}
    /\ UNCHANGED <<api_vars, inf_vars, queue, delayed, notify,
                   pg_vars, cnt_vars, hist_vars>>

ReplayDone ==
    /\ task["recreate"].phase = "done"
    /\ task' = [task EXCEPT !["recreate"] = Idle]
    /\ UNCHANGED <<api_vars, inf_vars, queue, delayed, notify, replay,
                   pg_vars, cnt_vars, hist_vars>>

----------------------------------------------------------------------------
\* The operator process restarts: queue and cache are gone, and the informer
\* delivers every object that exists as an ADD.  A deletion that had not been
\* carried out yet is not delivered again.
Restart ==
    /\ crashes < MaxCrashes
    /\ crashes' = crashes + 1
    /\ known' = [r \in Requests |-> Absent]
    /\ watch' = [r \in Requests |->
                   IF api[r] = Absent THEN <<>>
                   ELSE <<Item("ADD", r, api[r], api[r].ver, FALSE)>>]
    /\ queue' = <<>> /\ delayed' = <<>>
    /\ task' = [p \in Procs |-> Idle]
    /\ notify' = "none" /\ replay' = {}
    /\ excuse' = [r \in Requests |->
                    IF applied[r] < gen[r] THEN excuse[r] \cup {"lost"} ELSE excuse[r]]
    /\ UNCHANGED <<api_vars, pg_vars, faults, relists, recreates, applied>>

Next ==
    \/ \E r \in Requests : \/ CreateRequest(r) \/ EditRequest(r) \/ DeleteRequest(r)
                           \/ HandleEvent(r) \/ Relist(r)
    \/ Get \/ Requeue \/ Forget \/ WorkerError
    \/ ClusterCreated \/ ListRequests \/ ReplayNext \/ ReplayDone \/ ReplayError
    \/ \E p \in Procs : Statement(p)
    \/ Restart

Spec == Init /\ [][Next]_vars

\* Users need not act, faults need not happen; what the operator has been given
\* it works on: the informer delivers, the 5 seconds pass, goroutines run.
Fairness ==
    /\ \A r \in Requests : WF_vars(HandleEvent(r))
    /\ WF_vars(Get) /\ WF_vars(Requeue) /\ WF_vars(Forget)
    /\ WF_vars(ListRequests) /\ WF_vars(ReplayNext) /\ WF_vars(ReplayDone)
    /\ \A p \in Procs : WF_vars(Statement(p))
    /\ WF_vars(Refused("worker") /\ WorkerError)
    /\ WF_vars(Refused("recreate") /\ ReplayError)

FairSpec == Spec /\ Fairness
----------------------------------------------------------------------------
(* Properties.                                                             *)

SeqRange(s) == {s[k] : k \in 1 .. Len(s)}

\* The shape of the state: objects, items and tasks are of their types, role
\* versions and worker rows refer to existing nodes and databases.
TypeOK ==
    /\ gen \in [Requests -> 0 .. MaxGen]
    /\ api \in [Requests -> Objects \cup {Absent}]
    /\ known \in [Requests -> Objects \cup {Absent}]
    /\ watch \in [Requests -> Seq(Items)]
    /\ queue \in Seq(Items) /\ delayed \in Seq(Items)
    /\ task \in [Procs -> Tasks]
    /\ notify \in {"none", "due"} /\ replay \subseteq Items
    /\ role \in [Nodes -> [Requests -> 0 .. MaxGen]]
    /\ dbs \in [Nodes -> [Requests -> SUBSET Dbs]]
    /\ setup \in [Nodes -> [Requests -> SUBSET Dbs]]
    /\ workers \in [Requests -> SUBSET (Dbs \X Nodes)]
    /\ faults \in 0 .. MaxFaults /\ crashes \in 0 .. MaxCrashes
    /\ relists \in 0 .. MaxRelists /\ recreates \in 0 .. MaxRecreates
    /\ applied \in [Requests -> 0 .. MaxGen]
    /\ excuse \in [Requests -> SUBSET {"overtaken", "lost", "swallowed"}]

\* Nothing about r is on its way or being worked on.
Quiet(r) ==
    /\ watch[r] = <<>>
    /\ \A i \in SeqRange(queue) \cup SeqRange(delayed) \cup replay : i.req # r
    /\ \A p \in Procs : ~RunsOn(p, r)
    /\ notify = "none"

\* The cluster holds nothing of r on node n.
Clean(n, r) == role[n][r] = 0 /\ dbs[n][r] = {} /\ setup[n][r] = {}

\* The cluster holds at least what object o asks for.
Serves(r, o) ==
    /\ \A n \in Nodes : /\ role[n][r] = o.ver
                        /\ Wanted(o, n) \subseteq setup[n][r]
    /\ (o.dbs \cap Dist) \X (Nodes \ {0}) \subseteq workers[r]

\* Whatever statements fail, wherever the operator restarts and however the
\* replay interleaves with the worker: once the operator has nothing left to do
\* for an existing request, every node has its role with the current password,
\* the databases exist and are set up, and the master lists the worker nodes;
\* unless the replay swallowed an error or an older item ran after a newer one.
Provisioned ==
    \A r \in Requests :
        /\ Quiet(r) /\ api[r] # Absent
        /\ excuse[r] \cap {"overtaken", "swallowed"} = {}
        => Serves(r, api[r])

\* A deleted request leaves no role and no database behind on any node, once the
\* operator has nothing left to do for it; unless the deletion was lost in a
\* restart or an older item, or a replay, ran after it.
Deprovisioned ==
    \A r \in Requests :
        /\ Quiet(r) /\ api[r] = Absent
        /\ excuse[r] \cap {"overtaken", "lost"} = {}
        => \A n \in Nodes : Clean(n, r)

\* A database the object no longer lists is gone from the master once the
\* operator has nothing left to do (deleteDatabaseIfNotExists), failed and
\* repeated UPDATEs included.  (An ADD of a re-list does not prune, and so keeps
\* what a replay of an older object made.)
MasterPruned ==
    relists = 0 \/ recreates = 0 =>
      \A r \in Requests :
        /\ Quiet(r) /\ api[r] # Absent
        /\ excuse[r] \cap {"overtaken", "lost"} = {}
        => dbs[0][r] \subseteq api[r].dbs

\* As long as no replay runs, the master never lists a worker node whose copy of
\* the database is gone: databases are dropped on the master first, and a worker
\* is added after its copy is set up, also when a statement in between fails.
NoDanglingWorker ==
    recreates = 0 =>
        \A r \in Requests : \A w \in workers[r] : w[1] \in setup[w[2]][r]

\* Finitely many changes and finitely many failures: the operator gets through
\* with its work and stays idle.
EventuallyQuiet == <>[](\A r \in Requests : Quiet(r))

=============================================================================
