---------------------- MODULE RequestControllerProofs ----------------------
(***************************************************************************)
(* Theorems about RequestController, for every number of requests,         *)
(* databases and replicas and every value of the bounds: type correctness; *)
(* the master never lists a worker node whose copy of a database is gone   *)
(* (NoDanglingWorker); an idle operator has carried out the newest version *)
(* of every request (Provisioned, Deprovisioned), and the master holds no  *)
(* database that the request does not list (MasterPruned).                 *)
(***************************************************************************)
EXTENDS RequestController, TLAPS

----------------------------------------------------------------------------
(* Type correctness.                                                       *)

\* A goroutine that is not idle works on an item.
Busy == \A p \in Procs : task[p].phase # "idle" => task[p].item \in Items

\* An event or an object is there only after a change has been counted.
Counted == \A r \in Requests : watch[r] # <<>> \/ api[r] # Absent => gen[r] > 0

TypeInv == TypeOK /\ Busy /\ Counted

\* The part of TypeOK that SQL statements change.
PGType ==
    /\ role \in [Nodes -> [Requests -> 0 .. MaxGen]]
    /\ dbs \in [Nodes -> [Requests -> SUBSET Dbs]]
    /\ setup \in [Nodes -> [Requests -> SUBSET Dbs]]
    /\ workers \in [Requests -> SUBSET (Dbs \X Nodes)]

USE DEF Procs

\* Idle tasks and tasks about to enter handler() are tasks.
LEMMA StartTask ==
  /\ Idle \in Tasks
  /\ \A i \in Items : Start(i) \in Tasks /\ Start(i).item = i /\ Start(i).phase = "handler"
<1>1. 0 \in Nodes
  BY ReplicasAssumption DEF Nodes
<1>2. Idle \in Tasks
  BY <1>1 DEF Idle, Tasks, Phases
<1>3. ASSUME NEW i \in Items
      PROVE  Start(i) \in Tasks /\ Start(i).item = i /\ Start(i).phase = "handler"
  BY <1>1 DEF Idle, Start, Tasks, Phases
<1> QED BY <1>2, <1>3

\* What Item builds from an object's databases and a positive version is an item.
LEMMA ItemType ==
  ASSUME NEW a \in {"ADD", "UPDATE", "DELETE"}, NEW r \in Requests, NEW o,
         o.dbs \in SUBSET Dbs, NEW v \in 1 .. MaxGen, NEW t \in BOOLEAN
  PROVE  Item(a, r, o, v, t) \in Items
BY DEF Item, Items

\* Absent is no object: its version is 0.
LEMMA ObjectType ==
  ASSUME NEW o \in Objects \cup {Absent}
  PROVE  /\ o.dbs \in SUBSET Dbs
         /\ o # Absent => o \in Objects /\ o.ver \in 1 .. MaxGen
BY DEF Objects, Absent

\* The databases a node has to hold are databases.
LEMMA WantedType ==
  ASSUME NEW i \in Items, NEW n \in Nodes
  PROVE  Wanted(i, n) \in SUBSET Dbs
BY DEF Wanted, Items

\* The initial state has the types.
LEMMA InitType == Init => TypeInv
<1> SUFFICES ASSUME Init PROVE TypeInv
  OBVIOUS
<1>1. 0 \in 0 .. MaxGen /\ 0 \in 0 .. MaxFaults /\ 0 \in 0 .. MaxCrashes
      /\ 0 \in 0 .. MaxRelists /\ 0 \in 0 .. MaxRecreates
  BY BoundAssumption
<1>2. /\ gen \in [Requests -> 0 .. MaxGen] /\ applied \in [Requests -> 0 .. MaxGen]
      /\ api \in [Requests -> Objects \cup {Absent}]
      /\ known \in [Requests -> Objects \cup {Absent}]
      /\ watch \in [Requests -> Seq(Items)]
  BY <1>1 DEF Init
<1>3. /\ queue \in Seq(Items) /\ delayed \in Seq(Items)
      /\ task \in [Procs -> Tasks]
      /\ notify \in {"none", "due"} /\ replay \subseteq Items
      /\ excuse \in [Requests -> SUBSET {"overtaken", "lost", "swallowed"}]
  BY StartTask DEF Init
<1>4. /\ role \in [Nodes -> [Requests -> 0 .. MaxGen]]
      /\ dbs \in [Nodes -> [Requests -> SUBSET Dbs]]
      /\ setup \in [Nodes -> [Requests -> SUBSET Dbs]]
      /\ workers \in [Requests -> SUBSET (Dbs \X Nodes)]
  BY <1>1 DEF Init, NoPG
<1>5. Busy /\ Counted
  BY DEF Init, Busy, Counted, Idle
<1> QED BY <1>1, <1>2, <1>3, <1>4, <1>5 DEF TypeInv, TypeOK, Init

\* A statement that leaves the cluster well typed and takes its goroutine to a
\* well-typed place keeps the types.
LEMMA StepType ==
  ASSUME TypeInv, NEW p \in Procs, NEW t \in Tasks, t.item \in Items,
         Step(p, t), PGType'
  PROVE  TypeInv'
<1> USE DEF TypeInv, TypeOK
<1>1. task' \in [Procs -> Tasks]
  BY DEF Step
<1>2. excuse' \in [Requests -> SUBSET {"overtaken", "lost", "swallowed"}]
  BY DEF Step, Overtaken
<1>3. TypeOK'
  BY <1>1, <1>2 DEF Step, PGType, api_vars, inf_vars, cnt_vars
<1>4. Busy'
  BY DEF Step, Busy
<1>5. Counted'
  BY DEF Step, Counted, api_vars, inf_vars
<1> QED BY <1>3, <1>4, <1>5

\* The fields of the task of a goroutine that is at work.
LEMMA TaskType ==
  ASSUME TypeInv, NEW p \in Procs, task[p].phase # "idle"
  PROVE  /\ task[p] \in Tasks /\ task[p].item \in Items
         /\ task[p].item.req \in Requests /\ task[p].item.ver \in 1 .. MaxGen
         /\ task[p].item.dbs \in SUBSET Dbs
         /\ task[p].node \in Nodes /\ task[p].todo \in SUBSET Dbs
         /\ task[p].db \in SUBSET Dbs
<1>1. task[p] \in Tasks /\ task[p].item \in Items
  BY DEF TypeInv, TypeOK, Busy
<1> QED BY <1>1 DEF Tasks, Items

\* Only a goroutine that is at work runs statements.
LEMMA StatementBusy ==
  ASSUME NEW p \in Procs, Statement(p)
  PROVE  task[p].phase # "idle"
BY DEF Statement, Dispatch, CreateOrUpdateUser, CreateDatabaseIfNotExists,
       SetupDatabase, NextNode, AddWorkerNode, ListUnlisted, PruneDatabase,
       PruneReturns, DropOne, ListOwned, DeleteUser

\* Every statement of handler() keeps the types.
LEMMA StatementType ==
  ASSUME TypeInv, NEW p \in Procs, Statement(p)
  PROVE  TypeInv'
<1> DEFINE t == task[p]
           r == t.item.req
<1>0. /\ t \in Tasks /\ t.item \in Items /\ r \in Requests
      /\ t.item.ver \in 1 .. MaxGen /\ t.item.dbs \in SUBSET Dbs
      /\ t.node \in Nodes /\ t.todo \in SUBSET Dbs /\ t.db \in SUBSET Dbs
  BY StatementBusy, TaskType
<1>p. PGType
  BY DEF TypeInv, TypeOK, PGType
<1>m. MoreNodes(t) => t.node + 1 \in Nodes
  BY <1>0, ReplicasAssumption DEF MoreNodes, Nodes
<1>z. 0 \in Nodes /\ (Replicas > 1 => 1 \in Nodes)
  BY ReplicasAssumption DEF Nodes
<1>w. \A n \in Nodes : Wanted(t.item, n) \in SUBSET Dbs
  BY <1>0, WantedType
<1>b. \A n \in Nodes : dbs[n][r] \in SUBSET Dbs
  BY <1>0, <1>p DEF PGType
<1>1. CASE Dispatch(p)
  <2> DEFINE u == IF t.item.action = "DELETE"
                   THEN [t EXCEPT !.phase = "drop", !.todo = Wanted(t.item, 0)]
                   ELSE [t EXCEPT !.phase = "user"]
  <2>1. u \in Tasks /\ u.item = t.item
    BY <1>0, <1>z, <1>w DEF Tasks, Phases
  <2>2. Step(p, u) /\ PGType'
    BY <1>1, <1>p DEF Dispatch, pg_vars, PGType
  <2> HIDE DEF u
  <2> QED BY <1>0, <2>1, <2>2, StepType
<1>2. CASE CreateOrUpdateUser(p)
  <2> DEFINE u == [t EXCEPT !.phase = "createdb", !.todo = Wanted(t.item, t.node)]
  <2>1. u \in Tasks /\ u.item = t.item
    BY <1>0, <1>w DEF Tasks, Phases
  <2>2. Step(p, u)
    BY <1>2 DEF CreateOrUpdateUser
  <2>3. PGType'
    BY <1>0, <1>p, <1>2 DEF CreateOrUpdateUser, PGType
  <2> HIDE DEF u
  <2> QED BY <1>0, <2>1, <2>2, <2>3, StepType
<1>3. CASE CreateDatabaseIfNotExists(p)
  <2>1. PICK d \in t.todo :
          /\ dbs' = [dbs EXCEPT ![t.node][r] = @ \cup {d}]
          /\ Step(p, [t EXCEPT !.phase = "setup", !.db = {d}])
    BY <1>3 DEF CreateDatabaseIfNotExists
  <2> DEFINE u == [t EXCEPT !.phase = "setup", !.db = {d}]
  <2>2. u \in Tasks /\ u.item = t.item
    BY <1>0 DEF Tasks, Phases
  <2>3. PGType'
    <3>1. dbs[t.node][r] \cup {d} \in SUBSET Dbs
      BY <1>0, <1>p DEF PGType
    <3>2. dbs' \in [Nodes -> [Requests -> SUBSET Dbs]]
      BY <1>0, <1>p, <2>1, <3>1 DEF PGType
    <3>3. UNCHANGED <<role, setup, workers>>
      BY <1>3 DEF CreateDatabaseIfNotExists
    <3> QED BY <1>p, <3>2, <3>3 DEF PGType
  <2> HIDE DEF u
  <2> QED BY <1>0, <2>1, <2>2, <2>3, StepType DEF u
<1>4. CASE SetupDatabase(p)
  <2> DEFINE u == [t EXCEPT !.phase = "createdb", !.todo = @ \ t.db, !.db = {}]
  <2>1. u \in Tasks /\ u.item = t.item
    BY <1>0 DEF Tasks, Phases
  <2>2. Step(p, u)
    BY <1>4 DEF SetupDatabase
  <2>3. PGType'
    BY <1>0, <1>p, <1>4 DEF SetupDatabase, PGType
  <2> HIDE DEF u
  <2> QED BY <1>0, <2>1, <2>2, <2>3, StepType
<1>5. CASE NextNode(p)
  <2>p. PGType'
    BY <1>p, <1>5 DEF NextNode, pg_vars, PGType
  <2> DEFINE u1 == [t EXCEPT !.phase = "user", !.node = @ + 1]
             u2 == [t EXCEPT !.todo = t.item.dbs \cap Dist, !.node = @ + 1]
             u3 == [t EXCEPT !.phase = "addworker", !.node = 1,
                             !.todo = t.item.dbs \cap Dist]
             u4 == [t EXCEPT !.node = 0,
                             !.phase = IF Prunes(t) THEN "list" ELSE "done"]
  <2>1. MoreNodes(t) => u1 \in Tasks /\ u2 \in Tasks
    BY <1>0, <1>m DEF Tasks, Phases
  <2>2. Replicas > 1 => u3 \in Tasks
    BY <1>0, <1>z DEF Tasks, Phases
  <2>3. u4 \in Tasks
    BY <1>0, <1>z DEF Tasks, Phases
  <2>4. u1.item = t.item /\ u2.item = t.item /\ u3.item = t.item /\ u4.item = t.item
    BY <1>0 DEF Tasks
  <2>5. \/ MoreNodes(t) /\ (Step(p, u1) \/ Step(p, u2))
        \/ Replicas > 1 /\ Step(p, u3)
        \/ Step(p, u4)
    BY <1>5 DEF NextNode
  <2> HIDE DEF u1, u2, u3, u4
  <2> QED BY <1>0, <2>p, <2>1, <2>2, <2>3, <2>4, <2>5, StepType
<1>6. CASE AddWorkerNode(p)
  <2>1. PICK d \in t.todo :
          /\ workers' = [workers EXCEPT ![r] = @ \cup {<<d, t.node>>}]
          /\ Step(p, [t EXCEPT !.todo = @ \ {d}])
    BY <1>6 DEF AddWorkerNode
  <2> DEFINE u == [t EXCEPT !.todo = @ \ {d}]
  <2>2. u \in Tasks /\ u.item = t.item
    BY <1>0 DEF Tasks
  <2>3. PGType'
    BY <1>0, <1>p, <1>6, <2>1 DEF AddWorkerNode, PGType
  <2> QED BY <1>0, <2>1, <2>2, <2>3, StepType
<1>7. CASE ListUnlisted(p)
  <2> DEFINE u == [t EXCEPT !.phase = "prune", !.todo = dbs[0][r] \ t.item.dbs]
  <2>1. u \in Tasks /\ u.item = t.item
    BY <1>0, <1>b, <1>z DEF Tasks, Phases
  <2>2. Step(p, u) /\ PGType'
    BY <1>p, <1>7 DEF ListUnlisted, pg_vars, PGType
  <2> HIDE DEF u
  <2> QED BY <1>0, <2>1, <2>2, StepType
<1>d. ASSUME NEW d \in Dbs, NEW n \in Nodes, DropDatabase(n, r, d)
      PROVE  PGType'
  BY <1>0, <1>p, <1>d DEF DropDatabase, PGType
<1>8. CASE PruneDatabase(p)
  <2>1. PICK d \in t.todo :
          /\ DropDatabase(t.node, r, d)
          /\ Step(p, IF MoreNodes(t)
                       THEN [t EXCEPT !.node = @ + 1, !.db = {d}]
                       ELSE [t EXCEPT !.node = 0, !.db = {}, !.todo = @ \ {d}])
    BY <1>8 DEF PruneDatabase
  <2> DEFINE u == IF MoreNodes(t)
                    THEN [t EXCEPT !.node = @ + 1, !.db = {d}]
                    ELSE [t EXCEPT !.node = 0, !.db = {}, !.todo = @ \ {d}]
  <2>2. u \in Tasks /\ u.item = t.item
    BY <1>0, <1>m, <1>z DEF Tasks
  <2>3. PGType'
    BY <1>0, <1>d, <2>1
  <2> QED BY <1>0, <2>1, <2>2, <2>3, StepType
<1>9. CASE PruneReturns(p)
  <2> DEFINE u == [t EXCEPT !.phase = "done"]
  <2>1. u \in Tasks /\ u.item = t.item
    BY <1>0 DEF Tasks, Phases
  <2>2. Step(p, u) /\ PGType'
    BY <1>p, <1>9 DEF PruneReturns, pg_vars, PGType
  <2> HIDE DEF u
  <2> QED BY <1>0, <2>1, <2>2, StepType
<1>10. CASE DropOne(p)
  <2>1. PICK d \in t.todo : /\ DropDatabase(t.node, r, d)
                            /\ Step(p, [t EXCEPT !.todo = @ \ {d}])
    BY <1>10 DEF DropOne
  <2> DEFINE u == [t EXCEPT !.todo = @ \ {d}]
  <2>2. u \in Tasks /\ u.item = t.item
    BY <1>0 DEF Tasks
  <2>3. PGType'
    BY <1>0, <1>d, <2>1
  <2> QED BY <1>0, <2>1, <2>2, <2>3, StepType
<1>11. CASE ListOwned(p)
  <2> DEFINE u == [t EXCEPT !.phase = "droprest", !.todo = dbs[t.node][r]]
  <2>1. u \in Tasks /\ u.item = t.item
    BY <1>0, <1>b DEF Tasks, Phases
  <2>2. Step(p, u) /\ PGType'
    BY <1>p, <1>11 DEF ListOwned, pg_vars, PGType
  <2> HIDE DEF u
  <2> QED BY <1>0, <2>1, <2>2, StepType
<1>12. CASE DeleteUser(p)
  <2> DEFINE u == IF MoreNodes(t)
                    THEN [t EXCEPT !.phase = "drop", !.node = @ + 1,
                                   !.todo = Wanted(t.item, t.node + 1)]
                    ELSE [t EXCEPT !.phase = "done", !.node = 0]
  <2>1. u \in Tasks /\ u.item = t.item
    BY <1>0, <1>m, <1>z, <1>w DEF Tasks, Phases
  <2>2. Step(p, u)
    BY <1>12 DEF DeleteUser
  <2>3. PGType'
    <3>1. 0 \in 0 .. MaxGen
      BY BoundAssumption
    <3> QED BY <1>0, <1>p, <1>12, <3>1 DEF DeleteUser, PGType
  <2> HIDE DEF u
  <2> QED BY <1>0, <2>1, <2>2, <2>3, StepType
<1> QED BY <1>1, <1>2, <1>3, <1>4, <1>5, <1>6, <1>7, <1>8, <1>9, <1>10, <1>11, <1>12
        DEF Statement

\* Types are kept by every step.
LEMMA NextType == TypeInv /\ [Next]_vars => TypeInv'
<1> SUFFICES ASSUME TypeInv, [Next]_vars PROVE TypeInv'
  OBVIOUS
<1> USE DEF TypeInv, TypeOK
<1>0. \A r \in Requests : /\ api[r].dbs \in SUBSET Dbs /\ known[r].dbs \in SUBSET Dbs
                          /\ api[r] # Absent => api[r].ver \in 1 .. MaxGen
  BY ObjectType
<1>1. ASSUME NEW r \in Requests, NEW a \in {"ADD", "UPDATE", "DELETE"},
             NEW o \in SUBSET Dbs, Change(r, a, o)
      PROVE  TypeInv'
  <2>1. gen[r] + 1 \in 1 .. MaxGen
    BY <1>1, BoundAssumption DEF Change
  <2>2. [ver |-> gen[r] + 1, dbs |-> o] \in Objects
    BY <2>1 DEF Objects
  <2> DEFINE e == Item(a, r, IF a = "DELETE" THEN api[r] ELSE [dbs |-> o], gen[r] + 1, FALSE)
  <2>3. e \in Items
    BY <1>0, <2>1, ItemType
  <2>4. gen' \in [Requests -> 0 .. MaxGen] /\ gen'[r] > 0
        /\ \A q \in Requests : q # r => gen'[q] = gen[q] /\ api'[q] = api[q] /\ watch'[q] = watch[q]
    BY <1>1, <2>1 DEF Change
  <2>5. api' \in [Requests -> Objects \cup {Absent}]
    BY <1>1, <2>2 DEF Change
  <2>6. watch' \in [Requests -> Seq(Items)]
    <3>1. watch' = [watch EXCEPT ![r] = Append(@, e)]
      BY <1>1 DEF Change
    <3> HIDE DEF e
    <3> QED BY <2>3, <3>1
  <2>7. Busy' /\ Counted'
    BY <1>1, <2>4 DEF Change, Busy, Counted
  <2> QED BY <1>1, <2>4, <2>5, <2>6, <2>7 DEF Change, pg_vars, cnt_vars, hist_vars
<1>2. ASSUME NEW r \in Requests, HandleEvent(r)
      PROVE  TypeInv'
  <2>1. Head(watch[r]) \in Items /\ Tail(watch[r]) \in Seq(Items)
    BY <1>2 DEF HandleEvent
  <2>2. known' \in [Requests -> Objects \cup {Absent}]
    BY <1>2, <2>1 DEF HandleEvent, Items, Objects
  <2>3. queue' \in Seq(Items) /\ watch' \in [Requests -> Seq(Items)]
    BY <1>2, <2>1 DEF HandleEvent
  <2>4. Busy' /\ Counted'
    BY <1>2 DEF HandleEvent, Busy, Counted, api_vars
  <2> QED BY <1>2, <2>2, <2>3, <2>4
          DEF HandleEvent, api_vars, pg_vars, cnt_vars, hist_vars
<1>3. ASSUME NEW r \in Requests, Relist(r)
      PROVE  TypeInv'
  <2>1. gen[r] \in 1 .. MaxGen
    BY <1>3, BoundAssumption DEF Relist, Counted
  <2> DEFINE e1 == Item(IF known[r] = Absent THEN "ADD" ELSE "UPDATE", r, api[r], api[r].ver, FALSE)
             e2 == Item("DELETE", r, known[r], gen[r], TRUE)
  <2>2. api[r] # Absent => e1 \in Items
    BY <1>0, ItemType
  <2>3. e2 \in Items
    BY <1>0, <2>1, ItemType
  <2>4. watch' = [watch EXCEPT ![r] =
                    IF api[r] # Absent THEN <<e1>>
                    ELSE IF known[r] # Absent THEN <<e2>> ELSE <<>>]
    BY <1>3 DEF Relist
  <2> HIDE DEF e1, e2
  <2>5. watch' \in [Requests -> Seq(Items)]
    BY <2>2, <2>3, <2>4
  <2>6. relists' \in 0 .. MaxRelists
    BY <1>3, BoundAssumption DEF Relist
  <2>7. excuse' \in [Requests -> SUBSET {"overtaken", "lost", "swallowed"}]
    BY <1>3 DEF Relist
  <2>8. Busy' /\ Counted'
    BY <1>3, <2>1 DEF Relist, Busy, Counted, api_vars
  <2> QED BY <1>3, <2>5, <2>6, <2>7, <2>8 DEF Relist, api_vars, pg_vars
<1>4. CASE Get
  <2>1. Head(queue) \in Items /\ Tail(queue) \in Seq(Items)
    BY <1>4 DEF Get
  <2>2. Start(Head(queue)) \in Tasks /\ Start(Head(queue)).item \in Items
    BY <2>1, StartTask
  <2>3. task' \in [Procs -> Tasks] /\ Busy'
    BY <1>4, <2>2 DEF Get, Busy
  <2>4. excuse' \in [Requests -> SUBSET {"overtaken", "lost", "swallowed"}]
    BY <1>4 DEF Get
  <2> QED BY <1>4, <2>1, <2>3, <2>4
          DEF Get, Counted, api_vars, inf_vars, pg_vars, cnt_vars
<1>5. CASE Requeue
  <2>1. queue' \in Seq(Items) /\ delayed' \in Seq(Items)
    BY <1>5 DEF Requeue
  <2> QED BY <1>5, <2>1
          DEF Requeue, Busy, Counted, api_vars, inf_vars, pg_vars, cnt_vars, hist_vars
<1>6. CASE Forget
  <2> DEFINE i == task["worker"].item
  <2>1. i.ver \in 0 .. MaxGen /\ i.req \in Requests
    BY <1>6, TaskType DEF Forget
  <2>2. applied' \in [Requests -> 0 .. MaxGen]
    <3>1. applied' = [applied EXCEPT ![i.req] = IF i.ver > @ THEN i.ver ELSE @]
      BY <1>6 DEF Forget
    <3> HIDE DEF i
    <3> QED BY <2>1, <3>1
  <2>3. task' \in [Procs -> Tasks] /\ Busy'
    BY <1>6, StartTask DEF Forget, Busy, Idle
  <2> QED BY <1>6, <2>2, <2>3
          DEF Forget, Counted, api_vars, inf_vars, pg_vars, cnt_vars
<1>f. ASSUME NEW p \in Procs, Failing(p)
      PROVE  faults' \in 0 .. MaxFaults /\ task[p].phase # "idle"
  BY <1>f, BoundAssumption DEF Failing
<1>7. CASE WorkerError
  <2> DEFINE i == task["worker"].item
  <2>1. i \in Items /\ faults' \in 0 .. MaxFaults
    BY <1>7, <1>f, TaskType DEF WorkerError
  <2>2. AfterError(i) \in Tasks /\ (AfterError(i).phase # "idle" => AfterError(i).item \in Items)
    BY <2>1, StartTask DEF AfterError, Idle
  <2>3. task' \in [Procs -> Tasks] /\ Busy'
    BY <1>7, <2>2 DEF WorkerError, Busy
  <2>4. delayed' \in Seq(Items)
    BY <1>7, <2>1 DEF WorkerError
  <2> QED BY <1>7, <2>1, <2>3, <2>4
          DEF WorkerError, Counted, api_vars, inf_vars, pg_vars, hist_vars
<1>8. CASE ReplayError
  <2>1. faults' \in 0 .. MaxFaults
    BY <1>8, <1>f DEF ReplayError
  <2>2. task' \in [Procs -> Tasks] /\ Busy'
    BY <1>8, StartTask DEF ReplayError, Busy, Idle
  <2>3. excuse' \in [Requests -> SUBSET {"overtaken", "lost", "swallowed"}]
    BY <1>8 DEF ReplayError
  <2> QED BY <1>8, <2>1, <2>2, <2>3
          DEF ReplayError, Counted, api_vars, inf_vars, pg_vars
<1>9. CASE ClusterCreated
  <2>1. 0 \in 0 .. MaxGen /\ recreates' \in 0 .. MaxRecreates
    BY <1>9, BoundAssumption DEF ClusterCreated
  <2>2. PGType'
    BY <1>9, <2>1 DEF ClusterCreated, PGType
  <2> QED BY <1>9, <2>1, <2>2
          DEF ClusterCreated, PGType, Busy, Counted, api_vars, inf_vars, hist_vars
<1>10. CASE ListRequests
  <2> DEFINE R == {Item("ADD", r, api[r], api[r].ver, FALSE) :
                     r \in {q \in Requests : api[q] # Absent}}
             X == [r \in Requests |-> excuse[r] \cup {"swallowed"}]
  <2>0. \/ replay' = R /\ faults' = faults /\ excuse' = excuse
        \/ faults < MaxFaults /\ faults' = faults + 1 /\ excuse' = X /\ replay' = replay
    BY <1>10 DEF ListRequests
  <2>2. R \subseteq Items
    <3>1. \A r \in {q \in Requests : api[q] # Absent} :
            Item("ADD", r, api[r], api[r].ver, FALSE) \in Items
      BY <1>0, ItemType
    <3>2. \A i \in R : \E r \in {q \in Requests : api[q] # Absent} :
            i = Item("ADD", r, api[r], api[r].ver, FALSE)
      OBVIOUS
    <3> HIDE DEF R, TypeInv, TypeOK
    <3>3. \A i \in R : i \in Items
      BY <3>1, <3>2
    <3> QED BY <3>3
  <2>4. X \in [Requests -> SUBSET {"overtaken", "lost", "swallowed"}]
    OBVIOUS
  <2> HIDE DEF R, X
  <2>1. faults' \in 0 .. MaxFaults
    BY <2>0, BoundAssumption
  <2>3. replay' \subseteq Items /\ excuse' \in [Requests -> SUBSET {"overtaken", "lost", "swallowed"}]
    BY <2>0, <2>2, <2>4
  <2> QED BY <1>10, <2>1, <2>3
          DEF ListRequests, Busy, Counted, api_vars, inf_vars, pg_vars
<1>11. CASE ReplayNext
  <2>1. PICK i \in replay : /\ task' = [task EXCEPT !["recreate"] = Start(i)]
                            /\ replay' = replay \ {i}
    BY <1>11 DEF ReplayNext
  <2>2. i \in Items /\ Start(i) \in Tasks /\ Start(i).item = i
    BY StartTask
  <2>3. task' \in [Procs -> Tasks] /\ Busy'
    BY <2>1, <2>2 DEF Busy
  <2> QED BY <1>11, <2>1, <2>3
          DEF ReplayNext, Counted, api_vars, inf_vars, pg_vars, cnt_vars, hist_vars
<1>12. CASE ReplayDone
  <2>1. task' \in [Procs -> Tasks] /\ Busy'
    BY <1>12, StartTask DEF ReplayDone, Busy, Idle
  <2> QED BY <1>12, <2>1
          DEF ReplayDone, Counted, api_vars, inf_vars, pg_vars, cnt_vars, hist_vars
<1>13. ASSUME NEW p \in Procs, Statement(p)
       PROVE  TypeInv'
  BY <1>13, StatementType
<1>14. CASE Restart
  <2>1. crashes' \in 0 .. MaxCrashes
    BY <1>14, BoundAssumption DEF Restart
  <2>2. \A r \in Requests :
          api[r] # Absent => Item("ADD", r, api[r], api[r].ver, FALSE) \in Items
    BY <1>0, ItemType
  <2>3. watch' \in [Requests -> Seq(Items)]
    <3> DEFINE e(r) == Item("ADD", r, api[r], api[r].ver, FALSE)
    <3>1. watch' = [r \in Requests |-> IF api[r] = Absent THEN <<>> ELSE <<e(r)>>]
      BY <1>14 DEF Restart
    <3>2. \A r \in Requests : api[r] # Absent => e(r) \in Items
      BY <2>2
    <3> HIDE DEF e
    <3>3. \A r \in Requests : (IF api[r] = Absent THEN <<>> ELSE <<e(r)>>) \in Seq(Items)
      BY <3>2
    <3> QED BY <3>1, <3>3
  <2>4. known' \in [Requests -> Objects \cup {Absent}] /\ queue' \in Seq(Items)
        /\ delayed' \in Seq(Items) /\ replay' \subseteq Items
    BY <1>14 DEF Restart
  <2>5. task' \in [Procs -> Tasks] /\ Busy'
    BY <1>14, StartTask DEF Restart, Busy, Idle
  <2>6. excuse' \in [Requests -> SUBSET {"overtaken", "lost", "swallowed"}]
    BY <1>14 DEF Restart
  <2>7. Counted'
    BY <1>14 DEF Restart, Counted, api_vars
  <2> QED BY <1>14, <2>1, <2>3, <2>4, <2>5, <2>6, <2>7 DEF Restart, api_vars, pg_vars
<1>15. CASE UNCHANGED vars
  BY <1>15 DEF vars, Busy, Counted, api_vars, inf_vars, pg_vars, cnt_vars, hist_vars
<1> HIDE DEF TypeInv, TypeOK
<1>16. ASSUME NEW r \in Requests, CreateRequest(r) \/ EditRequest(r) \/ DeleteRequest(r)
       PROVE  TypeInv'
  <2>1. PICK a \in {"ADD", "UPDATE", "DELETE"}, o \in SUBSET Dbs : Change(r, a, o)
    BY <1>16 DEF CreateRequest, EditRequest, DeleteRequest
  <2> QED BY <1>1, <2>1
<1> QED BY <1>2, <1>3, <1>4, <1>5, <1>6, <1>7, <1>8, <1>9, <1>10, <1>11, <1>12,
           <1>13, <1>14, <1>15, <1>16, Zenon DEF Next

\* Types, for every instance: objects, queue items, tasks and what the cluster
\* holds keep their shape through all interleavings, failures and restarts; in
\* particular the node loops never leave 0 .. replicas - 1.
THEOREM TypeCorrect == Spec => []TypeOK
<1>1. TypeInv => TypeOK
  BY DEF TypeInv
<1> QED BY <1>1, InitType, NextType, PTL DEF Spec

----------------------------------------------------------------------------
(* The master's list of worker nodes.  NoDanglingWorker alone is not       *)
(* inductive: that dropping a database on a worker node is harmless rests  *)
(* on the master having dropped it first, which the position of the worker *)
(* goroutine in its loops implies.                                         *)

\* As long as the cluster is not created anew only the worker is at work.
Sequential == notify = "none" /\ replay = {} /\ task["recreate"].phase = "idle"

\* Only existing databases are set up.
SetupExists == \A n \in Nodes, r \in Requests : setup[n][r] \subseteq dbs[n][r]

\* The master lists a worker node only for databases set up on both.
Backed ==
    \A r \in Requests : \A w \in workers[r] :
        w[1] \in setup[0][r] /\ w[1] \in setup[w[2]][r]

\* Past node 0 of a dropping loop, the master is done with what is dropped.
MasterFirst ==
    LET t == task["worker"] IN
    /\ t.phase \in {"handler", "list"} => t.node = 0
    /\ t.phase = "prune" /\ t.node > 0 => \A w \in workers[t.item.req] : w[1] \notin t.db
    /\ t.phase \in {"drop", "droprest"} /\ t.node > 0 => dbs[0][t.item.req] = {}

DanglingInv == recreates = 0 => Sequential /\ SetupExists /\ Backed /\ MasterFirst

\* What DropDatabase leaves: only d, on node n, of request r is gone, and with
\* the master's copy its rows in the list of workers.
DropResult(n, r, d) ==
    /\ \A m \in Nodes : /\ dbs'[m][r] = IF m = n THEN dbs[m][r] \ {d} ELSE dbs[m][r]
                        /\ setup'[m][r] = IF m = n THEN setup[m][r] \ {d} ELSE setup[m][r]
    /\ \A m \in Nodes, q \in Requests : q # r => /\ dbs'[m][q] = dbs[m][q]
                                               /\ setup'[m][q] = setup[m][q]
    /\ \A q \in Requests : q # r => workers'[q] = workers[q]
    /\ workers'[r] = IF n = 0 THEN {w \in workers[r] : w[1] # d} ELSE workers[r]

\* DropDatabase has just this effect.
LEMMA DropEffect ==
  ASSUME TypeInv, NEW n \in Nodes, NEW r \in Requests, NEW d \in Dbs, DropDatabase(n, r, d)
  PROVE  DropResult(n, r, d)
BY DEF TypeInv, TypeOK, DropDatabase, DropResult

\* Dropping keeps the list of workers backed, if the master's copy goes now or
\* no worker is listed for it any more.
LEMMA DropKeeps ==
  ASSUME TypeInv, SetupExists, Backed,
         NEW n \in Nodes, NEW r \in Requests, NEW d \in Dbs, DropResult(n, r, d),
         n = 0 \/ \A w \in workers[r] : w[1] # d
  PROVE  SetupExists' /\ Backed'
<1>0. 0 \in Nodes
  BY ReplicasAssumption DEF Nodes
<1>1. SetupExists'
  <2>1. ASSUME NEW m \in Nodes, NEW q \in Requests
        PROVE  setup'[m][q] \subseteq dbs'[m][q]
    <3>1. setup[m][q] \subseteq dbs[m][q]
      BY DEF SetupExists
    <3>2. CASE q # r
      BY <3>1, <3>2 DEF DropResult
    <3>3. CASE q = r /\ m # n
      BY <3>1, <3>3 DEF DropResult
    <3>4. CASE q = r /\ m = n
      BY <3>1, <3>4 DEF DropResult
    <3> QED BY <3>2, <3>3, <3>4
  <2> QED BY <2>1 DEF SetupExists
<1>2. Backed'
  <2>1. ASSUME NEW q \in Requests, NEW w \in workers'[q]
        PROVE  w \in workers[q] /\ (q = r => w[1] # d) /\ w[2] \in Nodes
    <3>4. workers[q] \subseteq Dbs \X Nodes
      BY DEF TypeInv, TypeOK
    <3>5. w \in workers[q] /\ (q = r => w[1] # d)
      <4>1. CASE q # r
        BY <2>1, <4>1 DEF DropResult
      <4>2. CASE q = r /\ n = 0
        BY <2>1, <4>2 DEF DropResult
      <4>3. CASE q = r /\ n # 0
        BY <2>1, <4>3 DEF DropResult
      <4> QED BY <4>1, <4>2, <4>3
    <3> QED BY <3>4, <3>5
  <2>2. ASSUME NEW q \in Requests, NEW w \in workers'[q]
        PROVE  w[1] \in setup'[0][q] /\ w[1] \in setup'[w[2]][q]
    <3>0. w \in workers[q] /\ w[1] \in setup[0][q] /\ w[1] \in setup[w[2]][q]
          /\ w[2] \in Nodes
      BY <2>1, <2>2 DEF Backed
    <3>1. CASE q # r
      BY <1>0, <3>0, <3>1 DEF DropResult
    <3>2. CASE q = r
      <4>1. w[1] # d
        BY <2>1, <2>2, <3>2
      <4>2. \A m \in Nodes : w[1] \in setup[m][q] => w[1] \in setup'[m][q]
        BY <3>2, <4>1 DEF DropResult
      <4> QED BY <1>0, <3>0, <4>2
    <3> QED BY <3>1, <3>2
  <2> QED BY <2>2 DEF Backed
<1> QED BY <1>1, <1>2

\* Statements of the worker keep the invariant while it works alone.
LEMMA StatementDangling ==
  ASSUME TypeInv, SetupExists, Backed, MasterFirst, Statement("worker")
  PROVE  SetupExists' /\ Backed' /\ MasterFirst'
<1> DEFINE t == task["worker"]
           r == t.item.req
<1>0. /\ t \in Tasks /\ t.item \in Items /\ r \in Requests
      /\ t.node \in Nodes /\ t.todo \in SUBSET Dbs /\ t.db \in SUBSET Dbs
  BY StatementBusy, TaskType
<1>1. ASSUME UNCHANGED pg_vars
      PROVE  SetupExists' /\ Backed'
  BY <1>1 DEF pg_vars, SetupExists, Backed
<1>2. ASSUME NEW u, Step("worker", u)
      PROVE  task'["worker"] = u
  BY <1>2 DEF Step, TypeInv, TypeOK
<1>3. CASE Dispatch("worker")
  <2>1. UNCHANGED pg_vars /\ t.node = 0
    BY <1>3 DEF Dispatch, MasterFirst
  <2>2. task'["worker"].node = 0 /\ task'["worker"].phase \in {"drop", "user"}
    BY <1>0, <1>2, <1>3, <2>1 DEF Dispatch, Tasks
  <2> QED BY <1>1, <2>1, <2>2 DEF MasterFirst
<1>4. CASE CreateOrUpdateUser("worker")
  <2>1. task'["worker"].phase = "createdb"
    BY <1>0, <1>2, <1>4 DEF CreateOrUpdateUser, Tasks
  <2> QED BY <1>4, <2>1 DEF CreateOrUpdateUser, MasterFirst, SetupExists, Backed
<1>5. CASE CreateDatabaseIfNotExists("worker")
  <2>1. PICK d \in t.todo :
          /\ dbs' = [dbs EXCEPT ![t.node][r] = @ \cup {d}]
          /\ Step("worker", [t EXCEPT !.phase = "setup", !.db = {d}])
    BY <1>5 DEF CreateDatabaseIfNotExists
  <2>2. task'["worker"].phase = "setup"
    BY <1>0, <1>2, <2>1 DEF Tasks
  <2>3. \A m \in Nodes, q \in Requests : dbs[m][q] \subseteq dbs'[m][q]
    BY <1>0, <2>1 DEF TypeInv, TypeOK
  <2> QED BY <1>5, <2>2, <2>3 DEF CreateDatabaseIfNotExists, MasterFirst, SetupExists, Backed
<1>6. CASE SetupDatabase("worker")
  <2>1. task'["worker"].phase = "createdb"
    BY <1>0, <1>2, <1>6 DEF SetupDatabase, Tasks
  <2>2. /\ setup' = [setup EXCEPT ![t.node][r] = @ \cup t.db]
        /\ t.db \subseteq dbs[t.node][r] /\ UNCHANGED <<role, dbs, workers>>
    BY <1>6 DEF SetupDatabase
  <2>3. \A m \in Nodes, q \in Requests :
          /\ setup[m][q] \subseteq setup'[m][q]
          /\ setup'[m][q] \subseteq dbs[m][q]
    BY <1>0, <2>2 DEF TypeInv, TypeOK, SetupExists
  <2>4. Backed'
    <3>1. \A q \in Requests : \A w \in workers[q] : w[2] \in Nodes /\ 0 \in Nodes
      BY ReplicasAssumption DEF TypeInv, TypeOK, Nodes
    <3> QED BY <2>2, <2>3, <3>1 DEF Backed
  <2> QED BY <2>1, <2>2, <2>3, <2>4 DEF MasterFirst, SetupExists
<1>7. CASE NextNode("worker")
  <2>1. UNCHANGED pg_vars
    BY <1>7 DEF NextNode
  <2>2. \/ task'["worker"].phase \in {"user", "addworker", "done"}
        \/ task'["worker"].phase = "list" /\ task'["worker"].node = 0
    <3> DEFINE u1 == [t EXCEPT !.phase = "user", !.node = @ + 1]
               u2 == [t EXCEPT !.todo = t.item.dbs \cap Dist, !.node = @ + 1]
               u3 == [t EXCEPT !.phase = "addworker", !.node = 1,
                               !.todo = t.item.dbs \cap Dist]
               u4 == [t EXCEPT !.node = 0,
                               !.phase = IF Prunes(t) THEN "list" ELSE "done"]
    <3>1. \/ Step("worker", u1) \/ Step("worker", u3) \/ Step("worker", u4)
          \/ t.phase = "addworker" /\ Step("worker", u2)
      BY <1>7 DEF NextNode
    <3>2. /\ u1.phase = "user" /\ u2.phase = t.phase /\ u3.phase = "addworker"
          /\ u4.phase \in {"list", "done"} /\ u4.node = 0
      BY <1>0 DEF Tasks
    <3> HIDE DEF u1, u2, u3, u4
    <3> QED BY <1>2, <3>1, <3>2
  <2> QED BY <1>1, <2>1, <2>2 DEF MasterFirst
<1>8. CASE AddWorkerNode("worker")
  <2>1. PICK d \in t.todo :
          /\ d \in setup[0][r] /\ d \in setup[t.node][r]
          /\ workers' = [workers EXCEPT ![r] = @ \cup {<<d, t.node>>}]
          /\ Step("worker", [t EXCEPT !.todo = @ \ {d}])
    BY <1>8 DEF AddWorkerNode
  <2>2. task'["worker"].phase = "addworker"
    BY <1>0, <1>2, <1>8, <2>1 DEF AddWorkerNode, Tasks
  <2>3. UNCHANGED <<role, dbs, setup>>
    BY <1>8 DEF AddWorkerNode
  <2>4. Backed'
    <3> SUFFICES ASSUME NEW q \in Requests, NEW w \in workers'[q]
                 PROVE  w[1] \in setup[0][q] /\ w[1] \in setup[w[2]][q]
      BY <2>3 DEF Backed
    <3>1. workers'[q] = IF q = r THEN workers[r] \cup {<<d, t.node>>} ELSE workers[q]
      BY <1>0, <2>1 DEF TypeInv, TypeOK
    <3>2. CASE w \in workers[q]
      BY <3>2 DEF Backed
    <3>3. CASE q = r /\ w = <<d, t.node>>
      BY <2>1, <3>3
    <3> QED BY <3>1, <3>2, <3>3
  <2> QED BY <2>2, <2>3, <2>4 DEF MasterFirst, SetupExists
<1>9. CASE ListUnlisted("worker")
  <2>1. UNCHANGED pg_vars /\ t.node = 0
    BY <1>9 DEF ListUnlisted, MasterFirst
  <2>2. task'["worker"].node = 0 /\ task'["worker"].phase = "prune"
    BY <1>0, <1>2, <1>9, <2>1 DEF ListUnlisted, Tasks
  <2> QED BY <1>1, <2>1, <2>2 DEF MasterFirst
<1>10. CASE PruneDatabase("worker")
  <2> DEFINE u(d) == IF MoreNodes(t)
                       THEN [t EXCEPT !.node = @ + 1, !.db = {d}]
                       ELSE [t EXCEPT !.node = 0, !.db = {}, !.todo = @ \ {d}]
  <2>1. PICK d \in t.todo : /\ t.phase = "prune" /\ (t.node > 0 => t.db = {d})
                            /\ DropDatabase(t.node, r, d)
                            /\ Step("worker", u(d))
    BY <1>10 DEF PruneDatabase
  <2>2. t.node = 0 \/ \A w \in workers[r] : w[1] # d
    BY <1>0, <2>1 DEF MasterFirst, Nodes
  <2>d. DropResult(t.node, r, d)
    BY <1>0, <2>1, DropEffect
  <2>3. SetupExists' /\ Backed'
    BY <1>0, <2>d, <2>2, DropKeeps
  <2>4. \A w \in workers'[r] : w[1] # d
    BY <1>0, <2>d, <2>2 DEF DropResult
  <2>5. /\ task'["worker"].phase = "prune" /\ task'["worker"].item = t.item
        /\ task'["worker"].node > 0 => task'["worker"].db = {d}
    <3>1. task'["worker"] = u(d)
      BY <1>2, <2>1
    <3> QED BY <1>0, <2>1, <3>1 DEF Tasks
  <2> QED BY <2>3, <2>4, <2>5 DEF MasterFirst
<1>11. CASE PruneReturns("worker")
  <2>1. UNCHANGED pg_vars /\ task'["worker"].phase = "done"
    BY <1>0, <1>2, <1>11 DEF PruneReturns, Tasks
  <2> QED BY <1>1, <2>1 DEF MasterFirst
<1>12. CASE DropOne("worker")
  <2>1. PICK d \in t.todo : /\ t.phase \in {"drop", "droprest"}
                            /\ DropDatabase(t.node, r, d)
                            /\ Step("worker", [t EXCEPT !.todo = @ \ {d}])
    BY <1>12 DEF DropOne
  <2>0. 0 \in Nodes
    BY ReplicasAssumption DEF Nodes
  <2>2. t.node = 0 \/ \A w \in workers[r] : w[1] # d
    <3>1. t.node = 0 \/ dbs[0][r] = {}
      BY <1>0, <2>1 DEF MasterFirst, Nodes
    <3> QED BY <1>0, <2>0, <3>1 DEF SetupExists, Backed
  <2>d. DropResult(t.node, r, d)
    BY <1>0, <2>1, DropEffect
  <2>3. SetupExists' /\ Backed'
    BY <1>0, <2>d, <2>2, DropKeeps
  <2>4. task'["worker"].phase = t.phase /\ task'["worker"].node = t.node
        /\ task'["worker"].item = t.item
    BY <1>0, <1>2, <2>1 DEF Tasks
  <2>5. dbs[0][r] = {} => dbs'[0][r] = {}
    BY <1>0, <2>0, <2>d DEF DropResult
  <2> QED BY <2>1, <2>3, <2>4, <2>5 DEF MasterFirst
<1>13. CASE ListOwned("worker")
  <2>1. UNCHANGED pg_vars /\ t.phase = "drop"
    BY <1>13 DEF ListOwned
  <2>2. task'["worker"].phase = "droprest" /\ task'["worker"].node = t.node
        /\ task'["worker"].item = t.item
    BY <1>0, <1>2, <1>13 DEF ListOwned, Tasks
  <2> QED BY <1>1, <2>1, <2>2 DEF MasterFirst, pg_vars
<1>14. CASE DeleteUser("worker")
  <2> DEFINE u == IF MoreNodes(t)
                    THEN [t EXCEPT !.phase = "drop", !.node = @ + 1,
                                   !.todo = Wanted(t.item, t.node + 1)]
                    ELSE [t EXCEPT !.phase = "done", !.node = 0]
  <2>1. /\ Step("worker", u) /\ dbs[t.node][r] = {} /\ t.phase = "droprest"
        /\ UNCHANGED <<dbs, setup, workers>>
    BY <1>14 DEF DeleteUser
  <2>2. dbs[0][r] = {}
    BY <1>0, <2>1 DEF MasterFirst, Nodes
  <2>3. task'["worker"].item = t.item /\ task'["worker"].phase \in {"drop", "done"}
    <3>1. task'["worker"] = u
      BY <1>2, <2>1
    <3> QED BY <1>0, <3>1 DEF Tasks
  <2> QED BY <2>1, <2>2, <2>3 DEF MasterFirst, SetupExists, Backed
<1> QED BY <1>3, <1>4, <1>5, <1>6, <1>7, <1>8, <1>9, <1>10, <1>11, <1>12, <1>13, <1>14
        DEF Statement

\* The invariant holds in an empty cluster.
LEMMA InitDangling == Init => DanglingInv
<1> SUFFICES ASSUME Init PROVE DanglingInv
  OBVIOUS
<1>1. 0 \in Nodes
  BY ReplicasAssumption DEF Nodes
<1> QED BY <1>1 DEF Init, NoPG, DanglingInv, Sequential, SetupExists, Backed, MasterFirst, Idle

\* Every step keeps it.
LEMMA NextDangling == TypeInv /\ DanglingInv /\ [Next]_vars => DanglingInv'
<1> SUFFICES ASSUME TypeInv, DanglingInv, [Next]_vars, recreates' = 0
             PROVE  Sequential' /\ SetupExists' /\ Backed' /\ MasterFirst'
  BY DEF DanglingInv
<1>c. recreates \in Nat /\ task \in [Procs -> Tasks]
  BY BoundAssumption DEF TypeInv, TypeOK
<1>i. ASSUME recreates = 0
      PROVE  Sequential /\ SetupExists /\ Backed /\ MasterFirst
  BY <1>i DEF DanglingInv
<1>p. ASSUME SetupExists, Backed, UNCHANGED pg_vars
      PROVE  SetupExists' /\ Backed'
  BY <1>p DEF pg_vars, SetupExists, Backed
<1>m. ASSUME MasterFirst, UNCHANGED <<task, pg_vars>>
      PROVE  MasterFirst'
  BY <1>m DEF pg_vars, MasterFirst
<1>s. ASSUME NEW i, task'["worker"] = Start(i) \/ task'["worker"] = Idle
      PROVE  MasterFirst'
  <2>1. task'["worker"].phase \in {"handler", "idle"} /\ task'["worker"].node = 0
    <3>1. Start(i).phase = "handler" /\ Start(i).node = 0
      BY DEF Start, Idle
    <3>2. Idle.phase = "idle" /\ Idle.node = 0
      BY DEF Idle
    <3> QED BY <1>s, <3>1, <3>2
  <2> QED BY <2>1 DEF MasterFirst
<1>1. ASSUME NEW r \in Requests,
             \/ CreateRequest(r) \/ EditRequest(r) \/ DeleteRequest(r)
             \/ HandleEvent(r) \/ Relist(r)
      PROVE  Sequential' /\ SetupExists' /\ Backed' /\ MasterFirst'
  <2>1. UNCHANGED <<task, pg_vars, notify, replay, recreates>>
    BY <1>1 DEF CreateRequest, EditRequest, DeleteRequest, Change, HandleEvent, Relist,
                cnt_vars
  <2> QED BY <1>i, <1>p, <1>m, <2>1 DEF Sequential
<1>2. CASE Get
  <2>1. /\ UNCHANGED <<pg_vars, notify, replay, recreates>>
        /\ task' = [task EXCEPT !["worker"] = Start(Head(queue))]
    BY <1>2 DEF Get, cnt_vars
  <2>2. task'["worker"] = Start(Head(queue)) /\ task'["recreate"] = task["recreate"]
    BY <1>c, <2>1
  <2> QED BY <1>i, <1>p, <1>s, <2>1, <2>2 DEF Sequential
<1>3. CASE Requeue
  <2>1. UNCHANGED <<task, pg_vars, notify, replay, recreates>>
    BY <1>3 DEF Requeue, cnt_vars
  <2> QED BY <1>i, <1>p, <1>m, <2>1 DEF Sequential
<1>4. CASE Forget
  <2>1. /\ UNCHANGED <<pg_vars, notify, replay, recreates>>
        /\ task' = [task EXCEPT !["worker"] = Idle]
    BY <1>4 DEF Forget, cnt_vars
  <2>2. task'["worker"] = Idle /\ task'["recreate"] = task["recreate"]
    BY <1>c, <2>1
  <2> QED BY <1>i, <1>p, <1>s, <2>1, <2>2 DEF Sequential
<1>5. CASE WorkerError
  <2> DEFINE i == task["worker"].item
  <2>1. /\ UNCHANGED <<pg_vars, notify, replay, recreates>>
        /\ task' = [task EXCEPT !["worker"] = AfterError(i)]
    BY <1>5 DEF WorkerError
  <2>2. task'["worker"] = AfterError(i) /\ task'["recreate"] = task["recreate"]
    BY <1>c, <2>1
  <2>3. task'["worker"] = Start(i) \/ task'["worker"] = Idle
    BY <2>2 DEF AfterError
  <2> QED BY <1>i, <1>p, <1>s, <2>1, <2>2, <2>3 DEF Sequential
<1>6. CASE ClusterCreated
  BY <1>6, <1>c DEF ClusterCreated
<1>7. CASE ListRequests
  BY <1>7, <1>i DEF ListRequests, Sequential
<1>8. CASE ReplayNext
  BY <1>8, <1>i DEF ReplayNext, Sequential, cnt_vars
<1>9. CASE ReplayDone
  BY <1>9, <1>i DEF ReplayDone, Sequential, cnt_vars
<1>10. CASE ReplayError
  BY <1>10, <1>i DEF ReplayError, Failing, Sequential
<1>11. ASSUME NEW p \in Procs, Statement(p)
       PROVE  Sequential' /\ SetupExists' /\ Backed' /\ MasterFirst'
  <2>1. PICK u : Step(p, u)
    BY <1>11 DEF Statement, Dispatch, CreateOrUpdateUser, CreateDatabaseIfNotExists,
                 SetupDatabase, NextNode, AddWorkerNode, ListUnlisted, PruneDatabase,
                 PruneReturns, DropOne, ListOwned, DeleteUser
  <2>2. recreates = 0 /\ UNCHANGED <<notify, replay>>
    BY <2>1 DEF Step, cnt_vars
  <2>3. p = "worker"
    BY <1>i, <1>11, <2>2, StatementBusy DEF Sequential
  <2>4. task'["recreate"] = task["recreate"]
    BY <1>c, <2>1, <2>3 DEF Step
  <2> QED BY <1>i, <1>11, <2>2, <2>3, <2>4, StatementDangling DEF Sequential
<1>12. CASE Restart
  <2>1. UNCHANGED <<pg_vars, recreates>> /\ notify' = "none" /\ replay' = {}
        /\ task' = [q \in Procs |-> Idle]
    BY <1>12 DEF Restart
  <2>2. task'["worker"] = Idle /\ task'["recreate"].phase = "idle"
    BY <2>1 DEF Idle
  <2> QED BY <1>i, <1>p, <1>s, <2>1, <2>2 DEF Sequential
<1>13. CASE UNCHANGED vars
  <2>1. UNCHANGED <<task, pg_vars, notify, replay, recreates>>
    BY <1>13 DEF vars, cnt_vars
  <2> QED BY <1>i, <1>p, <1>m, <2>1 DEF Sequential
<1> QED BY <1>1, <1>2, <1>3, <1>4, <1>5, <1>6, <1>7, <1>8, <1>9, <1>10, <1>11, <1>12,
           <1>13, Zenon DEF Next

\* Whatever fails between two statements and whenever the operator restarts,
\* the master lists a node as worker of a database only while that node holds
\* the database, set up: creation registers the worker last and every drop
\* starts at the master (handler_pg.go), until the cluster is created anew.
THEOREM NoDanglingWorkerHolds == Spec => []NoDanglingWorker
<1>1. DanglingInv => NoDanglingWorker
  BY DEF DanglingInv, Backed, NoDanglingWorker
<1> QED BY <1>1, InitType, NextType, InitDangling, NextDangling, PTL DEF Spec

----------------------------------------------------------------------------
(* An idle operator has done its work.  Provisioned and Deprovisioned      *)
(* speak of an idle operator only; the invariant says where the newest     *)
(* version of a request is until then, and how far it has been carried out.*)

\* What waits in the queue and outside it, and the events of r on their way.
Held == SeqRange(queue) \cup SeqRange(delayed)
Watched(r) == SeqRange(watch[r])

\* An object has the version of the last change; what is done has been asked for.
Versions ==
    \A r \in Requests : (api[r] # Absent => api[r].ver = gen[r]) /\ applied[r] <= gen[r]

\* An item is not newer than its object, and the newest one says what the object says.
Timely(i) ==
    /\ i.ver <= gen[i.req]
    /\ i.ver = gen[i.req] => IF api[i.req] = Absent THEN i.action = "DELETE"
                             ELSE i.action # "DELETE" /\ i.dbs = api[i.req].dbs

AllTimely ==
    /\ \A r \in Requests : \A i \in Watched(r) : i.req = r /\ Timely(i)
    /\ \A i \in Held : Timely(i)
    /\ \A i \in replay : Timely(i) /\ i.action = "ADD"
    /\ \A p \in Procs : Running(p) => Timely(task[p].item)
    /\ Running("recreate") => task["recreate"].item.action = "ADD"

\* Where a task can be with its item.
Shape(t) ==
    /\ t.phase \in {"drop", "droprest"} => t.item.action = "DELETE"
    /\ t.phase \in {"user", "createdb", "setup", "addworker", "list", "prune"} =>
         t.item.action # "DELETE"
    /\ t.phase = "handler" => t.node = 0
    /\ t.phase = "prune" => t.todo \cap t.item.dbs = {}

Book == SetupExists /\ Versions /\ AllTimely /\ \A p \in Procs : Shape(task[p])

Newest(i, r) == i.req = r /\ i.ver = gen[r]
Waiting(r) == \E i \in Watched(r) \cup Held : Newest(i, r)
At(p, r) == Running(p) /\ Newest(task[p].item, r)

\* Unless it was noted, the worker is not at an item older than one it has completed.
InOrder(r) ==
    "overtaken" \notin excuse[r] /\ RunsOn("worker", r) =>
        task["worker"].item.ver >= applied[r]

\* The newest version is waiting, being worked on or done, except a deletion that was lost.
NotForgotten(r) ==
    Waiting(r) \/ At("worker", r) \/ applied[r] = gen[r]
    \/ (api[r] = Absent /\ "lost" \in excuse[r])

\* What a task of a request that exists has achieved so far.
HasNode(n, i) == role[n][i.req] = i.ver /\ Wanted(i, n) \subseteq setup[n][i.req]
Listed(i, n, S) == \A d \in (i.dbs \cap Dist) \ S : <<d, n>> \in workers[i.req]
Progress(t) ==
    /\ t.phase \in {"user", "createdb", "setup"} =>
         \A m \in Nodes : m < t.node => HasNode(m, t.item)
    /\ t.phase \in {"createdb", "setup"} =>
         /\ role[t.node][t.item.req] = t.item.ver
         /\ Wanted(t.item, t.node) \ t.todo \subseteq setup[t.node][t.item.req]
    /\ t.phase \in {"addworker", "list", "prune", "done"} =>
         \A m \in Nodes : HasNode(m, t.item)
    /\ t.phase = "addworker" =>
         \A m \in Nodes \ {0} : /\ m < t.node => Listed(t.item, m, {})
                                /\ m = t.node => Listed(t.item, m, t.todo)
    /\ t.phase \in {"list", "prune", "done"} =>
         \A m \in Nodes \ {0} : Listed(t.item, m, {})

\* What a task of a deleted request has achieved so far.
DProgress(t) ==
    /\ t.phase \in {"drop", "droprest"} =>
         \A m \in Nodes : m < t.node => Clean(m, t.item.req)
    /\ t.phase = "done" => \A m \in Nodes : Clean(m, t.item.req)

\* A request that exists is served, or the replay or a task is about to see to it.
Provided(r) ==
    api[r] # Absent /\ excuse[r] \cap {"overtaken", "swallowed"} = {} /\ ~Waiting(r) =>
        \/ notify = "due" \/ \E i \in replay : Newest(i, r)
        \/ \E p \in Procs : At(p, r) /\ Progress(task[p])
        \/ Serves(r, api[r])

\* The nodes a deletion has been through hold nothing, and all once it is carried out.
Removed(r) ==
    api[r] = Absent /\ excuse[r] \cap {"overtaken", "lost"} = {} =>
        /\ At("worker", r) => DProgress(task["worker"])
        /\ applied[r] = gen[r] => \A n \in Nodes : Clean(n, r)

Settled(r) == InOrder(r) /\ NotForgotten(r) /\ Provided(r) /\ Removed(r)

RInv == Book /\ \A r \in Requests : Settled(r)

----------------------------------------------------------------------------
(* Sequences as sets.                                                      *)

\* What Append, Head and Tail do to the contents of a queue.
LEMMA RangeOf ==
    ASSUME NEW S, NEW s \in Seq(S), NEW e \in S
    PROVE  /\ SeqRange(Append(s, e)) = SeqRange(s) \cup {e}
           /\ s # <<>> => /\ Head(s) \in S /\ Head(s) \in SeqRange(s)
                          /\ SeqRange(s) = SeqRange(Tail(s)) \cup {Head(s)}
<1>1. SeqRange(Append(s, e)) = SeqRange(s) \cup {e}
  <2>1. Len(Append(s, e)) = Len(s) + 1 /\ Len(s) \in Nat
    OBVIOUS
  <2>2. \A k \in 1 .. Len(s) : Append(s, e)[k] = s[k]
    OBVIOUS
  <2>3. Append(s, e)[Len(s) + 1] = e
    OBVIOUS
  <2>4. \A k \in 1 .. Len(s) + 1 : k \in 1 .. Len(s) \/ k = Len(s) + 1
    BY <2>1
  <2>5. Len(s) + 1 \in 1 .. Len(s) + 1 /\ \A k \in 1 .. Len(s) : k \in 1 .. Len(s) + 1
    BY <2>1
  <2> QED  BY <2>1, <2>2, <2>3, <2>4, <2>5 DEF SeqRange
<1>2. ASSUME s # <<>>
      PROVE  /\ Head(s) \in S /\ Head(s) \in SeqRange(s)
             /\ SeqRange(s) = SeqRange(Tail(s)) \cup {Head(s)}
  <2>1. Len(s) \in Nat /\ Len(s) >= 1 /\ Len(Tail(s)) = Len(s) - 1
    BY <1>2
  <2>2. Head(s) = s[1] /\ Head(s) \in S
    BY <1>2
  <2>3. \A k \in 1 .. Len(s) - 1 : Tail(s)[k] = s[k + 1]
    BY <1>2
  <2>4. Head(s) \in SeqRange(s)
    BY <2>1, <2>2 DEF SeqRange
  <2>5. \A x \in SeqRange(Tail(s)) : x \in SeqRange(s)
    <3> TAKE x \in SeqRange(Tail(s))
    <3>1. PICK k \in 1 .. Len(s) - 1 : x = Tail(s)[k]  BY <2>1 DEF SeqRange
    <3>2. k + 1 \in 1 .. Len(s) /\ x = s[k + 1]  BY <2>1, <2>3, <3>1
    <3> QED  BY <3>2 DEF SeqRange
  <2>6. \A x \in SeqRange(s) : x = Head(s) \/ x \in SeqRange(Tail(s))
    <3> TAKE x \in SeqRange(s)
    <3>1. PICK k \in 1 .. Len(s) : x = s[k]  BY DEF SeqRange
    <3>2. CASE k = 1  BY <2>2, <3>1, <3>2
    <3>3. CASE k # 1
      <4>1. k - 1 \in 1 .. Len(s) - 1  BY <2>1, <3>3
      <4>2. Tail(s)[k - 1] = s[k]
        <5>1. (k - 1) + 1 = k  BY <4>1
        <5> QED  BY <2>3, <4>1, <5>1
      <4> QED  BY <2>1, <3>1, <4>1, <4>2 DEF SeqRange
    <3> QED  BY <3>2, <3>3
  <2> QED  BY <2>2, <2>4, <2>5, <2>6
<1> QED  BY <1>1, <1>2

\* The contents of short sequences.
LEMMA RangeShort == SeqRange(<<>>) = {} /\ \A e : SeqRange(<<e>>) = {e}
BY DEF SeqRange

----------------------------------------------------------------------------
(* The statements.                                                         *)

\* A statement for item i takes nothing away that i asks for.
Grows(i) ==
    /\ \A n \in Nodes : /\ role[n][i.req] = i.ver => role'[n][i.req] = i.ver
                        /\ setup[n][i.req] \cap i.dbs \subseteq setup'[n][i.req]
    /\ \A d \in i.dbs, n \in Nodes : <<d, n>> \in workers[i.req] => <<d, n>> \in workers'[i.req]

SamePg(r) ==
    /\ \A n \in Nodes : /\ role'[n][r] = role[n][r] /\ dbs'[n][r] = dbs[n][r]
                        /\ setup'[n][r] = setup[n][r]
    /\ workers'[r] = workers[r]

\* What a statement of task t does that leaves the task as u.
Effect(t, u) ==
    /\ u.item = t.item /\ u.phase # "idle" /\ Shape(u)
    /\ \A q \in Requests : q # t.item.req => SamePg(q)
    /\ SetupExists'
    /\ t.item.action # "DELETE" => Grows(t.item) /\ (Progress(t) => Progress(u)')
    /\ t.item.action = "DELETE" => /\ DProgress(t) => DProgress(u)'
                                   /\ \A n \in Nodes : Clean(n, t.item.req) => Clean(n, t.item.req)'

\* Whoever works for the same version keeps what it has achieved.
LEMMA GrowsKeeps ==
    ASSUME TypeInv, NEW i, Grows(i), i.dbs \in SUBSET Dbs
    PROVE  /\ \A j : j.req = i.req /\ j.ver = i.ver /\ j.dbs = i.dbs =>
                /\ \A n \in Nodes : HasNode(n, j) => HasNode(n, j)'
                /\ \A n \in Nodes : \A S : Listed(j, n, S) => Listed(j, n, S)'
           /\ \A t \in Tasks : /\ t.item.req = i.req /\ t.item.ver = i.ver
                               /\ t.item.dbs = i.dbs /\ Progress(t)
                               => Progress(t)'
<1>1. ASSUME NEW j, j.req = i.req, j.ver = i.ver, j.dbs = i.dbs
      PROVE  /\ \A n \in Nodes : HasNode(n, j) => HasNode(n, j)'
             /\ \A n \in Nodes : \A S : Listed(j, n, S) => Listed(j, n, S)'
  <2>1. \A n \in Nodes : Wanted(j, n) \subseteq i.dbs  BY <1>1 DEF Wanted
  <2>2. \A n \in Nodes : HasNode(n, j) => HasNode(n, j)'
    BY <1>1, <2>1 DEF HasNode, Grows, Wanted
  <2>3. \A n \in Nodes : \A S : Listed(j, n, S) => Listed(j, n, S)'
    BY <1>1 DEF Listed, Grows
  <2> QED  BY <2>2, <2>3
<1>2. ASSUME NEW t \in Tasks, t.item.req = i.req, t.item.ver = i.ver, t.item.dbs = i.dbs,
             Progress(t)
      PROVE  Progress(t)'
  <2>1. /\ \A n \in Nodes : HasNode(n, t.item) => HasNode(n, t.item)'
        /\ \A n \in Nodes : \A S : Listed(t.item, n, S) => Listed(t.item, n, S)'
    BY <1>1, <1>2
  <2>2. t.node \in Nodes  BY DEF Tasks
  <2>3. \A n \in Nodes : Wanted(t.item, n) \subseteq i.dbs  BY <1>2 DEF Wanted
  <2>4. /\ role[t.node][t.item.req] = t.item.ver => role'[t.node][t.item.req] = t.item.ver
        /\ Wanted(t.item, t.node) \ t.todo \subseteq setup[t.node][t.item.req] =>
           Wanted(t.item, t.node) \ t.todo \subseteq setup'[t.node][t.item.req]
    BY <1>2, <2>2, <2>3 DEF Grows
  <2> QED  BY <1>2, <2>1, <2>4 DEF Progress
<1> QED  BY <1>1, <1>2

\* A statement that changes nothing in the cluster.
LEMMA StillEffect ==
    ASSUME TypeInv, SetupExists, NEW t \in Tasks, NEW u, UNCHANGED pg_vars,
           u.item = t.item, u.phase # "idle", Shape(u),
           t.item.action # "DELETE" /\ Progress(t) => Progress(u),
           t.item.action = "DELETE" /\ DProgress(t) => DProgress(u)
    PROVE  Effect(t, u)
<1>1. UNCHANGED <<role, dbs, setup, workers>>  BY DEF pg_vars
<1>2. SetupExists' /\ \A q \in Requests : SamePg(q)
  BY <1>1 DEF SetupExists, SamePg
<1>3. Grows(t.item)  BY <1>1 DEF Grows
<1>4. \A n : Clean(n, t.item.req)' <=> Clean(n, t.item.req)  BY <1>1 DEF Clean
<1>5. Progress(u)' <=> Progress(u)  BY <1>1 DEF Progress, HasNode, Listed
<1>6. DProgress(u)' <=> DProgress(u)  BY <1>1 DEF DProgress, Clean
<1> QED  BY <1>2, <1>3, <1>4, <1>5, <1>6 DEF Effect

\* Dispatch enters the loop over the nodes at its beginning.
LEMMA DispatchEffect ==
    ASSUME TypeInv, Book, NEW p \in Procs, NEW t \in Tasks, t = task[p], Dispatch(p)
    PROVE  \E u \in Tasks : Step(p, u) /\ Effect(t, u)
<1> DEFINE u == IF t.item.action = "DELETE"
                 THEN [t EXCEPT !.phase = "drop", !.todo = Wanted(t.item, 0)]
                 ELSE [t EXCEPT !.phase = "user"]
<1>1. t.phase = "handler" /\ Step(p, u) /\ UNCHANGED pg_vars  BY DEF Dispatch
<1>2. t \in Tasks /\ t.item \in Items /\ t.node = 0
  BY <1>1, TaskType DEF Book, Shape
<1>3. u \in Tasks
  <2>1. 0 \in Nodes  BY ReplicasAssumption DEF Nodes
  <2> QED  BY <1>2, <2>1, WantedType DEF Tasks, Phases
<1>4. /\ u.item = t.item /\ u.node = 0
      /\ u.phase = IF t.item.action = "DELETE" THEN "drop" ELSE "user"
  BY <1>2 DEF Tasks
<1> HIDE DEF u
<1>5. \A m \in Nodes : ~(m < 0)  BY DEF Nodes
<1>6. Shape(u)  BY <1>4 DEF Shape
<1>7. t.item.action # "DELETE" => Progress(u)  BY <1>4, <1>5 DEF Progress
<1>8. t.item.action = "DELETE" => DProgress(u)  BY <1>4, <1>5 DEF DProgress
<1>9. Effect(t, u)  BY <1>1, <1>2, <1>4, <1>6, <1>7, <1>8, StillEffect DEF Book
<1> QED  BY <1>1, <1>3, <1>9

\* CreateOrUpdateUser gives the node the role.
LEMMA UserEffect ==
    ASSUME TypeInv, Book, NEW p \in Procs, NEW t \in Tasks, t = task[p], CreateOrUpdateUser(p)
    PROVE  \E u \in Tasks : Step(p, u) /\ Effect(t, u)
<1> DEFINE r == t.item.req
           u == [t EXCEPT !.phase = "createdb", !.todo = Wanted(t.item, t.node)]
<1>1. /\ t.phase = "user" /\ Step(p, u) /\ UNCHANGED <<dbs, setup, workers>>
      /\ role' = [role EXCEPT ![t.node][r] = t.item.ver]
  BY DEF CreateOrUpdateUser
<1>2. t \in Tasks /\ t.item \in Items /\ t.node \in Nodes /\ r \in Requests
      /\ t.item.dbs \in SUBSET Dbs
  BY <1>1, TaskType
<1>3. u \in Tasks  BY <1>2, WantedType DEF Tasks, Phases
<1>4. /\ u.item = t.item /\ u.node = t.node /\ u.phase = "createdb"
      /\ u.todo = Wanted(t.item, t.node)
  BY <1>2 DEF Tasks
<1> HIDE DEF u
<1>5. /\ \A n \in Nodes, q \in Requests :
            role'[n][q] = IF n = t.node /\ q = r THEN t.item.ver ELSE role[n][q]
  BY <1>1, <1>2 DEF TypeInv, TypeOK
<1>6. \A q \in Requests : q # r => SamePg(q)  BY <1>1, <1>5 DEF SamePg
<1>7. SetupExists'  BY <1>1 DEF Book, SetupExists
<1>8. Grows(t.item)  BY <1>1, <1>2, <1>5 DEF Grows
<1>9. t.item.action # "DELETE"  BY <1>1 DEF Book, Shape
<1>10. Shape(u)  BY <1>4, <1>9 DEF Shape
<1>11. ASSUME Progress(t)  PROVE Progress(u)'
  <2>1. \A m \in Nodes : m < t.node => HasNode(m, t.item)
    BY <1>1, <1>11 DEF Progress
  <2>2. \A m \in Nodes : HasNode(m, t.item) => HasNode(m, t.item)'
    BY <1>2, <1>8, GrowsKeeps
  <2> QED  BY <1>2, <1>4, <1>5, <2>1, <2>2 DEF Progress
<1> QED  BY <1>1, <1>3, <1>4, <1>6, <1>7, <1>8, <1>9, <1>10, <1>11 DEF Effect

\* CreateDatabaseIfNotExists adds a database that is not set up yet.
LEMMA CreateDbEffect ==
    ASSUME TypeInv, Book, NEW p \in Procs, NEW t \in Tasks, t = task[p],
           CreateDatabaseIfNotExists(p)
    PROVE  \E u \in Tasks : Step(p, u) /\ Effect(t, u)
<1> DEFINE r == t.item.req
<1>1. PICK d \in t.todo : /\ dbs' = [dbs EXCEPT ![t.node][r] = @ \cup {d}]
                          /\ Step(p, [t EXCEPT !.phase = "setup", !.db = {d}])
  BY DEF CreateDatabaseIfNotExists
<1> DEFINE u == [t EXCEPT !.phase = "setup", !.db = {d}]
<1>2. t.phase = "createdb" /\ UNCHANGED <<role, setup, workers>> /\ Step(p, u)
  BY <1>1 DEF CreateDatabaseIfNotExists
<1>3. t.item \in Items /\ t.node \in Nodes /\ r \in Requests
      /\ t.item.dbs \in SUBSET Dbs /\ t.todo \in SUBSET Dbs
  BY <1>2, TaskType
<1>4. u \in Tasks  BY <1>3 DEF Tasks, Phases
<1>5. u.item = t.item /\ u.node = t.node /\ u.phase = "setup" /\ u.todo = t.todo
  BY <1>3 DEF Tasks
<1> HIDE DEF u
<1>6. \A n \in Nodes, q \in Requests :
         dbs'[n][q] = IF n = t.node /\ q = r THEN dbs[n][q] \cup {d} ELSE dbs[n][q]
  BY <1>1, <1>3 DEF TypeInv, TypeOK
<1>7. \A q \in Requests : q # r => SamePg(q)  BY <1>2, <1>6 DEF SamePg
<1>8. SetupExists'  BY <1>2, <1>6 DEF Book, SetupExists
<1>9. Grows(t.item)  BY <1>2 DEF Grows
<1>10. t.item.action # "DELETE"  BY <1>2 DEF Book, Shape
<1>11. Shape(u)  BY <1>5, <1>10 DEF Shape
<1>12. ASSUME Progress(t)  PROVE Progress(u)'
  BY <1>2, <1>5, <1>12 DEF Progress, HasNode
<1> QED  BY <1>2, <1>4, <1>5, <1>7, <1>8, <1>9, <1>10, <1>11, <1>12 DEF Effect

\* SetupDatabase sets up the database the loop is at.
LEMMA SetupEffect ==
    ASSUME TypeInv, Book, NEW p \in Procs, NEW t \in Tasks, t = task[p], SetupDatabase(p)
    PROVE  \E u \in Tasks : Step(p, u) /\ Effect(t, u)
<1> DEFINE r == t.item.req
           u == [t EXCEPT !.phase = "createdb", !.todo = @ \ t.db, !.db = {}]
<1>1. /\ t.phase = "setup" /\ UNCHANGED <<role, dbs, workers>> /\ Step(p, u)
      /\ t.db \subseteq dbs[t.node][r]
      /\ setup' = [setup EXCEPT ![t.node][r] = @ \cup t.db]
  BY DEF SetupDatabase
<1>2. t.item \in Items /\ t.node \in Nodes /\ r \in Requests
      /\ t.item.dbs \in SUBSET Dbs /\ t.todo \in SUBSET Dbs
  BY <1>1, TaskType
<1>3. u \in Tasks  BY <1>2 DEF Tasks, Phases
<1>4. /\ u.item = t.item /\ u.node = t.node /\ u.phase = "createdb"
      /\ u.todo = t.todo \ t.db
  BY <1>2 DEF Tasks
<1> HIDE DEF u
<1>5. \A n \in Nodes, q \in Requests :
         setup'[n][q] = IF n = t.node /\ q = r THEN setup[n][q] \cup t.db ELSE setup[n][q]
  BY <1>1, <1>2 DEF TypeInv, TypeOK
<1>6. \A q \in Requests : q # r => SamePg(q)  BY <1>1, <1>5 DEF SamePg
<1>7. SetupExists'  BY <1>1, <1>2, <1>5 DEF Book, SetupExists
<1>8. Grows(t.item)  BY <1>1, <1>2, <1>5 DEF Grows
<1>9. t.item.action # "DELETE"  BY <1>1 DEF Book, Shape
<1>10. Shape(u)  BY <1>4, <1>9 DEF Shape
<1>11. ASSUME Progress(t)  PROVE Progress(u)'
  <2>1. \A m \in Nodes : HasNode(m, t.item) => HasNode(m, t.item)'
    BY <1>2, <1>8, GrowsKeeps
  <2>2. /\ \A m \in Nodes : m < t.node => HasNode(m, t.item)
        /\ role[t.node][r] = t.item.ver
        /\ Wanted(t.item, t.node) \ t.todo \subseteq setup[t.node][r]
    BY <1>1, <1>11 DEF Progress
  <2>3. Wanted(t.item, t.node) \ u.todo \subseteq setup'[t.node][r]
    <3>1. setup'[t.node][r] = setup[t.node][r] \cup t.db  BY <1>2, <1>5
    <3> QED  BY <1>4, <2>2, <3>1
  <2>4. role'[t.node][r] = t.item.ver  BY <1>1, <2>2
  <2> QED  BY <1>4, <2>1, <2>2, <2>3, <2>4 DEF Progress
<1> QED  BY <1>1, <1>3, <1>4, <1>6, <1>7, <1>8, <1>9, <1>10, <1>11 DEF Effect

\* The node loops go on where they were complete.
LEMMA NextNodeEffect ==
    ASSUME TypeInv, Book, NEW p \in Procs, NEW t \in Tasks, t = task[p], NextNode(p)
    PROVE  \E u \in Tasks : Step(p, u) /\ Effect(t, u)
<1> DEFINE r == t.item.req
           D == t.item.dbs \cap Dist
<1>1. /\ t.phase \in {"createdb", "addworker"} /\ t.todo = {} /\ UNCHANGED pg_vars
      /\ Step(p,
           IF MoreNodes(t)
             THEN IF t.phase = "createdb"
                    THEN [t EXCEPT !.phase = "user", !.node = @ + 1]
                    ELSE [t EXCEPT !.todo = D, !.node = @ + 1]
             ELSE IF t.phase = "createdb" /\ Replicas > 1
                    THEN [t EXCEPT !.phase = "addworker", !.node = 1, !.todo = D]
                    ELSE [t EXCEPT !.node = 0,
                                   !.phase = IF Prunes(t) THEN "list" ELSE "done"])
  BY DEF NextNode
<1>2. t.item \in Items /\ t.node \in Nodes /\ r \in Requests
      /\ t.item.dbs \in SUBSET Dbs /\ D \in SUBSET Dbs
  BY <1>1, TaskType
<1>3. t.item.action # "DELETE" /\ SetupExists  BY <1>1 DEF Book, Shape
<1>4. 0 \in Nodes /\ t.node \in Nat /\ Replicas \in Nat \ {0} /\ \A m \in Nodes : m \in Nat
  BY <1>2, ReplicasAssumption DEF Nodes
<1>d. Listed(t.item, t.node, t.todo) => Listed(t.item, t.node, {})
  BY <1>1 DEF Listed
<1>c. Progress(t) /\ t.phase = "createdb" => HasNode(t.node, t.item)
  BY <1>1 DEF Progress, HasNode
<1>5. CASE MoreNodes(t) /\ t.phase = "createdb"
  <2> DEFINE u == [t EXCEPT !.phase = "user", !.node = @ + 1]
  <2>1. Step(p, u)  BY <1>1, <1>5
  <2>2. t.node + 1 \in Nodes  BY <1>4, <1>5 DEF MoreNodes, Nodes
  <2>3. u \in Tasks  BY <2>2 DEF Tasks, Phases
  <2>4. u.item = t.item /\ u.node = t.node + 1 /\ u.phase = "user"  BY DEF Tasks
  <2> HIDE DEF u
  <2>5. Shape(u)  BY <1>3, <2>4 DEF Shape
  <2>6. ASSUME Progress(t)  PROVE Progress(u)
    <3>1. \A m \in Nodes : m < t.node => HasNode(m, t.item)
      BY <1>5, <2>6 DEF Progress
    <3>2. \A m \in Nodes : m < t.node + 1 => m < t.node \/ m = t.node  BY <1>4
    <3> QED  BY <1>5, <1>c, <2>4, <2>6, <3>1, <3>2 DEF Progress
  <2>7. Effect(t, u)  BY <1>1, <1>3, <2>4, <2>5, <2>6, StillEffect
  <2> QED  BY <2>1, <2>3, <2>7
<1>6. CASE MoreNodes(t) /\ t.phase = "addworker"
  <2> DEFINE u == [t EXCEPT !.todo = D, !.node = @ + 1]
  <2>1. Step(p, u)  BY <1>1, <1>6
  <2>2. t.node + 1 \in Nodes  BY <1>4, <1>6 DEF MoreNodes, Nodes
  <2>3. u \in Tasks  BY <1>2, <2>2 DEF Tasks, Phases
  <2>4. u.item = t.item /\ u.node = t.node + 1 /\ u.phase = "addworker" /\ u.todo = D
    BY <1>6 DEF Tasks
  <2> HIDE DEF u
  <2>5. Shape(u)  BY <1>3, <2>4 DEF Shape
  <2>6. ASSUME Progress(t)  PROVE Progress(u)
    <3>1. /\ \A m \in Nodes : HasNode(m, t.item)
          /\ \A m \in Nodes \ {0} : /\ m < t.node => Listed(t.item, m, {})
                                    /\ m = t.node => Listed(t.item, m, t.todo)
      BY <1>6, <2>6 DEF Progress
    <3>2. \A m \in Nodes : m < t.node + 1 => m < t.node \/ m = t.node  BY <1>4
    <3>3. \A m : Listed(t.item, m, D)  BY DEF Listed
    <3> QED  BY <1>d, <2>4, <3>1, <3>2, <3>3 DEF Progress
  <2>7. Effect(t, u)  BY <1>1, <1>3, <2>4, <2>5, <2>6, StillEffect
  <2> QED  BY <2>1, <2>3, <2>7
<1>7. CASE ~MoreNodes(t) /\ t.phase = "createdb" /\ Replicas > 1
  <2> DEFINE u == [t EXCEPT !.phase = "addworker", !.node = 1, !.todo = D]
  <2>1. Step(p, u)  BY <1>1, <1>7
  <2>2. 1 \in Nodes  BY <1>4, <1>7 DEF Nodes
  <2>3. u \in Tasks  BY <1>2, <2>2 DEF Tasks, Phases
  <2>4. u.item = t.item /\ u.node = 1 /\ u.phase = "addworker" /\ u.todo = D  BY DEF Tasks
  <2> HIDE DEF u
  <2>5. Shape(u)  BY <1>3, <2>4 DEF Shape
  <2>6. ASSUME Progress(t)  PROVE Progress(u)
    <3>1. \A m \in Nodes : m < t.node => HasNode(m, t.item)
      BY <1>7, <2>6 DEF Progress
    <3>2. \A m \in Nodes : m < t.node \/ m = t.node  BY <1>4, <1>7 DEF MoreNodes, Nodes
    <3>3. \A m : Listed(t.item, m, D)  BY DEF Listed
    <3>4. \A m \in Nodes \ {0} : ~(m < 1)  BY <1>4
    <3> QED  BY <1>7, <1>c, <2>4, <2>6, <3>1, <3>2, <3>3, <3>4 DEF Progress
  <2>7. Effect(t, u)  BY <1>1, <1>3, <2>4, <2>5, <2>6, StillEffect
  <2> QED  BY <2>1, <2>3, <2>7
<1>8. CASE ~MoreNodes(t) /\ ~(t.phase = "createdb" /\ Replicas > 1)
  <2> DEFINE u == [t EXCEPT !.node = 0, !.phase = IF Prunes(t) THEN "list" ELSE "done"]
  <2>1. Step(p, u)  BY <1>1, <1>8
  <2>2. u \in Tasks  BY <1>4 DEF Tasks, Phases
  <2>3. u.item = t.item /\ u.phase \in {"list", "done"}  BY DEF Tasks
  <2> HIDE DEF u
  <2>4. Shape(u)  BY <1>3, <2>3 DEF Shape
  <2>5. \A m \in Nodes : m < t.node \/ m = t.node  BY <1>4, <1>8 DEF MoreNodes, Nodes
  <2>6. ASSUME Progress(t)  PROVE Progress(u)
    <3>1. \A m \in Nodes : HasNode(m, t.item)
      BY <1>1, <1>c, <2>5, <2>6 DEF Progress
    <3>2. \A m \in Nodes \ {0} : Listed(t.item, m, {})
      <4>1. CASE t.phase = "createdb"
        <5>1. Nodes \ {0} = {}  BY <1>4, <1>8, <4>1 DEF Nodes
        <5> QED  BY <5>1
      <4>2. CASE t.phase = "addworker"  BY <1>d, <2>5, <2>6, <4>2 DEF Progress
      <4> QED  BY <1>1, <4>1, <4>2
    <3> QED  BY <2>3, <3>1, <3>2 DEF Progress
  <2>7. u.phase # "idle"  BY <2>3
  <2>8. Effect(t, u)  BY <1>1, <1>3, <2>3, <2>4, <2>6, <2>7, StillEffect
  <2> QED  BY <2>1, <2>2, <2>8
<1> QED  BY <1>1, <1>5, <1>6, <1>7, <1>8

\* AddWorkerNode adds a row to the master's list.
LEMMA AddWorkerEffect ==
    ASSUME TypeInv, Book, NEW p \in Procs, NEW t \in Tasks, t = task[p], AddWorkerNode(p)
    PROVE  \E u \in Tasks : Step(p, u) /\ Effect(t, u)
<1> DEFINE r == t.item.req
<1>1. PICK d \in t.todo : /\ workers' = [workers EXCEPT ![r] = @ \cup {<<d, t.node>>}]
                          /\ Step(p, [t EXCEPT !.todo = @ \ {d}])
  BY DEF AddWorkerNode
<1> DEFINE u == [t EXCEPT !.todo = @ \ {d}]
<1>2. t.phase = "addworker" /\ UNCHANGED <<role, dbs, setup>> /\ Step(p, u)
  BY <1>1 DEF AddWorkerNode
<1>3. t.item \in Items /\ t.node \in Nodes /\ r \in Requests
      /\ t.item.dbs \in SUBSET Dbs /\ t.todo \in SUBSET Dbs
  BY <1>2, TaskType
<1>4. u \in Tasks  BY <1>3 DEF Tasks, Phases
<1>5. u.item = t.item /\ u.node = t.node /\ u.phase = "addworker" /\ u.todo = t.todo \ {d}
  BY <1>2 DEF Tasks
<1> HIDE DEF u
<1>6. /\ workers'[r] = workers[r] \cup {<<d, t.node>>}
      /\ \A q \in Requests : q # r => workers'[q] = workers[q]
  BY <1>1, <1>3 DEF TypeInv, TypeOK
<1>7. \A q \in Requests : q # r => SamePg(q)  BY <1>2, <1>6 DEF SamePg
<1>8. SetupExists'  BY <1>2 DEF Book, SetupExists
<1>9. Grows(t.item)  BY <1>2, <1>6 DEF Grows
<1>10. t.item.action # "DELETE"  BY <1>2 DEF Book, Shape
<1>11. Shape(u)  BY <1>5, <1>10 DEF Shape
<1>12. ASSUME Progress(t)  PROVE Progress(u)'
  <2>1. /\ \A n \in Nodes : HasNode(n, t.item) => HasNode(n, t.item)'
        /\ \A n \in Nodes : \A S : Listed(t.item, n, S) => Listed(t.item, n, S)'
    BY <1>3, <1>9, GrowsKeeps
  <2>2. /\ \A m \in Nodes : HasNode(m, t.item)
        /\ \A m \in Nodes \ {0} : /\ m < t.node => Listed(t.item, m, {})
                                  /\ m = t.node => Listed(t.item, m, t.todo)
    BY <1>2, <1>12 DEF Progress
  <2>3. Listed(t.item, t.node, t.todo) => Listed(t.item, t.node, t.todo \ {d})'
    BY <1>6 DEF Listed
  <2> QED  BY <1>3, <1>5, <2>1, <2>2, <2>3 DEF Progress
<1> QED  BY <1>2, <1>4, <1>5, <1>7, <1>8, <1>9, <1>10, <1>11, <1>12 DEF Effect

\* deleteDatabaseIfNotExists lists databases the item does not ask for.
LEMMA ListEffect ==
    ASSUME TypeInv, Book, NEW p \in Procs, NEW t \in Tasks, t = task[p], ListUnlisted(p)
    PROVE  \E u \in Tasks : Step(p, u) /\ Effect(t, u)
<1> DEFINE r == t.item.req
           S == dbs[0][r] \ t.item.dbs
<1>1. /\ t.phase = "list" /\ UNCHANGED pg_vars
      /\ Step(p, [t EXCEPT !.phase = "prune", !.todo = S])
  BY DEF ListUnlisted
<1>2. t.item \in Items /\ r \in Requests /\ 0 \in Nodes
  BY <1>1, TaskType, ReplicasAssumption DEF Nodes
<1>3. PICK W \in SUBSET Dbs : W = S
  <2>1. dbs[0][r] \in SUBSET Dbs  BY <1>2 DEF TypeInv, TypeOK
  <2> QED  BY <2>1
<1> DEFINE u == [t EXCEPT !.phase = "prune", !.todo = W]
<1>4. Step(p, u)  BY <1>1, <1>3
<1>5. u \in Tasks  BY DEF Tasks, Phases
<1>6. u.item = t.item /\ u.phase = "prune" /\ u.todo = W  BY DEF Tasks
<1> HIDE DEF u
<1>7. t.item.action # "DELETE" /\ SetupExists  BY <1>1 DEF Book, Shape
<1>8. Shape(u)  BY <1>3, <1>6, <1>7 DEF Shape
<1>9. Progress(t) => Progress(u)  BY <1>1, <1>6 DEF Progress
<1>10. Effect(t, u)  BY <1>1, <1>6, <1>7, <1>8, <1>9, StillEffect
<1> QED  BY <1>4, <1>5, <1>10

\* What is dropped is not set up any more.
LEMMA DropSetup ==
    ASSUME SetupExists, NEW n \in Nodes, NEW r \in Requests, NEW d, DropResult(n, r, d)
    PROVE  SetupExists'
<1> SUFFICES ASSUME NEW m \in Nodes, NEW q \in Requests
             PROVE  setup'[m][q] \subseteq dbs'[m][q]
  BY DEF SetupExists
<1>1. setup[m][q] \subseteq dbs[m][q]  BY DEF SetupExists
<1>2. CASE q # r  BY <1>1, <1>2 DEF DropResult
<1>3. CASE q = r  BY <1>1, <1>3 DEF DropResult
<1> QED  BY <1>2, <1>3

\* Dropping a database the item does not ask for.
LEMMA PruneEffect ==
    ASSUME TypeInv, Book, NEW p \in Procs, NEW t \in Tasks, t = task[p], PruneDatabase(p)
    PROVE  \E u \in Tasks : Step(p, u) /\ Effect(t, u)
<1> DEFINE r == t.item.req
<1>1. t.phase = "prune"  BY DEF PruneDatabase
<1>2. t.item \in Items /\ t.node \in Nodes /\ r \in Requests
      /\ t.item.dbs \in SUBSET Dbs /\ t.todo \in SUBSET Dbs
  BY <1>1, TaskType
<1>3. PICK d \in t.todo :
         /\ DropDatabase(t.node, r, d)
         /\ Step(p, IF MoreNodes(t)
                      THEN [t EXCEPT !.node = @ + 1, !.db = {d}]
                      ELSE [t EXCEPT !.node = 0, !.db = {}, !.todo = @ \ {d}])
  BY DEF PruneDatabase
<1> DEFINE u == IF MoreNodes(t)
                  THEN [t EXCEPT !.node = @ + 1, !.db = {d}]
                  ELSE [t EXCEPT !.node = 0, !.db = {}, !.todo = @ \ {d}]
<1>4. Step(p, u) /\ d \in Dbs  BY <1>2, <1>3
<1>5. u \in Tasks
  <2>1. 0 \in Nodes /\ (MoreNodes(t) => t.node + 1 \in Nodes)
    BY <1>2, ReplicasAssumption DEF MoreNodes, Nodes
  <2> QED  BY <1>2, <1>4, <2>1 DEF Tasks, Phases
<1>6. u.item = t.item /\ u.phase = "prune" /\ u.todo \subseteq t.todo
  BY <1>1, <1>2 DEF Tasks
<1> HIDE DEF u
<1>7. t.item.action # "DELETE" /\ t.todo \cap t.item.dbs = {} /\ SetupExists
  BY <1>1 DEF Book, Shape
<1>8. Shape(u)  BY <1>6, <1>7 DEF Shape
<1>9. DropResult(t.node, r, d) /\ UNCHANGED role
  BY <1>2, <1>3, <1>4, DropEffect DEF DropDatabase
<1>10. \A q \in Requests : q # r => SamePg(q)  BY <1>9 DEF DropResult, SamePg
<1>11. SetupExists'  BY <1>2, <1>4, <1>7, <1>9, DropSetup
<1>12. Grows(t.item)
  <2>1. d \notin t.item.dbs  BY <1>7
  <2>2. \A n \in Nodes : setup[n][r] \cap t.item.dbs \subseteq setup'[n][r]
    BY <1>9, <2>1 DEF DropResult
  <2>3. \A e \in t.item.dbs, n \in Nodes :
           <<e, n>> \in workers[r] => <<e, n>> \in workers'[r]
    <3> SUFFICES ASSUME NEW e \in t.item.dbs, NEW n \in Nodes, <<e, n>> \in workers[r]
                 PROVE  <<e, n>> \in workers'[r]
      OBVIOUS
    <3>1. <<e, n>>[1] = e /\ e # d  BY <2>1
    <3> QED  BY <1>9, <3>1 DEF DropResult
  <2> QED  BY <1>9, <2>2, <2>3 DEF Grows
<1>13. ASSUME Progress(t)  PROVE Progress(u)'
  <2>1. Progress(t)'
    BY <1>2, <1>12, <1>13, GrowsKeeps
  <2> QED  BY <1>1, <1>6, <2>1 DEF Progress
<1>14. u.phase # "idle"  BY <1>6
<1>15. Effect(t, u)
  BY <1>6, <1>7, <1>8, <1>10, <1>11, <1>12, <1>13, <1>14 DEF Effect
<1> QED  BY <1>4, <1>5, <1>15

\* deleteDatabaseIfNotExists returns.
LEMMA PruneReturnsEffect ==
    ASSUME TypeInv, Book, NEW p \in Procs, NEW t \in Tasks, t = task[p], PruneReturns(p)
    PROVE  \E u \in Tasks : Step(p, u) /\ Effect(t, u)
<1> DEFINE u == [t EXCEPT !.phase = "done"]
<1>1. t.phase = "prune" /\ UNCHANGED pg_vars /\ Step(p, u)  BY DEF PruneReturns
<1>2. u \in Tasks  BY DEF Tasks, Phases
<1>3. u.item = t.item /\ u.phase = "done"  BY DEF Tasks
<1> HIDE DEF u
<1>4. t.item.action # "DELETE" /\ SetupExists  BY <1>1 DEF Book, Shape
<1>5. Shape(u)  BY <1>3 DEF Shape
<1>6. Progress(t) => Progress(u)  BY <1>1, <1>3 DEF Progress
<1>7. Effect(t, u)  BY <1>1, <1>3, <1>4, <1>5, <1>6, StillEffect
<1> QED  BY <1>1, <1>2, <1>7

\* deletePGAll drops one database on its node; nodes it has left stay clean.
LEMMA DropOneEffect ==
    ASSUME TypeInv, Book, NEW p \in Procs, NEW t \in Tasks, t = task[p], DropOne(p)
    PROVE  \E u \in Tasks : Step(p, u) /\ Effect(t, u)
<1> DEFINE r == t.item.req
<1>1. t.phase \in {"drop", "droprest"}  BY DEF DropOne
<1>2. t.item \in Items /\ t.node \in Nodes /\ r \in Requests /\ t.todo \in SUBSET Dbs
  BY <1>1, TaskType
<1>3. PICK d \in t.todo : DropDatabase(t.node, r, d) /\ Step(p, [t EXCEPT !.todo = @ \ {d}])
  BY DEF DropOne
<1> DEFINE u == [t EXCEPT !.todo = @ \ {d}]
<1>4. Step(p, u) /\ d \in Dbs  BY <1>2, <1>3
<1>5. u \in Tasks  BY <1>2 DEF Tasks
<1>6. u.item = t.item /\ u.phase = t.phase /\ u.node = t.node  BY DEF Tasks
<1> HIDE DEF u
<1>7. t.item.action = "DELETE" /\ SetupExists  BY <1>1 DEF Book, Shape
<1>8. Shape(u)  BY <1>1, <1>6, <1>7 DEF Shape
<1>9. DropResult(t.node, r, d) /\ UNCHANGED role
  BY <1>2, <1>3, <1>4, DropEffect DEF DropDatabase
<1>10. \A q \in Requests : q # r => SamePg(q)  BY <1>9 DEF DropResult, SamePg
<1>11. SetupExists'  BY <1>2, <1>4, <1>7, <1>9, DropSetup
<1>12. \A n \in Nodes : Clean(n, r) => Clean(n, r)'
  BY <1>2, <1>9 DEF DropResult, Clean
<1>13. DProgress(t) => DProgress(u)'
  BY <1>1, <1>6, <1>12 DEF DProgress
<1>14. u.phase # "idle"  BY <1>1, <1>6
<1>15. Effect(t, u)
  BY <1>6, <1>7, <1>8, <1>10, <1>11, <1>12, <1>13, <1>14 DEF Effect
<1> QED  BY <1>4, <1>5, <1>15

\* deletePGAll lists what the role still owns.
LEMMA ListOwnedEffect ==
    ASSUME TypeInv, Book, NEW p \in Procs, NEW t \in Tasks, t = task[p], ListOwned(p)
    PROVE  \E u \in Tasks : Step(p, u) /\ Effect(t, u)
<1> DEFINE r == t.item.req
<1>1. /\ t.phase = "drop" /\ UNCHANGED pg_vars
      /\ Step(p, [t EXCEPT !.phase = "droprest", !.todo = dbs[t.node][r]])
  BY DEF ListOwned
<1>2. t.item \in Items /\ r \in Requests /\ t.node \in Nodes
  BY <1>1, TaskType
<1>3. PICK W \in SUBSET Dbs : W = dbs[t.node][r]  BY <1>2 DEF TypeInv, TypeOK
<1> DEFINE u == [t EXCEPT !.phase = "droprest", !.todo = W]
<1>4. Step(p, u)  BY <1>1, <1>3
<1>5. u \in Tasks  BY DEF Tasks, Phases
<1>6. u.item = t.item /\ u.phase = "droprest" /\ u.node = t.node  BY DEF Tasks
<1> HIDE DEF u
<1>7. t.item.action = "DELETE" /\ SetupExists  BY <1>1 DEF Book, Shape
<1>8. Shape(u)  BY <1>6, <1>7 DEF Shape
<1>9. DProgress(t) => DProgress(u)  BY <1>1, <1>6 DEF DProgress
<1>10. Effect(t, u)  BY <1>1, <1>6, <1>7, <1>8, <1>9, StillEffect
<1> QED  BY <1>4, <1>5, <1>10

\* DeleteUser leaves the node clean: the role is gone and owned nothing.
LEMMA DeleteUserEffect ==
    ASSUME TypeInv, Book, NEW p \in Procs, NEW t \in Tasks, t = task[p], DeleteUser(p)
    PROVE  \E u \in Tasks : Step(p, u) /\ Effect(t, u)
<1> DEFINE r == t.item.req
           u == IF MoreNodes(t)
                  THEN [t EXCEPT !.phase = "drop", !.node = @ + 1,
                                 !.todo = Wanted(t.item, t.node + 1)]
                  ELSE [t EXCEPT !.phase = "done", !.node = 0]
<1>1. /\ t.phase = "droprest" /\ dbs[t.node][r] = {} /\ UNCHANGED <<dbs, setup, workers>>
      /\ role' = [role EXCEPT ![t.node][r] = 0] /\ Step(p, u)
  BY DEF DeleteUser
<1>2. t.item \in Items /\ t.node \in Nodes /\ r \in Requests
  BY <1>1, TaskType
<1>m. MoreNodes(t) => t.node + 1 \in Nodes
  BY <1>2, ReplicasAssumption DEF MoreNodes, Nodes
<1>3. u \in Tasks
  <2>1. 0 \in Nodes  BY ReplicasAssumption DEF Nodes
  <2>2. MoreNodes(t) => Wanted(t.item, t.node + 1) \in SUBSET Dbs  BY <1>2, <1>m, WantedType
  <2> QED  BY <1>m, <2>1, <2>2 DEF Tasks, Phases
<1>4. /\ u.item = t.item
      /\ MoreNodes(t) => u.phase = "drop" /\ u.node = t.node + 1
      /\ ~MoreNodes(t) => u.phase = "done"
  BY DEF Tasks
<1> HIDE DEF u
<1>5. t.item.action = "DELETE" /\ SetupExists  BY <1>1 DEF Book, Shape
<1>6. Shape(u)  BY <1>4, <1>5 DEF Shape
<1>7. \A n \in Nodes, q \in Requests :
         role'[n][q] = IF n = t.node /\ q = r THEN 0 ELSE role[n][q]
  BY <1>1, <1>2, BoundAssumption DEF TypeInv, TypeOK
<1>8. \A q \in Requests : q # r => SamePg(q)  BY <1>1, <1>7 DEF SamePg
<1>9. SetupExists'  BY <1>1, <1>5 DEF SetupExists
<1>10. \A n \in Nodes : Clean(n, r) => Clean(n, r)'
  BY <1>1, <1>2, <1>7 DEF Clean
<1>11. Clean(t.node, r)'
  <2>1. setup[t.node][r] = {}  BY <1>1, <1>2, <1>5 DEF SetupExists
  <2> QED  BY <1>1, <1>2, <1>7, <2>1 DEF Clean
<1>12. ASSUME DProgress(t)  PROVE DProgress(u)'
  <2>1. \A m \in Nodes : m < t.node => Clean(m, r)  BY <1>1, <1>12 DEF DProgress
  <2>2. CASE MoreNodes(t)
    <3>1. \A m \in Nodes : m < t.node + 1 => m < t.node \/ m = t.node
      BY <1>2 DEF Nodes
    <3> QED  BY <1>4, <1>10, <1>11, <2>1, <2>2, <3>1 DEF DProgress
  <2>3. CASE ~MoreNodes(t)
    <3>1. \A m \in Nodes : m < t.node \/ m = t.node
      BY <1>2, <2>3, ReplicasAssumption DEF Nodes, MoreNodes
    <3> QED  BY <1>4, <1>10, <1>11, <2>1, <2>3, <3>1 DEF DProgress
  <2> QED  BY <2>2, <2>3
<1>13. u.phase # "idle"  BY <1>4
<1>14. Effect(t, u)
  BY <1>4, <1>5, <1>6, <1>8, <1>9, <1>10, <1>12, <1>13 DEF Effect
<1> QED  BY <1>1, <1>3, <1>14

\* Every statement has such an effect.
LEMMA StatementEffect ==
    ASSUME TypeInv, Book, NEW p \in Procs, Statement(p)
    PROVE  \E t, u \in Tasks : t = task[p] /\ Step(p, u) /\ Effect(t, u)
<1>1. PICK t \in Tasks : t = task[p]  BY StatementBusy, TaskType
<1> QED
  BY <1>1, DispatchEffect, UserEffect, CreateDbEffect, SetupEffect, NextNodeEffect,
     AddWorkerEffect, ListEffect, PruneEffect, PruneReturnsEffect, DropOneEffect,
     ListOwnedEffect, DeleteUserEffect
  DEF Statement

\* A statement keeps everything that is known of the request it is for: either the
\* statement works for the newest version, or the overtaking is noted.
LEMMA StatementSettled ==
    ASSUME TypeInv, RInv, NEW p \in Procs, NEW t \in Tasks, NEW u \in Tasks,
           t = task[p], t.phase # "idle", Step(p, u), Effect(t, u), NEW r \in Requests,
           t.item.req = r
    PROVE  Settled(r)'
<1>1. /\ task' = [task EXCEPT ![p] = u] /\ excuse' = Overtaken(p)
      /\ UNCHANGED <<gen, api, known, watch, queue, delayed, notify, replay, applied>>
  BY DEF Step, api_vars, inf_vars
<1>2. Settled(r) /\ Book  BY DEF RInv
<1>3. task'[p] = u /\ \A q \in Procs : q # p => task'[q] = task[q]
  BY <1>1 DEF TypeInv, TypeOK
<1>4. u.item = t.item /\ u.phase # "idle"  BY DEF Effect
<1>5. excuse[r] \subseteq excuse'[r]
  BY <1>1 DEF Overtaken, TypeInv, TypeOK
<1>6. Waiting(r)' <=> Waiting(r)
  BY <1>1 DEF Waiting, Watched, Held, SeqRange, Newest
<1>7. \A q \in Procs : /\ At(q, r)' <=> At(q, r)
                       /\ RunsOn(q, r)' <=> RunsOn(q, r)
                       /\ task'[q].item = task[q].item
  BY <1>1, <1>3, <1>4 DEF At, Running, RunsOn, Newest
<1>8. InOrder(r)'  BY <1>1, <1>2, <1>5, <1>7 DEF Settled, InOrder
<1>9. NotForgotten(r)'  BY <1>1, <1>2, <1>5, <1>6, <1>7 DEF Settled, NotForgotten
<1>10. t.item \in Items /\ t.item.ver \in Nat /\ t.item.dbs \in SUBSET Dbs
  BY TaskType
<1>11. gen[r] \in Nat /\ applied[r] \in Nat /\ applied[r] <= gen[r]
  BY <1>2, BoundAssumption DEF TypeInv, TypeOK, Book, Versions
<1>12. Timely(t.item) /\ t.item.ver <= gen[r]
  BY <1>2 DEF Book, AllTimely, Running, Timely
<1>13. ASSUME "overtaken" \notin excuse'[r], ~Waiting(r),
              api[r] # Absent \/ "lost" \notin excuse'[r]
       PROVE  t.item.ver = gen[r]
  <2>1. "overtaken" \notin excuse[r]  BY <1>5, <1>13
  <2>2. At("worker", r) \/ applied[r] = gen[r]
    BY <1>2, <1>5, <1>13 DEF Settled, NotForgotten
  <2>3. CASE p = "worker"
    <3>1. RunsOn("worker", r)  BY <2>3 DEF RunsOn, Running
    <3>2. t.item.ver >= applied[r]  BY <1>2, <2>1, <2>3, <3>1 DEF Settled, InOrder
    <3> QED  BY <1>10, <1>11, <1>12, <2>2, <2>3, <3>2 DEF At, Newest
  <2>4. CASE p = "recreate"
    <3> SUFFICES ASSUME t.item.ver # gen[r]  PROVE FALSE
      OBVIOUS
    <3>1. t.item.ver < gen[r]  BY <1>10, <1>11, <1>12
    <3>2. Stale(t.item) \/ (RunsOn("worker", r) /\ task["worker"].item.ver > t.item.ver)
      BY <1>10, <1>11, <2>2, <3>1 DEF Stale, At, Newest, RunsOn
    <3>3. excuse'[r] = excuse[r] \cup {"overtaken"}
      BY <1>1, <2>4, <3>2 DEF Overtaken, TypeInv, TypeOK
    <3> QED  BY <1>13, <3>3
  <2> QED  BY <2>3, <2>4
<1>14. Provided(r)'
  <2> SUFFICES ASSUME api[r] # Absent, excuse'[r] \cap {"overtaken", "swallowed"} = {},
                      ~Waiting(r)
               PROVE  (\/ notify = "due" \/ \E i \in replay : Newest(i, r)
                       \/ \E q \in Procs : At(q, r) /\ Progress(task[q])
                       \/ Serves(r, api[r]))'
    BY <1>1, <1>6 DEF Provided
  <2>1. t.item.ver = gen[r]  BY <1>13
  <2>2. t.item.action # "DELETE" /\ t.item.dbs = api[r].dbs
    BY <1>12, <2>1 DEF Timely
  <2>3. Grows(t.item) /\ (Progress(t) => Progress(u)')  BY <2>2 DEF Effect
  <2>4. excuse[r] \cap {"overtaken", "swallowed"} = {}  BY <1>5
  <2>5. \/ notify = "due" \/ \E i \in replay : Newest(i, r)
        \/ \E q \in Procs : At(q, r) /\ Progress(task[q])
        \/ Serves(r, api[r])
    BY <1>2, <2>4 DEF Settled, Provided
  <2>6. CASE notify = "due"  BY <1>1, <2>6
  <2>7. CASE \E i \in replay : Newest(i, r)
    BY <1>1, <2>7 DEF Newest
  <2>8. ASSUME NEW q \in Procs, At(q, r), Progress(task[q])
        PROVE  At(q, r)' /\ Progress(task[q])'
    <3>1. At(q, r)'  BY <1>7, <2>8
    <3>2. CASE q = p
      <4>1. Progress(u)'  BY <2>3, <2>8, <3>2
      <4>2. task'[q] = u  BY <1>3, <3>2
      <4> QED  BY <3>1, <4>1, <4>2 DEF Progress, HasNode, Listed
    <3>3. CASE q # p
      <4>1. PICK s : s = task[q]  OBVIOUS
      <4>2. s \in Tasks /\ s.item \in Items /\ s.item.req = r /\ s.item.ver = gen[r]
        BY <2>8, <4>1, TaskType DEF At, Running, Newest
      <4>3. Timely(s.item)  BY <1>2, <2>8, <4>1 DEF Book, AllTimely, At
      <4>4. s.item.dbs = t.item.dbs /\ s.item.req = t.item.req /\ s.item.ver = t.item.ver
        BY <2>1, <2>2, <4>2, <4>3 DEF Timely
      <4>5. Progress(s)  BY <2>8, <4>1
      <4>6. Progress(s)'  BY <1>10, <2>3, <4>2, <4>4, <4>5, GrowsKeeps
      <4>7. task'[q] = s  BY <1>3, <3>3, <4>1
      <4> QED  BY <3>1, <4>6, <4>7 DEF Progress, HasNode, Listed
    <3> QED  BY <3>2, <3>3
  <2>9. CASE Serves(r, api[r])
    <3>1. PICK o : o = api[r]  OBVIOUS
    <3>2. o.ver = gen[r] /\ o.dbs = t.item.dbs
      BY <1>2, <2>2, <3>1 DEF Book, Versions
    <3>3. Serves(r, o)  BY <2>9, <3>1
    <3>4. \A n \in Nodes : /\ role'[n][r] = o.ver
                           /\ Wanted(o, n) \subseteq setup'[n][r]
      BY <2>1, <2>3, <3>2, <3>3 DEF Serves, Grows, Wanted
    <3>5. \A d \in o.dbs \cap Dist, n \in Nodes \ {0} : <<d, n>> \in workers'[r]
      <4>1. \A d \in o.dbs \cap Dist, n \in Nodes \ {0} : <<d, n>> \in workers[r]
        BY <3>3 DEF Serves
      <4> QED  BY <2>3, <3>2, <4>1 DEF Grows
    <3>6. Serves(r, o)'  BY <3>4, <3>5 DEF Serves
    <3>7. api'[r] = o  BY <1>1, <3>1
    <3> QED  BY <3>6, <3>7 DEF Serves
  <2> QED  BY <2>5, <2>6, <2>7, <2>8, <2>9
<1>15. Removed(r)'
  <2> SUFFICES ASSUME api[r] = Absent, excuse'[r] \cap {"overtaken", "lost"} = {}
               PROVE  (/\ At("worker", r) => DProgress(task["worker"])
                       /\ applied[r] = gen[r] => \A n \in Nodes : Clean(n, r))'
    BY <1>1 DEF Removed
  <2>1. excuse[r] \cap {"overtaken", "lost"} = {}  BY <1>5
  <2>2. /\ At("worker", r) => DProgress(task["worker"])
        /\ applied[r] = gen[r] => \A n \in Nodes : Clean(n, r)
    BY <1>2, <2>1 DEF Settled, Removed
  <2>3. ASSUME At("worker", r) \/ applied[r] = gen[r]
        PROVE  p = "worker" /\ t.item.action = "DELETE"
    <3>1. t.item.ver = gen[r] => t.item.action = "DELETE"  BY <1>12 DEF Timely
    <3>2. CASE p = "worker"
      <4>1. RunsOn("worker", r)  BY <3>2 DEF RunsOn, Running
      <4>2. t.item.ver >= applied[r]  BY <1>2, <2>1, <3>2, <4>1 DEF Settled, InOrder
      <4> QED  BY <1>10, <1>11, <1>12, <2>3, <3>1, <3>2, <4>2 DEF At, Newest
    <3>3. CASE p = "recreate"
      <4>1. t.item.action = "ADD"  BY <1>2, <3>3 DEF Book, AllTimely, Running
      <4>2. t.item.ver < gen[r]  BY <1>10, <1>11, <1>12, <3>1, <4>1
      <4>3. Stale(t.item) \/ (RunsOn("worker", r) /\ task["worker"].item.ver > t.item.ver)
        BY <1>10, <1>11, <2>3, <4>2 DEF Stale, At, Newest, RunsOn
      <4>4. excuse'[r] = excuse[r] \cup {"overtaken"}
        BY <1>1, <3>3, <4>3 DEF Overtaken, TypeInv, TypeOK
      <4> QED  BY <4>4
    <3> QED  BY <3>2, <3>3
  <2>4. ASSUME At("worker", r)'  PROVE DProgress(task["worker"])'
    <3>1. At("worker", r)  BY <1>7, <2>4
    <3>2. p = "worker" /\ t.item.action = "DELETE"  BY <2>3, <3>1
    <3>3. DProgress(u)'  BY <2>2, <3>1, <3>2 DEF Effect
    <3> QED  BY <1>3, <3>2, <3>3 DEF DProgress, Clean
  <2>5. ASSUME applied[r] = gen[r], NEW n \in Nodes  PROVE Clean(n, r)'
    <3>1. Clean(n, r) /\ t.item.action = "DELETE"  BY <2>2, <2>3, <2>5
    <3> QED  BY <3>1 DEF Effect
  <2> QED  BY <1>1, <2>4, <2>5
<1> QED  BY <1>8, <1>9, <1>14, <1>15 DEF Settled

----------------------------------------------------------------------------
(* The other steps.                                                        *)

\* A step that is not about r.
LEMMA Bystander ==
    ASSUME TypeInv, NEW r \in Requests, Settled(r), gen'[r] = gen[r], api'[r] = api[r],
           applied'[r] = applied[r], excuse[r] \subseteq excuse'[r],
           Waiting(r) => Waiting(r)', SamePg(r),
           \A p \in Procs : RunsOn(p, r) \/ RunsOn(p, r)' => task'[p] = task[p],
           notify = "due" => notify' = "due",
           \A i \in replay : Newest(i, r) => i \in replay'
    PROVE  Settled(r)'
<1>1. \A p \in Procs : At(p, r) => At(p, r)' /\ task'[p] = task[p] /\ task[p].item.req = r
  BY DEF At, Running, RunsOn, Newest
<1>2. InOrder(r)'
  <2> SUFFICES ASSUME "overtaken" \notin excuse'[r], RunsOn("worker", r)'
               PROVE  task'["worker"].item.ver >= applied'[r]
    BY DEF InOrder
  <2>1. task'["worker"] = task["worker"]  OBVIOUS
  <2>2. RunsOn("worker", r)  BY <2>1 DEF RunsOn, Running
  <2> QED  BY <2>1, <2>2 DEF Settled, InOrder
<1>3. NotForgotten(r)'  BY <1>1 DEF Settled, NotForgotten
<1>4. Provided(r)'
  <2> SUFFICES ASSUME api[r] # Absent, excuse'[r] \cap {"overtaken", "swallowed"} = {},
                      ~Waiting(r)
               PROVE  (\/ notify = "due" \/ \E i \in replay : Newest(i, r)
                       \/ \E q \in Procs : At(q, r) /\ Progress(task[q])
                       \/ Serves(r, api[r]))'
    BY DEF Provided
  <2>1. \/ notify = "due" \/ \E i \in replay : Newest(i, r)
        \/ \E q \in Procs : At(q, r) /\ Progress(task[q])
        \/ Serves(r, api[r])
    BY DEF Settled, Provided
  <2>2. CASE \E i \in replay : Newest(i, r)
    BY <2>2 DEF Newest
  <2>3. ASSUME NEW q \in Procs, At(q, r), Progress(task[q])
        PROVE  At(q, r)' /\ Progress(task[q])'
    <3>1. PICK s : s = task[q]  OBVIOUS
    <3>2. s \in Tasks /\ s.item.req = r /\ s.node \in Nodes
      BY <1>1, <2>3, <3>1, TaskType DEF At, Running
    <3>3. Progress(s)  BY <2>3, <3>1
    <3>4. Progress(s)'  BY <3>2, <3>3 DEF Progress, HasNode, Listed, SamePg
    <3>5. task'[q] = s  BY <1>1, <2>3, <3>1
    <3> QED  BY <1>1, <2>3, <3>4, <3>5 DEF Progress, HasNode, Listed
  <2>4. CASE Serves(r, api[r])
    BY <2>4 DEF Serves, SamePg
  <2> QED  BY <2>1, <2>2, <2>3, <2>4
<1>5. Removed(r)'
  <2> SUFFICES ASSUME api[r] = Absent, excuse'[r] \cap {"overtaken", "lost"} = {}
               PROVE  (/\ At("worker", r) => DProgress(task["worker"])
                       /\ applied[r] = gen[r] => \A n \in Nodes : Clean(n, r))'
    BY DEF Removed
  <2>1. /\ At("worker", r) => DProgress(task["worker"])
        /\ applied[r] = gen[r] => \A n \in Nodes : Clean(n, r)
    BY DEF Settled, Removed
  <2>2. \A n \in Nodes : Clean(n, r) => Clean(n, r)'  BY DEF Clean, SamePg
  <2>3. ASSUME At("worker", r)'  PROVE DProgress(task["worker"])'
    <3>1. task'["worker"] = task["worker"]
      BY <2>3 DEF At, RunsOn, Newest
    <3>2. At("worker", r)  BY <2>3, <3>1 DEF At, Running, Newest
    <3>3. DProgress(task["worker"])  BY <2>1, <3>2
    <3>4. task["worker"].item.req = r  BY <1>1, <3>2
    <3> QED  BY <2>2, <3>1, <3>3, <3>4 DEF DProgress
  <2> QED  BY <2>1, <2>2, <2>3
<1> QED  BY <1>2, <1>3, <1>4, <1>5 DEF Settled

\* While the newest version of r waits, nothing is claimed of the cluster for an existing r.
LEMMA StillWaiting ==
    ASSUME NEW r \in Requests, Waiting(r)', InOrder(r)', Removed(r)'
    PROVE  Settled(r)'
BY DEF Settled, NotForgotten, Provided

\* Whatever waits is an item.
LEMMA WaitingItems ==
    ASSUME TypeInv
    PROVE  Held \subseteq Items /\ \A r \in Requests : Watched(r) \subseteq Items
<1>1. \A s \in Seq(Items) : SeqRange(s) \subseteq Items  BY DEF SeqRange
<1> QED  BY <1>1 DEF TypeInv, TypeOK, Held, Watched

\* Items of objects that stay as they are.
LEMMA KeepTimely ==
    ASSUME AllTimely, UNCHANGED <<gen, api>>,
           \A r \in Requests : \A i \in Watched(r)' : i.req = r /\ Timely(i),
           \A i \in Held' : Timely(i),
           \A i \in replay' : Timely(i) /\ i.action = "ADD",
           \A p \in Procs : Running(p)' => Timely(task'[p].item),
           Running("recreate")' => task'["recreate"].item.action = "ADD"
    PROVE  AllTimely'
<1>1. \A i : Timely(i)' <=> Timely(i)  BY DEF Timely
<1>2. \A p \in Procs : Timely(task'[p].item) => Timely(task[p].item)'  BY DEF Timely
<1> QED  BY <1>1, <1>2 DEF AllTimely

\* The invariant before a step with no change to the cluster.
LEMMA SameCluster ==
    ASSUME UNCHANGED pg_vars
    PROVE  (SetupExists => SetupExists') /\ \A r \in Requests : SamePg(r)
BY DEF pg_vars, SetupExists, SamePg

\* A user changes a request: the new version waits in the watch.
LEMMA ChangeStep ==
    ASSUME TypeInv, RInv, NEW q \in Requests, NEW a \in {"ADD", "UPDATE", "DELETE"},
           NEW o \in SUBSET Dbs, Change(q, a, o)
    PROVE  RInv'
<1>e. PICK e : e = Item(a, q, IF a = "DELETE" THEN api[q] ELSE [dbs |-> o], gen[q] + 1, FALSE)
  OBVIOUS
<1>1. /\ gen' = [gen EXCEPT ![q] = @ + 1]
      /\ api' = [api EXCEPT ![q] = IF a = "DELETE" THEN Absent
                                   ELSE [ver |-> gen[q] + 1, dbs |-> o]]
      /\ watch' = [watch EXCEPT ![q] = Append(@, e)]
      /\ UNCHANGED <<queue, delayed, task, notify, replay, applied, excuse>>
      /\ UNCHANGED pg_vars
  BY <1>e DEF Change, hist_vars
<1>2. /\ gen \in [Requests -> 0 .. MaxGen] /\ gen[q] \in Nat
      /\ api \in [Requests -> Objects \cup {Absent}] /\ watch \in [Requests -> Seq(Items)]
      /\ applied \in [Requests -> 0 .. MaxGen] /\ gen[q] < MaxGen /\ MaxGen \in Nat
  BY BoundAssumption DEF TypeInv, TypeOK, Change
<1>3. /\ gen'[q] = gen[q] + 1 /\ watch'[q] = Append(watch[q], e)
      /\ api'[q] = IF a = "DELETE" THEN Absent ELSE [ver |-> gen[q] + 1, dbs |-> o]
      /\ \A r \in Requests : r # q => /\ gen'[r] = gen[r] /\ api'[r] = api[r]
                                      /\ watch'[r] = watch[r]
  BY <1>1, <1>2
<1>4. /\ e \in Items /\ e.req = q /\ e.ver = gen[q] + 1 /\ e.action = a
      /\ a # "DELETE" => e.dbs = o
  <2>1. api[q].dbs \in SUBSET Dbs  BY <1>2, ObjectType
  <2>2. gen[q] + 1 \in 1 .. MaxGen  BY <1>2
  <2>3. e \in Items  BY <1>e, <2>1, <2>2, ItemType
  <2> QED  BY <1>e, <2>3 DEF Item
<1>5. Watched(q)' = Watched(q) \cup {e} /\ \A r \in Requests : r # q => Watched(r)' = Watched(r)
  BY <1>2, <1>3, <1>4, RangeOf DEF Watched
<1>6. Held' = Held  BY <1>1 DEF Held, SeqRange
<1>7. \A i \in Items : Timely(i) => Timely(i)'
  <2> SUFFICES ASSUME NEW i \in Items, Timely(i)  PROVE Timely(i)'
    OBVIOUS
  <2>1. i.req \in Requests /\ i.ver \in Nat  BY DEF Items
  <2>2. CASE i.req # q  BY <1>3, <2>1, <2>2 DEF Timely
  <2>3. CASE i.req = q  BY <1>2, <1>3, <2>1, <2>3 DEF Timely
  <2> QED  BY <2>2, <2>3
<1>8. Absent # [ver |-> gen[q] + 1, dbs |-> o]  BY <1>2 DEF Absent
<1>9. Timely(e)'
  <2>1. e.ver = gen'[q] /\ e.ver <= gen'[q]  BY <1>2, <1>3, <1>4
  <2>2. CASE a = "DELETE"  BY <1>3, <1>4, <2>1, <2>2 DEF Timely
  <2>3. CASE a # "DELETE"
    <3>1. api'[q] # Absent /\ api'[q].dbs = o  BY <1>3, <1>8, <2>3
    <3> QED  BY <1>4, <2>1, <2>3, <3>1 DEF Timely
  <2> QED  BY <2>2, <2>3
<1>10. AllTimely'
  <2>1. AllTimely  BY DEF RInv, Book
  <2>2. \A r \in Requests : \A i \in Watched(r)' : i.req = r /\ Timely(i)'
    BY <1>4, <1>5, <1>7, <1>9, <2>1, WaitingItems DEF AllTimely
  <2>3. \A i \in Held' : Timely(i)'
    BY <1>6, <1>7, <2>1, WaitingItems DEF AllTimely
  <2>4. \A i \in replay' : Timely(i)' /\ i.action = "ADD"
    BY <1>1, <1>7, <2>1 DEF AllTimely, TypeInv, TypeOK
  <2>5. \A p \in Procs : Running(p) => Timely(task[p].item)'
    <3> SUFFICES ASSUME NEW p \in Procs, Running(p)  PROVE Timely(task[p].item)'
      OBVIOUS
    <3>1. PICK i : i = task[p].item  OBVIOUS
    <3>2. i \in Items /\ Timely(i)  BY <2>1, <3>1, TaskType DEF AllTimely, Running
    <3>3. Timely(i)'  BY <1>7, <3>2
    <3> QED  BY <1>1, <3>1, <3>3 DEF Timely
  <2> QED  BY <1>1, <2>1, <2>2, <2>3, <2>4, <2>5 DEF AllTimely, Running
<1>11. Versions'
  <2>1. Versions  BY DEF RInv, Book
  <2> SUFFICES ASSUME NEW r \in Requests
               PROVE  (api'[r] # Absent => api'[r].ver = gen'[r]) /\ applied'[r] <= gen'[r]
    BY DEF Versions
  <2>2. CASE r # q  BY <1>1, <1>3, <2>1, <2>2 DEF Versions
  <2>3. CASE r = q  BY <1>1, <1>2, <1>3, <2>1, <2>3 DEF Versions
  <2> QED  BY <2>2, <2>3
<1>12. Book'
  <2>1. SetupExists'  BY <1>1, SameCluster DEF RInv, Book
  <2>2. \A p \in Procs : Shape(task[p])'  BY <1>1 DEF RInv, Book, Shape
  <2> QED  BY <1>10, <1>11, <2>1, <2>2 DEF Book
<1>13. ASSUME NEW r \in Requests  PROVE Settled(r)'
  <2>1. Settled(r)  BY DEF RInv
  <2>2. InOrder(r)'  BY <1>1, <2>1 DEF Settled, InOrder, RunsOn, Running
  <2>3. CASE r = q
    <3>1. Waiting(r)'  BY <1>3, <1>4, <1>5, <2>3 DEF Waiting, Newest
    <3>2. Removed(r)'
      <4>1. applied'[r] # gen'[r]
        BY <1>1, <1>2, <1>3, <2>3 DEF RInv, Book, Versions
      <4>2. ~At("worker", r)'
        <5> SUFFICES ASSUME Running("worker"), task["worker"].item.req = r
                     PROVE  task["worker"].item.ver # gen'[r]
          BY <1>1 DEF At, Running, Newest
        <5>1. Timely(task["worker"].item)  BY DEF RInv, Book, AllTimely
        <5>2. task["worker"].item.ver \in Nat  BY TaskType DEF Running
        <5> QED  BY <1>2, <1>3, <2>3, <5>1, <5>2 DEF Timely
      <4> QED  BY <4>1, <4>2 DEF Removed
    <3> QED  BY <2>2, <3>1, <3>2, StillWaiting
  <2>4. CASE r # q
    <3>1. Waiting(r) => Waiting(r)'  BY <1>3, <1>5, <1>6, <2>4 DEF Waiting, Newest
    <3>2. SamePg(r)  BY <1>1, SameCluster
    <3> QED  BY <1>1, <1>3, <2>1, <2>4, <3>1, <3>2, Bystander
  <2> QED  BY <2>3, <2>4
<1> QED  BY <1>12, <1>13 DEF RInv

\* What there is to know of an item that has been handed to the worker.
LEMMA StartFields ==
    ASSUME NEW i \in Items
    PROVE  /\ Start(i).phase = "handler" /\ Start(i).item = i /\ Shape(Start(i))
           /\ Idle.phase = "idle" /\ Shape(Idle)
<1>1. Start(i).phase = "handler" /\ Start(i).item = i  BY StartTask
<1>2. Start(i).node = 0  BY DEF Start, Idle
<1>3. Idle.phase = "idle"  BY DEF Idle
<1> QED  BY <1>1, <1>2, <1>3 DEF Shape

\* The objects stay as they are: what remains to show of the book-keeping.
LEMMA KeepBook ==
    ASSUME Book, UNCHANGED <<gen, api>>, SetupExists', AllTimely',
           \A r \in Requests : applied'[r] <= gen[r],
           \A p \in Procs : Shape(task'[p])
    PROVE  Book'
<1>1. Versions'  BY DEF Book, Versions
<1>2. \A p \in Procs : Shape(task[p])'  BY DEF Shape
<1> QED  BY <1>1, <1>2 DEF Book

\* A statement of either goroutine.
LEMMA StatementStep ==
    ASSUME TypeInv, RInv, NEW p \in Procs, Statement(p)
    PROVE  RInv'
<1>1. PICK t : t = task[p]  OBVIOUS
<1>2. t \in Tasks /\ t.phase # "idle" /\ t.item \in Items
  BY <1>1, StatementBusy, TaskType
<1>3. Book  BY DEF RInv
<1>4. PICK u \in Tasks : Step(p, u) /\ Effect(t, u)
  BY <1>1, <1>2, <1>3, StatementEffect
<1>5. /\ task' = [task EXCEPT ![p] = u] /\ excuse' = Overtaken(p)
      /\ UNCHANGED <<gen, api, watch, queue, delayed, notify, replay, applied>>
  BY <1>4 DEF Step, api_vars, inf_vars
<1>6. task'[p] = u /\ \A q \in Procs : q # p => task'[q] = task[q]
  BY <1>5 DEF TypeInv, TypeOK
<1>7. u.item = t.item /\ u.phase # "idle" /\ Shape(u) /\ SetupExists'
  BY <1>4 DEF Effect
<1>8. Held' = Held /\ \A r \in Requests : Watched(r)' = Watched(r)
  BY <1>5 DEF Held, Watched, SeqRange
<1>9. AllTimely'
  <2>1. AllTimely  BY <1>3 DEF Book
  <2>2. \A q \in Procs : /\ Running(q)' => Running(q)
                         /\ task'[q].item = task[q].item
    BY <1>1, <1>2, <1>6, <1>7 DEF Running
  <2>3. /\ \A r \in Requests : \A i \in Watched(r)' : i.req = r /\ Timely(i)
        /\ \A i \in Held' : Timely(i)
        /\ \A i \in replay' : Timely(i) /\ i.action = "ADD"
    BY <1>5, <1>8, <2>1 DEF AllTimely
  <2>4. /\ \A q \in Procs : Running(q)' => Timely(task'[q].item)
        /\ Running("recreate")' => task'["recreate"].item.action = "ADD"
    BY <2>1, <2>2 DEF AllTimely
  <2> QED  BY <1>5, <2>1, <2>3, <2>4, KeepTimely
<1>10. Book'
  <2>1. \A q \in Procs : Shape(task'[q])  BY <1>3, <1>6, <1>7 DEF Book
  <2>2. \A r \in Requests : applied'[r] <= gen[r]  BY <1>3, <1>5 DEF Book, Versions
  <2> QED  BY <1>3, <1>5, <1>7, <1>9, <2>1, <2>2, KeepBook
<1>11. ASSUME NEW r \in Requests  PROVE Settled(r)'
  <2>1. CASE r = t.item.req  BY <1>1, <1>2, <1>4, <2>1, StatementSettled
  <2>2. CASE r # t.item.req
    <3>1. SamePg(r)  BY <1>4, <2>2 DEF Effect
    <3>2. Settled(r)  BY DEF RInv
    <3>3. excuse[r] \subseteq excuse'[r]  BY <1>5 DEF Overtaken, TypeInv, TypeOK
    <3>4. Waiting(r) => Waiting(r)'  BY <1>5, <1>8 DEF Waiting, Newest
    <3>5. \A q \in Procs : RunsOn(q, r) \/ RunsOn(q, r)' => task'[q] = task[q]
      BY <1>1, <1>6, <1>7, <2>2 DEF RunsOn
    <3> QED  BY <1>5, <3>1, <3>2, <3>3, <3>4, <3>5, Bystander
  <2> QED  BY <2>1, <2>2
<1> QED  BY <1>10, <1>11 DEF RInv

\* The event handler moves an event to the queue.
LEMMA HandleEventStep ==
    ASSUME TypeInv, RInv, NEW q \in Requests, HandleEvent(q)
    PROVE  RInv'
<1>1. PICK e : e = Head(watch[q])  OBVIOUS
<1>2. /\ watch[q] # <<>> /\ queue' = Append(queue, e)
      /\ watch' = [watch EXCEPT ![q] = Tail(@)]
      /\ UNCHANGED <<gen, api, delayed, task, notify, replay, applied, excuse>>
      /\ UNCHANGED pg_vars
  BY <1>1 DEF HandleEvent, api_vars, hist_vars
<1>3. watch \in [Requests -> Seq(Items)] /\ queue \in Seq(Items) /\ watch[q] \in Seq(Items)
  BY DEF TypeInv, TypeOK
<1>4. /\ e \in Items /\ e \in Watched(q) /\ Watched(q) = SeqRange(Tail(watch[q])) \cup {e}
  <2>1. Head(watch[q]) \in Items  BY <1>2, <1>3
  <2> QED  BY <1>1, <1>2, <1>3, <2>1, RangeOf DEF Watched
<1>5. Watched(q)' \cup {e} = Watched(q) /\ \A r \in Requests : r # q => Watched(r)' = Watched(r)
  BY <1>2, <1>3, <1>4 DEF Watched
<1>6. Held' = Held \cup {e}
  <2>1. SeqRange(queue') = SeqRange(queue) \cup {e}  BY <1>2, <1>3, <1>4, RangeOf
  <2>2. SeqRange(delayed') = SeqRange(delayed)  BY <1>2
  <2>3. Held' = SeqRange(queue') \cup SeqRange(delayed')  BY DEF Held, SeqRange
  <2> QED  BY <2>1, <2>2, <2>3 DEF Held
<1>7. AllTimely'
  <2>1. AllTimely  BY DEF RInv, Book
  <2>2. \A r \in Requests : \A i \in Watched(r)' : i.req = r /\ Timely(i)
    BY <1>5, <2>1 DEF AllTimely
  <2>3. \A i \in Held' : Timely(i)  BY <1>4, <1>6, <2>1 DEF AllTimely
  <2>4. /\ \A i \in replay' : Timely(i) /\ i.action = "ADD"
        /\ \A p \in Procs : Running(p)' => Timely(task'[p].item)
        /\ Running("recreate")' => task'["recreate"].item.action = "ADD"
    BY <1>2, <2>1 DEF AllTimely, Running
  <2> QED  BY <1>2, <2>1, <2>2, <2>3, <2>4, KeepTimely
<1>8. Book'
  <2>1. /\ \A p \in Procs : Shape(task'[p])
        /\ \A r \in Requests : applied'[r] <= gen[r]
    BY <1>2 DEF RInv, Book, Versions
  <2>2. SetupExists'  BY <1>2, SameCluster DEF RInv, Book
  <2> QED  BY <1>2, <1>7, <2>1, <2>2, KeepBook DEF RInv
<1>9. ASSUME NEW r \in Requests  PROVE Settled(r)'
  <2>1. Waiting(r) => Waiting(r)'  BY <1>2, <1>5, <1>6 DEF Waiting, Newest
  <2>2. Settled(r) /\ SamePg(r)  BY <1>2, SameCluster DEF RInv
  <2> QED  BY <1>2, <2>1, <2>2, Bystander
<1> QED  BY <1>8, <1>9 DEF RInv

\* The delay is over.
LEMMA RequeueStep ==
    ASSUME TypeInv, RInv, Requeue
    PROVE  RInv'
<1>1. PICK e : e = Head(delayed)  OBVIOUS
<1>2. /\ delayed # <<>> /\ queue' = Append(queue, e) /\ delayed' = Tail(delayed)
      /\ UNCHANGED <<gen, api, watch, task, notify, replay, applied, excuse>>
      /\ UNCHANGED pg_vars
  BY <1>1 DEF Requeue, api_vars, inf_vars, hist_vars
<1>3. delayed \in Seq(Items) /\ queue \in Seq(Items)  BY DEF TypeInv, TypeOK
<1>4. /\ e \in Items /\ SeqRange(delayed) = SeqRange(delayed') \cup {e}
  <2>1. Head(delayed) \in Items  BY <1>2, <1>3
  <2> QED  BY <1>1, <1>2, <1>3, <2>1, RangeOf
<1>5. SeqRange(queue') = SeqRange(queue) \cup {e}  BY <1>2, <1>3, <1>4, RangeOf
<1>6. Held' = Held
  <2>1. Held' = SeqRange(queue') \cup SeqRange(delayed')  BY DEF Held, SeqRange
  <2> QED  BY <1>4, <1>5, <2>1 DEF Held
<1>7. \A r \in Requests : Watched(r)' = Watched(r)  BY <1>2 DEF Watched, SeqRange
<1>8. AllTimely'
  <2>1. AllTimely  BY DEF RInv, Book
  <2>2. /\ \A r \in Requests : \A i \in Watched(r)' : i.req = r /\ Timely(i)
        /\ \A i \in Held' : Timely(i)
    BY <1>6, <1>7, <2>1 DEF AllTimely
  <2>3. /\ \A i \in replay' : Timely(i) /\ i.action = "ADD"
        /\ \A p \in Procs : Running(p)' => Timely(task'[p].item)
        /\ Running("recreate")' => task'["recreate"].item.action = "ADD"
    BY <1>2, <2>1 DEF AllTimely, Running
  <2> QED  BY <1>2, <2>1, <2>2, <2>3, KeepTimely
<1>9. Book'
  <2>1. /\ \A p \in Procs : Shape(task'[p])
        /\ \A r \in Requests : applied'[r] <= gen[r]
    BY <1>2 DEF RInv, Book, Versions
  <2>2. SetupExists'  BY <1>2, SameCluster DEF RInv, Book
  <2> QED  BY <1>2, <1>8, <2>1, <2>2, KeepBook DEF RInv
<1>10. ASSUME NEW r \in Requests  PROVE Settled(r)'
  <2>1. Waiting(r) => Waiting(r)'  BY <1>2, <1>6, <1>7 DEF Waiting, Newest
  <2>2. Settled(r) /\ SamePg(r)  BY <1>2, SameCluster DEF RInv
  <2> QED  BY <1>2, <2>1, <2>2, Bystander
<1> QED  BY <1>9, <1>10 DEF RInv

\* The worker takes the head of the queue: the newest version, or one that has
\* been overtaken, which is noted.
LEMMA GetStep ==
    ASSUME TypeInv, RInv, Get
    PROVE  RInv'
<1>1. PICK e : e = Head(queue)  OBVIOUS
<1>2. /\ ~Running("worker") /\ queue # <<>> /\ queue' = Tail(queue)
      /\ task' = [task EXCEPT !["worker"] = Start(e)]
      /\ excuse' = [excuse EXCEPT ![e.req] = IF Stale(e) THEN @ \cup {"overtaken"} ELSE @]
      /\ UNCHANGED <<gen, api, watch, delayed, notify, replay, applied>>
      /\ UNCHANGED pg_vars
  BY <1>1 DEF Get, api_vars, inf_vars
<1>3. delayed \in Seq(Items) /\ queue \in Seq(Items)  BY DEF TypeInv, TypeOK
<1>4. /\ e \in Items /\ e \in SeqRange(queue) /\ SeqRange(queue) = SeqRange(queue') \cup {e}
  <2>1. Head(queue) \in Items  BY <1>2, <1>3
  <2> QED  BY <1>1, <1>2, <1>3, <2>1, RangeOf
<1>5. Held = Held' \cup {e}
  <2>1. Held' = SeqRange(queue') \cup SeqRange(delayed)  BY <1>2 DEF Held, SeqRange
  <2> QED  BY <1>4, <2>1 DEF Held
<1>6. \A r \in Requests : Watched(r)' = Watched(r)  BY <1>2 DEF Watched, SeqRange
<1>7. /\ task'["worker"] = Start(e) /\ task'["recreate"] = task["recreate"]
      /\ Start(e).phase = "handler" /\ Start(e).item = e /\ Shape(Start(e))
  BY <1>2, <1>4, StartFields DEF TypeInv, TypeOK
<1>8. /\ e.req \in Requests /\ e.ver \in Nat /\ Timely(e)
  BY <1>4, <1>5 DEF Items, RInv, Book, AllTimely
<1>9. /\ excuse'[e.req] = IF Stale(e) THEN excuse[e.req] \cup {"overtaken"} ELSE excuse[e.req]
      /\ \A r \in Requests : r # e.req => excuse'[r] = excuse[r]
  BY <1>2, <1>8 DEF TypeInv, TypeOK
<1>10. AllTimely'
  <2>1. AllTimely  BY DEF RInv, Book
  <2>2. /\ \A r \in Requests : \A i \in Watched(r)' : i.req = r /\ Timely(i)
        /\ \A i \in Held' : Timely(i)
    BY <1>5, <1>6, <2>1 DEF AllTimely
  <2>3. /\ \A i \in replay' : Timely(i) /\ i.action = "ADD"
        /\ Running("recreate")' => task'["recreate"].item.action = "ADD"
    BY <1>2, <1>7, <2>1 DEF AllTimely, Running
  <2>4. \A p \in Procs : Running(p)' => Timely(task'[p].item)
    BY <1>7, <1>8, <2>1 DEF AllTimely, Running
  <2> QED  BY <1>2, <2>1, <2>2, <2>3, <2>4, KeepTimely
<1>11. Book'
  <2>1. /\ \A p \in Procs : Shape(task'[p])
        /\ \A r \in Requests : applied'[r] <= gen[r]
    BY <1>2, <1>7 DEF RInv, Book, Versions
  <2>2. SetupExists'  BY <1>2, SameCluster DEF RInv, Book
  <2> QED  BY <1>2, <1>10, <2>1, <2>2, KeepBook DEF RInv
<1>12. ASSUME NEW r \in Requests, r # e.req  PROVE Settled(r)'
  <2>1. Waiting(r) => Waiting(r)'
    BY <1>2, <1>5, <1>6, <1>12 DEF Waiting, Newest
  <2>2. Settled(r) /\ SamePg(r)  BY <1>2, SameCluster DEF RInv
  <2>3. \A p \in Procs : RunsOn(p, r) \/ RunsOn(p, r)' => task'[p] = task[p]
    BY <1>2, <1>7, <1>12 DEF RunsOn
  <2> QED  BY <1>2, <1>9, <1>12, <2>1, <2>2, <2>3, Bystander
<1>13. ASSUME NEW r \in Requests, r = e.req  PROVE Settled(r)'
  <2>1. r = e.req  BY <1>13
  <2>2. Settled(r) /\ applied[r] \in Nat /\ gen[r] \in Nat
    BY BoundAssumption DEF RInv, TypeInv, TypeOK
  <2>3. InOrder(r)'
    BY <1>2, <1>7, <1>8, <1>9, <2>1, <2>2 DEF InOrder, Stale
  <2>4. /\ excuse[r] \subseteq excuse'[r] /\ gen'[r] = gen[r] /\ api'[r] = api[r]
        /\ applied'[r] = applied[r]
    BY <1>2, <1>9, <2>1
  <2>5. Removed(r)'
    <3>1. DProgress(task["worker"])'  BY <1>7 DEF DProgress
    <3>2. \A n \in Nodes : Clean(n, r)' <=> Clean(n, r)  BY <1>2 DEF pg_vars, Clean
    <3> QED  BY <2>2, <2>4, <3>1, <3>2 DEF Settled, Removed
  <2>6. CASE Waiting(r)'  BY <2>3, <2>5, <2>6, StillWaiting
  <2>7. CASE Newest(e, r)
    <3>1. At("worker", r)'  BY <1>7, <2>4, <2>7 DEF At, Running, Newest
    <3>2. Progress(task["worker"])'  BY <1>7 DEF Progress
    <3> QED  BY <2>3, <2>5, <3>1, <3>2 DEF Settled, NotForgotten, Provided
  <2>8. CASE ~Waiting(r)' /\ ~Newest(e, r)
    <3>1. ~Waiting(r) /\ ~At("worker", r)
      BY <1>2, <1>5, <1>6, <2>4, <2>8 DEF Waiting, Newest, At
    <3>2. applied[r] = gen[r] \/ (api[r] = Absent /\ "lost" \in excuse[r])
      BY <2>2, <3>1 DEF Settled, NotForgotten
    <3>3. NotForgotten(r)'  BY <2>4, <3>2 DEF NotForgotten
    <3>4. applied[r] = gen[r] => "overtaken" \in excuse'[r]
      BY <1>8, <1>9, <2>1, <2>2, <2>8 DEF Stale, Timely, Newest
    <3>5. Provided(r)'  BY <2>4, <3>2, <3>4 DEF Provided
    <3> QED  BY <2>3, <2>5, <3>3, <3>5 DEF Settled
  <2> QED  BY <2>6, <2>7, <2>8
<1> QED  BY <1>11, <1>12, <1>13 DEF RInv

\* What a task has achieved when handler() returns.
LEMMA DoneServes ==
    ASSUME TypeInv, Book, NEW p \in Procs, NEW r \in Requests, At(p, r), api[r] # Absent,
           task[p].phase = "done", Progress(task[p])
    PROVE  Serves(r, api[r])
<1>1. PICK t : t = task[p]  OBVIOUS
<1>2. t.item.req = r /\ t.item.ver = gen[r] /\ t.phase = "done"  BY <1>1 DEF At, Newest
<1>3. Timely(t.item)  BY <1>1 DEF Book, AllTimely, At
<1>4. PICK o : o = api[r]  OBVIOUS
<1>5. t.item.dbs = o.dbs /\ t.item.ver = o.ver
  BY <1>2, <1>3, <1>4 DEF Timely, Book, Versions
<1>6. /\ \A m \in Nodes : HasNode(m, t.item)
      /\ \A m \in Nodes \ {0} : Listed(t.item, m, {})
  BY <1>1, <1>2 DEF Progress
<1>7. \A n \in Nodes : role[n][r] = o.ver /\ Wanted(o, n) \subseteq setup[n][r]
  BY <1>2, <1>5, <1>6 DEF HasNode, Wanted
<1>8. \A d \in o.dbs \cap Dist, n \in Nodes \ {0} : <<d, n>> \in workers[r]
  BY <1>2, <1>5, <1>6 DEF Listed
<1> QED  BY <1>4, <1>7, <1>8 DEF Serves

\* The worker completes an item.
LEMMA ForgetStep ==
    ASSUME TypeInv, RInv, Forget
    PROVE  RInv'
<1>1. PICK t : t = task["worker"]  OBVIOUS
<1>2. PICK q : q = t.item.req  OBVIOUS
<1>3. /\ t.phase = "done" /\ task' = [task EXCEPT !["worker"] = Idle]
      /\ applied' = [applied EXCEPT ![q] = IF t.item.ver > @ THEN t.item.ver ELSE @]
      /\ UNCHANGED <<gen, api, watch, queue, delayed, notify, replay, excuse>>
      /\ UNCHANGED pg_vars
  BY <1>1, <1>2 DEF Forget, api_vars, inf_vars
<1>4. /\ t \in Tasks /\ t.item \in Items /\ q \in Requests /\ t.item.ver \in Nat
      /\ Running("worker")
  BY <1>1, <1>2, <1>3, TaskType DEF Running
<1>5. /\ Idle.phase = "idle" /\ Shape(Idle)  BY <1>4, StartFields
<1>6. /\ task'["worker"] = Idle /\ task'["recreate"] = task["recreate"]
      /\ ~Running("worker")'
  BY <1>3, <1>5 DEF TypeInv, TypeOK, Running
<1>7. /\ applied'[q] = IF t.item.ver > applied[q] THEN t.item.ver ELSE applied[q]
      /\ \A r \in Requests : r # q => applied'[r] = applied[r]
  BY <1>3, <1>4 DEF TypeInv, TypeOK
<1>8. Timely(t.item) /\ Book /\ AllTimely
  BY <1>1, <1>4 DEF RInv, Book, AllTimely
<1>9. \A r \in Requests : applied[r] \in Nat /\ gen[r] \in Nat /\ applied[r] <= gen[r]
  BY <1>8, BoundAssumption DEF TypeInv, TypeOK, Book, Versions
<1>10. t.item.ver <= gen[q]  BY <1>2, <1>8 DEF Timely
<1>11. Held' = Held /\ \A r \in Requests : Watched(r)' = Watched(r)
  BY <1>3 DEF Held, Watched, SeqRange
<1>12. Book'
  <2>1. /\ \A r \in Requests : \A i \in Watched(r)' : i.req = r /\ Timely(i)
        /\ \A i \in Held' : Timely(i)
        /\ \A i \in replay' : Timely(i) /\ i.action = "ADD"
    BY <1>3, <1>8, <1>11 DEF AllTimely
  <2>2. /\ \A p \in Procs : Running(p)' => Timely(task'[p].item)
        /\ Running("recreate")' => task'["recreate"].item.action = "ADD"
    BY <1>6, <1>8 DEF AllTimely, Running
  <2>3. AllTimely'  BY <1>3, <1>8, <2>1, <2>2, KeepTimely
  <2>4. \A p \in Procs : Shape(task'[p])  BY <1>5, <1>6, <1>8 DEF Book
  <2>5. \A r \in Requests : applied'[r] <= gen[r]  BY <1>7, <1>9, <1>10
  <2>6. SetupExists'  BY <1>3, <1>8, SameCluster DEF Book
  <2> QED  BY <1>3, <1>8, <2>3, <2>4, <2>5, <2>6, KeepBook
<1>13. ASSUME NEW r \in Requests, r # q  PROVE Settled(r)'
  <2>1. Waiting(r) => Waiting(r)'  BY <1>3, <1>11 DEF Waiting, Newest
  <2>2. Settled(r) /\ SamePg(r)  BY <1>3, SameCluster DEF RInv
  <2>3. \A p \in Procs : RunsOn(p, r) \/ RunsOn(p, r)' => task'[p] = task[p]
    BY <1>1, <1>2, <1>6, <1>13 DEF RunsOn
  <2> QED  BY <1>3, <1>7, <1>13, <2>1, <2>2, <2>3, Bystander
<1>14. ASSUME NEW r \in Requests, r = q  PROVE Settled(r)'
  <2>1. Settled(r)  BY DEF RInv
  <2>2. InOrder(r)'  BY <1>6 DEF InOrder, RunsOn
  <2>3. Waiting(r)' <=> Waiting(r)  BY <1>3, <1>11 DEF Waiting, Newest
  <2>4. At("worker", r) <=> t.item.ver = gen[r]
    BY <1>1, <1>2, <1>4, <1>14 DEF At, Newest
  <2>5. applied'[r] = gen[r] <=> applied[r] = gen[r] \/ t.item.ver = gen[r]
    BY <1>4, <1>7, <1>9, <1>10, <1>14
  <2>6. NotForgotten(r)'  BY <1>3, <2>1, <2>3, <2>4, <2>5 DEF Settled, NotForgotten
  <2>7. Provided(r)'
    <3> SUFFICES ASSUME api[r] # Absent, excuse[r] \cap {"overtaken", "swallowed"} = {},
                        ~Waiting(r)
                 PROVE  (\/ notify = "due" \/ \E i \in replay : Newest(i, r)
                         \/ \E p \in Procs : At(p, r) /\ Progress(task[p])
                         \/ Serves(r, api[r]))'
      BY <1>3, <2>3 DEF Provided
    <3>1. \/ notify = "due" \/ \E i \in replay : Newest(i, r)
          \/ \E p \in Procs : At(p, r) /\ Progress(task[p])
          \/ Serves(r, api[r])
      BY <2>1 DEF Settled, Provided
    <3>2. CASE \E i \in replay : Newest(i, r)  BY <1>3, <3>2 DEF Newest
    <3>3. CASE At("recreate", r) /\ Progress(task["recreate"])
      <4>1. At("recreate", r)'  BY <1>3, <1>6, <3>3 DEF At, Running, Newest
      <4>2. Progress(task["recreate"])'
        BY <1>3, <1>6, <3>3 DEF Progress, HasNode, Listed, pg_vars
      <4> QED  BY <4>1, <4>2
    <3>4. CASE At("worker", r) /\ Progress(task["worker"])
      <4>1. Serves(r, api[r])  BY <1>1, <1>3, <1>8, <3>4, DoneServes
      <4> QED  BY <1>3, <4>1 DEF Serves, pg_vars
    <3>5. CASE Serves(r, api[r])  BY <1>3, <3>5 DEF Serves, pg_vars
    <3> QED  BY <1>3, <3>1, <3>2, <3>3, <3>4, <3>5
  <2>8. Removed(r)'
    <3> SUFFICES ASSUME api[r] = Absent, excuse[r] \cap {"overtaken", "lost"} = {},
                        applied'[r] = gen[r], NEW n \in Nodes
                 PROVE  Clean(n, r)'
      BY <1>3, <1>6 DEF Removed, At
    <3>1. Clean(n, r)
      <4>1. CASE applied[r] = gen[r]  BY <2>1, <4>1 DEF Settled, Removed
      <4>2. CASE At("worker", r)
        <5>1. DProgress(t)  BY <1>1, <2>1, <4>2 DEF Settled, Removed
        <5> QED  BY <1>2, <1>3, <1>14, <5>1 DEF DProgress
      <4> QED  BY <2>4, <2>5, <4>1, <4>2
    <3> QED  BY <1>3, <3>1 DEF Clean, pg_vars
  <2> QED  BY <2>2, <2>6, <2>7, <2>8 DEF Settled
<1> QED  BY <1>12, <1>13, <1>14 DEF RInv

\* The worker's item fails: it waits again, or the deletion starts anew.
LEMMA WorkerErrorStep ==
    ASSUME TypeInv, RInv, WorkerError
    PROVE  RInv'
<1>1. PICK i : i = task["worker"].item  OBVIOUS
<1>2. /\ task["worker"].phase # "idle" /\ Running("worker")
      /\ task' = [task EXCEPT !["worker"] = AfterError(i)]
      /\ delayed' = IF i.action # "DELETE" THEN Append(delayed, i) ELSE delayed
      /\ UNCHANGED <<gen, api, watch, queue, notify, replay, applied, excuse>>
      /\ UNCHANGED pg_vars
  BY <1>1 DEF WorkerError, Failing, Running, api_vars, inf_vars, hist_vars
<1>3. i \in Items /\ i.req \in Requests /\ i.ver \in Nat /\ delayed \in Seq(Items)
  BY <1>1, <1>2, TaskType DEF TypeInv, TypeOK
<1>4. /\ task'["worker"] = (IF i.action # "DELETE" THEN Idle ELSE Start(i))
      /\ task'["recreate"] = task["recreate"]
      /\ Idle.phase = "idle" /\ Shape(Idle)
      /\ Start(i).phase = "handler" /\ Start(i).item = i /\ Shape(Start(i))
  BY <1>2, <1>3, StartFields DEF TypeInv, TypeOK, AfterError
<1>5. Held' = IF i.action # "DELETE" THEN Held \cup {i} ELSE Held
  <2>1. Held' = SeqRange(queue) \cup SeqRange(delayed')  BY <1>2 DEF Held, SeqRange
  <2>2. SeqRange(Append(delayed, i)) = SeqRange(delayed) \cup {i}  BY <1>3, RangeOf
  <2>3. CASE i.action # "DELETE"  BY <1>2, <2>1, <2>2, <2>3 DEF Held
  <2>4. CASE i.action = "DELETE"  BY <1>2, <2>1, <2>4 DEF Held
  <2> QED  BY <2>3, <2>4
<1>6. \A r \in Requests : Watched(r)' = Watched(r)  BY <1>2 DEF Watched, SeqRange
<1>7. Timely(i) /\ Book /\ AllTimely  BY <1>1, <1>2 DEF RInv, Book, AllTimely
<1>8. Book'
  <2>1. /\ \A r \in Requests : \A j \in Watched(r)' : j.req = r /\ Timely(j)
        /\ \A j \in Held' : Timely(j)
        /\ \A j \in replay' : Timely(j) /\ j.action = "ADD"
    BY <1>2, <1>5, <1>6, <1>7 DEF AllTimely
  <2>2. /\ \A p \in Procs : Running(p)' => Timely(task'[p].item)
        /\ Running("recreate")' => task'["recreate"].item.action = "ADD"
    BY <1>4, <1>7 DEF AllTimely, Running
  <2>3. AllTimely'  BY <1>2, <1>7, <2>1, <2>2, KeepTimely
  <2>4. \A p \in Procs : Shape(task'[p])  BY <1>4, <1>7 DEF Book
  <2>5. \A r \in Requests : applied'[r] <= gen[r]  BY <1>2, <1>7 DEF Book, Versions
  <2>6. SetupExists'  BY <1>2, <1>7, SameCluster DEF Book
  <2> QED  BY <1>2, <1>7, <2>3, <2>4, <2>5, <2>6, KeepBook
<1>9. \A r \in Requests : Waiting(r) => Waiting(r)'
  BY <1>2, <1>5, <1>6 DEF Waiting, Newest
<1>10. ASSUME NEW r \in Requests, r # i.req  PROVE Settled(r)'
  <2>1. Settled(r) /\ SamePg(r)  BY <1>2, SameCluster DEF RInv
  <2>2. \A p \in Procs : RunsOn(p, r) \/ RunsOn(p, r)' => task'[p] = task[p]
    BY <1>1, <1>4, <1>10 DEF RunsOn, Running
  <2> QED  BY <1>2, <1>9, <1>10, <2>1, <2>2, Bystander
<1>11. ASSUME NEW r \in Requests, r = i.req  PROVE Settled(r)'
  <2>1. Settled(r) /\ gen[r] \in Nat /\ applied[r] \in Nat /\ applied[r] <= gen[r]
    BY <1>7, BoundAssumption DEF RInv, TypeInv, TypeOK, Book, Versions
  <2>2. InOrder(r)'
    BY <1>1, <1>2, <1>4, <2>1 DEF Settled, InOrder, RunsOn, Running
  <2>3. At("worker", r) <=> i.ver = gen[r]
    BY <1>1, <1>2, <1>11 DEF At, Newest
  <2>4. Removed(r)'
    <3>1. DProgress(Start(i))'  BY <1>4 DEF DProgress
    <3>2. At("worker", r)' => DProgress(task["worker"])'
      BY <1>4, <3>1 DEF At, Running, DProgress
    <3>3. \A n \in Nodes : Clean(n, r)' <=> Clean(n, r)  BY <1>2 DEF pg_vars, Clean
    <3> QED  BY <1>2, <2>1, <3>2, <3>3 DEF Settled, Removed
  <2>5. CASE Waiting(r)'  BY <2>2, <2>4, <2>5, StillWaiting
  <2>6. CASE ~Waiting(r)' /\ i.action # "DELETE"
    <3>1. ~Waiting(r) /\ i.ver # gen[r]
      BY <1>2, <1>5, <1>9, <1>11, <2>6 DEF Waiting, Newest
    <3>2. applied[r] = gen[r] \/ (api[r] = Absent /\ "lost" \in excuse[r])
      BY <2>1, <2>3, <3>1 DEF Settled, NotForgotten
    <3>3. applied[r] = gen[r] => "overtaken" \in excuse[r]
      <4>1. RunsOn("worker", r)  BY <1>1, <1>2, <1>11 DEF RunsOn
      <4>2. "overtaken" \notin excuse[r] => i.ver >= applied[r]
        BY <1>1, <2>1, <4>1 DEF Settled, InOrder
      <4>3. i.ver <= gen[r]  BY <1>7, <1>11 DEF Timely
      <4> QED  BY <1>3, <2>1, <3>1, <4>2, <4>3
    <3>4. NotForgotten(r)' /\ Provided(r)'
      BY <1>2, <3>2, <3>3 DEF NotForgotten, Provided
    <3> QED  BY <2>2, <2>4, <3>4 DEF Settled
  <2>7. CASE ~Waiting(r)' /\ i.action = "DELETE"
    <3>1. At("worker", r)' <=> At("worker", r)
      BY <1>1, <1>2, <1>4, <2>7 DEF At, Running, Newest
    <3>2. ~Waiting(r)  BY <1>9, <2>7
    <3>3. NotForgotten(r)'  BY <1>2, <2>1, <3>1, <3>2 DEF Settled, NotForgotten
    <3>4. Provided(r)'
      <4> SUFFICES ASSUME api[r] # Absent, excuse[r] \cap {"overtaken", "swallowed"} = {}
                   PROVE  (\/ notify = "due" \/ \E j \in replay : Newest(j, r)
                           \/ \E p \in Procs : At(p, r) /\ Progress(task[p])
                           \/ Serves(r, api[r]))'
        BY <1>2 DEF Provided
      <4>1. \/ notify = "due" \/ \E j \in replay : Newest(j, r)
            \/ \E p \in Procs : At(p, r) /\ Progress(task[p])
            \/ Serves(r, api[r])
        BY <2>1, <3>2 DEF Settled, Provided
      <4>2. ~At("worker", r)  BY <1>7, <1>11, <2>3, <2>7 DEF Timely
      <4>3. CASE \E j \in replay : Newest(j, r)  BY <1>2, <4>3 DEF Newest
      <4>4. CASE At("recreate", r) /\ Progress(task["recreate"])
        <5>1. At("recreate", r)'  BY <1>2, <1>4, <4>4 DEF At, Running, Newest
        <5>2. Progress(task["recreate"])'
          BY <1>2, <1>4, <4>4 DEF Progress, HasNode, Listed, pg_vars
        <5> QED  BY <5>1, <5>2
      <4>5. CASE Serves(r, api[r])  BY <1>2, <4>5 DEF Serves, pg_vars
      <4> QED  BY <1>2, <4>1, <4>2, <4>3, <4>4, <4>5
    <3> QED  BY <2>2, <2>4, <3>3, <3>4 DEF Settled
  <2> QED  BY <2>5, <2>6, <2>7
<1> QED  BY <1>8, <1>10, <1>11 DEF RInv

\* The informer lists again: the newest version is on its way, or the deletion is
\* noted as lost.
LEMMA RelistStep ==
    ASSUME TypeInv, RInv, NEW q \in Requests, Relist(q)
    PROVE  RInv'
<1> DEFINE x == Item(IF known[q] = Absent THEN "ADD" ELSE "UPDATE", q, api[q], api[q].ver, FALSE)
           y == Item("DELETE", q, known[q], gen[q], TRUE)
<1>1. /\ watch' = [watch EXCEPT ![q] = IF api[q] # Absent THEN <<x>>
                                       ELSE IF known[q] # Absent THEN <<y>> ELSE <<>>]
      /\ excuse' = [excuse EXCEPT ![q] =
                      IF known[q] = Absent /\ (api[q] = Absent \/ crashes > 0)
                        THEN @ \cup {"lost"} ELSE @]
      /\ UNCHANGED <<gen, api, queue, delayed, task, notify, replay, applied>>
      /\ UNCHANGED pg_vars
  BY DEF Relist, api_vars
<1>2. /\ Watched(q)' = IF api[q] # Absent THEN {x} ELSE IF known[q] # Absent THEN {y} ELSE {}
      /\ \A r \in Requests : r # q => Watched(r)' = Watched(r)
  <2>1. /\ watch'[q] = IF api[q] # Absent THEN <<x>> ELSE IF known[q] # Absent THEN <<y>> ELSE <<>>
        /\ \A r \in Requests : r # q => watch'[r] = watch[r]
    BY <1>1 DEF TypeInv, TypeOK
  <2>2. \A r \in Requests : Watched(r)' = SeqRange(watch'[r])  BY DEF Watched, SeqRange
  <2>3. SeqRange(<<x>>) = {x} /\ SeqRange(<<y>>) = {y} /\ SeqRange(<<>>) = {}  BY RangeShort
  <2> HIDE DEF x, y
  <2>4. CASE api[q] # Absent  BY <2>1, <2>2, <2>3, <2>4 DEF Watched
  <2>5. CASE api[q] = Absent /\ known[q] # Absent  BY <2>1, <2>2, <2>3, <2>5 DEF Watched
  <2>6. CASE api[q] = Absent /\ known[q] = Absent  BY <2>1, <2>2, <2>3, <2>6 DEF Watched
  <2> QED  BY <2>4, <2>5, <2>6
<1>3. /\ x.req = q /\ x.ver = api[q].ver /\ x.dbs = api[q].dbs /\ x.action # "DELETE"
      /\ y.req = q /\ y.ver = gen[q] /\ y.action = "DELETE"
  BY DEF Item
<1>4. Book /\ AllTimely /\ gen[q] \in Nat  BY BoundAssumption DEF RInv, Book, TypeInv, TypeOK
<1>5. api[q] # Absent => x.ver = gen[q]  BY <1>3, <1>4 DEF Book, Versions
<1> HIDE DEF x, y
<1>6. PICK X, Y : X = x /\ Y = y  OBVIOUS
<1>7. /\ Watched(q)' = IF api[q] # Absent THEN {X} ELSE IF known[q] # Absent THEN {Y} ELSE {}
      /\ api[q] # Absent => X.req = q /\ X.ver = gen[q] /\ Timely(X)
      /\ Y.req = q /\ Y.ver = gen[q] /\ (api[q] = Absent => Timely(Y))
  BY <1>2, <1>3, <1>4, <1>5, <1>6 DEF Timely
<1>8. Held' = Held  BY <1>1 DEF Held, SeqRange
<1>9. Book'
  <2>1. \A r \in Requests : \A i \in Watched(r)' : i.req = r /\ Timely(i)
    <3> SUFFICES ASSUME NEW r \in Requests, NEW i \in Watched(r)'
                 PROVE  i.req = r /\ Timely(i)
      OBVIOUS
    <3>1. CASE r # q  BY <1>2, <1>4, <3>1 DEF AllTimely
    <3>2. CASE r = q  BY <1>7, <3>2
    <3> QED  BY <3>1, <3>2
  <2>2. /\ \A i \in Held' : Timely(i)
        /\ \A i \in replay' : Timely(i) /\ i.action = "ADD"
        /\ \A p \in Procs : Running(p)' => Timely(task'[p].item)
        /\ Running("recreate")' => task'["recreate"].item.action = "ADD"
    BY <1>1, <1>4, <1>8 DEF AllTimely, Running
  <2>3. AllTimely'  BY <1>1, <1>4, <2>1, <2>2, KeepTimely
  <2>4. /\ \A p \in Procs : Shape(task'[p])
        /\ \A r \in Requests : applied'[r] <= gen[r]
    BY <1>1, <1>4 DEF Book, Versions
  <2>5. SetupExists'  BY <1>1, <1>4, SameCluster DEF Book
  <2> QED  BY <1>1, <1>4, <2>3, <2>4, <2>5, KeepBook
<1>10. \A r \in Requests : r # q => excuse'[r] = excuse[r]
  BY <1>1 DEF TypeInv, TypeOK
<1>11. excuse'[q] = IF known[q] = Absent /\ (api[q] = Absent \/ crashes > 0)
                      THEN excuse[q] \cup {"lost"} ELSE excuse[q]
  BY <1>1 DEF TypeInv, TypeOK
<1>12. ASSUME NEW r \in Requests, r # q  PROVE Settled(r)'
  <2>1. Waiting(r) => Waiting(r)'  BY <1>1, <1>2, <1>8, <1>12 DEF Waiting, Newest
  <2>2. Settled(r) /\ SamePg(r)  BY <1>1, SameCluster DEF RInv
  <2> QED  BY <1>1, <1>10, <1>12, <2>1, <2>2, Bystander
<1>13. Settled(q)'
  <2>1. Settled(q)  BY DEF RInv
  <2>2. InOrder(q)'  BY <1>1, <1>11, <2>1 DEF Settled, InOrder, RunsOn, Running
  <2>3. Removed(q)'
    <3>1. At("worker", q)' <=> At("worker", q)  BY <1>1 DEF At, Running, Newest
    <3>2. DProgress(task["worker"])' <=> DProgress(task["worker"])
      BY <1>1 DEF DProgress, Clean, pg_vars
    <3>3. \A n \in Nodes : Clean(n, q)' <=> Clean(n, q)  BY <1>1 DEF pg_vars, Clean
    <3> QED  BY <1>1, <1>11, <2>1, <3>1, <3>2, <3>3 DEF Settled, Removed
  <2>4. CASE api[q] # Absent \/ known[q] # Absent
    <3>1. Waiting(q)'  BY <1>1, <1>7, <2>4 DEF Waiting, Newest
    <3> QED  BY <2>2, <2>3, <3>1, StillWaiting
  <2>5. CASE api[q] = Absent /\ known[q] = Absent
    <3>1. "lost" \in excuse'[q]  BY <1>11, <2>5
    <3>2. NotForgotten(q)' /\ Provided(q)'
      BY <1>1, <2>5, <3>1 DEF NotForgotten, Provided
    <3> QED  BY <2>2, <2>3, <3>2 DEF Settled
  <2> QED  BY <2>4, <2>5
<1> QED  BY <1>9, <1>12, <1>13 DEF RInv

\* The operator restarts: an existing request is delivered again, and a deletion
\* that was not carried out is noted as lost.
LEMMA RestartStep ==
    ASSUME TypeInv, RInv, Restart
    PROVE  RInv'
<1>1. /\ watch' = [r \in Requests |->
                     IF api[r] = Absent THEN <<>>
                     ELSE <<Item("ADD", r, api[r], api[r].ver, FALSE)>>]
      /\ queue' = <<>> /\ delayed' = <<>> /\ task' = [p \in Procs |-> Idle]
      /\ replay' = {}
      /\ excuse' = [r \in Requests |->
                      IF applied[r] < gen[r] THEN excuse[r] \cup {"lost"} ELSE excuse[r]]
      /\ UNCHANGED <<gen, api, applied>> /\ UNCHANGED pg_vars
  BY DEF Restart, api_vars
<1>2. Idle.phase = "idle" /\ Shape(Idle)
  <2>1. Idle.phase = "idle"  BY DEF Idle
  <2> QED  BY <2>1 DEF Shape
<1>3. \A p \in Procs : ~Running(p)' /\ Shape(task'[p])  BY <1>1, <1>2 DEF Running
<1>4. Held' = {}
  <2>1. Held' = SeqRange(queue') \cup SeqRange(delayed')  BY DEF Held, SeqRange
  <2> QED  BY <1>1, <2>1, RangeShort
<1>5. Book  BY DEF RInv
<1>6. ASSUME NEW r \in Requests, NEW x, x = Item("ADD", r, api[r], api[r].ver, FALSE)
      PROVE  /\ Watched(r)' = IF api[r] = Absent THEN {} ELSE {x}
             /\ api[r] # Absent => x.req = r /\ x.ver = gen[r] /\ Timely(x)
  <2>1. watch'[r] = IF api[r] = Absent THEN <<>> ELSE <<x>>  BY <1>1, <1>6
  <2>2. Watched(r)' = SeqRange(watch'[r])  BY DEF Watched, SeqRange
  <2>3. SeqRange(<<x>>) = {x} /\ SeqRange(<<>>) = {}  BY RangeShort
  <2>4. x.req = r /\ x.ver = api[r].ver /\ x.dbs = api[r].dbs /\ x.action = "ADD"
    BY <1>6 DEF Item
  <2>5. api[r] # Absent => x.ver = gen[r]  BY <1>5, <2>4 DEF Book, Versions
  <2>6. gen[r] \in Nat  BY BoundAssumption DEF TypeInv, TypeOK
  <2>7. api[r] # Absent => Timely(x)  BY <2>4, <2>5, <2>6 DEF Timely
  <2>8. CASE api[r] = Absent  BY <2>1, <2>2, <2>3, <2>8
  <2>9. CASE api[r] # Absent  BY <2>1, <2>2, <2>3, <2>4, <2>5, <2>7, <2>9
  <2> QED  BY <2>8, <2>9
<1>7. Book'
  <2>1. \A r \in Requests : \A i \in Watched(r)' : i.req = r /\ Timely(i)
    <3> SUFFICES ASSUME NEW r \in Requests, NEW i \in Watched(r)'
                 PROVE  i.req = r /\ Timely(i)
      OBVIOUS
    <3>1. PICK x : x = Item("ADD", r, api[r], api[r].ver, FALSE)  OBVIOUS
    <3>2. /\ Watched(r)' = IF api[r] = Absent THEN {} ELSE {x}
          /\ api[r] # Absent => x.req = r /\ x.ver = gen[r] /\ Timely(x)
      BY <1>6, <3>1
    <3>3. api[r] # Absent /\ i = x  BY <3>2
    <3> QED  BY <3>2, <3>3
  <2>2. AllTimely'  BY <1>1, <1>3, <1>4, <1>5, <2>1, KeepTimely DEF Book
  <2>3. \A r \in Requests : applied'[r] <= gen[r]  BY <1>1, <1>5 DEF Book, Versions
  <2>4. SetupExists'  BY <1>1, <1>5, SameCluster DEF Book
  <2> QED  BY <1>1, <1>3, <1>5, <2>2, <2>3, <2>4, KeepBook
<1>8. ASSUME NEW r \in Requests  PROVE Settled(r)'
  <2>1. Settled(r) /\ applied[r] \in Nat /\ gen[r] \in Nat /\ applied[r] <= gen[r]
    BY <1>5, BoundAssumption DEF RInv, TypeInv, TypeOK, Book, Versions
  <2>2. InOrder(r)' /\ ~At("worker", r)'  BY <1>3 DEF InOrder, RunsOn, At
  <2>3. excuse'[r] = IF applied[r] < gen[r] THEN excuse[r] \cup {"lost"} ELSE excuse[r]
    BY <1>1
  <2>4. Removed(r)'
    <3>1. \A n \in Nodes : Clean(n, r)' <=> Clean(n, r)  BY <1>1 DEF pg_vars, Clean
    <3> QED  BY <1>1, <2>1, <2>2, <2>3, <3>1 DEF Settled, Removed
  <2>5. CASE api[r] # Absent
    <3>1. PICK x : x = Item("ADD", r, api[r], api[r].ver, FALSE)  OBVIOUS
    <3>2. Waiting(r)'  BY <1>1, <1>6, <2>5, <3>1 DEF Waiting, Newest
    <3> QED  BY <2>2, <2>4, <3>2, StillWaiting
  <2>6. CASE api[r] = Absent
    <3>1. NotForgotten(r)' /\ Provided(r)'
      BY <1>1, <2>1, <2>3, <2>6 DEF NotForgotten, Provided
    <3> QED  BY <2>2, <2>4, <3>1 DEF Settled
  <2> QED  BY <2>5, <2>6
<1> QED  BY <1>7, <1>8 DEF RInv

\* The pgcluster controller's goroutine leaves the queue and the worker alone.
LEMMA Apart ==
    ASSUME Book, UNCHANGED <<gen, api, watch, queue, delayed, applied>>,
           task'["worker"] = task["worker"], SetupExists', Shape(task'["recreate"]),
           \A i \in replay' : Timely(i) /\ i.action = "ADD",
           Running("recreate")' => /\ Timely(task'["recreate"].item)
                                   /\ task'["recreate"].item.action = "ADD",
           \A r \in Requests : excuse[r] \subseteq excuse'[r]
    PROVE  /\ Book'
           /\ \A r \in Requests : /\ Waiting(r)' <=> Waiting(r)
                                  /\ Settled(r) => InOrder(r)' /\ NotForgotten(r)'
<1>1. Held' = Held /\ \A r \in Requests : Watched(r)' = Watched(r)
  BY DEF Held, Watched, SeqRange
<1>2. AllTimely'
  <2>1. AllTimely  BY DEF Book
  <2>2. /\ \A r \in Requests : \A i \in Watched(r)' : i.req = r /\ Timely(i)
        /\ \A i \in Held' : Timely(i)
    BY <1>1, <2>1 DEF AllTimely
  <2>3. \A p \in Procs : Running(p)' => Timely(task'[p].item)
    BY <2>1 DEF AllTimely, Running
  <2> QED  BY <2>1, <2>2, <2>3, KeepTimely
<1>3. Book'
  <2>1. /\ \A p \in Procs : Shape(task'[p])
        /\ \A r \in Requests : applied'[r] <= gen[r]
    BY DEF Book, Versions
  <2> QED  BY <1>2, <2>1, KeepBook
<1>4. ASSUME NEW r \in Requests
      PROVE  /\ Waiting(r)' <=> Waiting(r)
             /\ Settled(r) => InOrder(r)' /\ NotForgotten(r)'
  <2>1. Waiting(r)' <=> Waiting(r)  BY <1>1 DEF Waiting, Newest
  <2>2. At("worker", r)' <=> At("worker", r)  BY DEF At, Running, Newest
  <2>3. RunsOn("worker", r)' <=> RunsOn("worker", r)  BY DEF RunsOn, Running
  <2>4. Settled(r) => InOrder(r)'  BY <2>3 DEF Settled, InOrder
  <2>5. Settled(r) => NotForgotten(r)'  BY <2>1, <2>2 DEF Settled, NotForgotten
  <2> QED  BY <2>1, <2>4, <2>5
<1> QED  BY <1>3, <1>4

\* As long as the databases stay, what has been removed stays removed.
LEMMA StillRemoved ==
    ASSUME UNCHANGED <<gen, api, applied>>, UNCHANGED pg_vars,
           task'["worker"] = task["worker"], NEW r \in Requests, Settled(r),
           excuse[r] \subseteq excuse'[r]
    PROVE  Removed(r)'
<1>1. At("worker", r)' <=> At("worker", r)  BY DEF At, Running, Newest
<1>2. DProgress(task["worker"])' <=> DProgress(task["worker"])
  BY DEF DProgress, Clean, pg_vars
<1>3. \A n \in Nodes : Clean(n, r)' <=> Clean(n, r)  BY DEF pg_vars, Clean
<1> QED  BY <1>1, <1>2, <1>3 DEF Settled, Removed

\* The cluster is created anew: it is empty, and the replay is due.
LEMMA ClusterCreatedStep ==
    ASSUME TypeInv, RInv, ClusterCreated
    PROVE  RInv'
<1>1. /\ UNCHANGED <<gen, api, watch, queue, delayed, task, replay, applied, excuse>>
      /\ notify' = "due"
      /\ role' = [n \in Nodes |-> [r \in Requests |-> 0]]
      /\ dbs' = [n \in Nodes |-> [r \in Requests |-> {}]]
      /\ setup' = [n \in Nodes |-> [r \in Requests |-> {}]]
  BY DEF ClusterCreated, api_vars, inf_vars, hist_vars
<1>2. SetupExists'  BY <1>1 DEF SetupExists
<1>3. \A n \in Nodes, r \in Requests : Clean(n, r)'  BY <1>1 DEF Clean
<1>4. Book /\ \A r \in Requests : Settled(r)  BY DEF RInv
<1>5. /\ Shape(task'["recreate"])
      /\ \A i \in replay' : Timely(i) /\ i.action = "ADD"
      /\ Running("recreate")' => /\ Timely(task'["recreate"].item)
                                 /\ task'["recreate"].item.action = "ADD"
  BY <1>1, <1>4 DEF Book, AllTimely, Running
<1>6. /\ Book'
      /\ \A r \in Requests : InOrder(r)' /\ NotForgotten(r)'
  BY <1>1, <1>2, <1>4, <1>5, Apart
<1>7. ASSUME NEW r \in Requests  PROVE Provided(r)' /\ Removed(r)'
  <2>1. Provided(r)'  BY <1>1 DEF Provided
  <2>2. ASSUME At("worker", r)'  PROVE DProgress(task["worker"])'
    <3>1. task'["worker"].item.req = r  BY <2>2 DEF At, Newest
    <3> QED  BY <1>3, <3>1 DEF DProgress
  <2> QED  BY <1>3, <2>1, <2>2 DEF Removed
<1> QED  BY <1>6, <1>7 DEF RInv, Settled

\* PGClusterRecreated lists the requests, or the replay is noted as swallowed.
LEMMA ListRequestsStep ==
    ASSUME TypeInv, RInv, ListRequests
    PROVE  RInv'
<1> DEFINE X(r) == Item("ADD", r, api[r], api[r].ver, FALSE)
<1>1. /\ UNCHANGED <<gen, api, watch, queue, delayed, task, applied>> /\ UNCHANGED pg_vars
      /\ \/ replay' = {X(r) : r \in {q \in Requests : api[q] # Absent}} /\ UNCHANGED excuse
         \/ excuse' = [r \in Requests |-> excuse[r] \cup {"swallowed"}] /\ UNCHANGED replay
  BY DEF ListRequests, api_vars, inf_vars
<1>2. Book /\ \A r \in Requests : Settled(r)  BY DEF RInv
<1>3. SetupExists'  BY <1>1, <1>2, SameCluster DEF Book
<1>4. ASSUME NEW r \in Requests, api[r] # Absent
      PROVE  X(r).req = r /\ X(r).ver = gen[r] /\ X(r).action = "ADD" /\ Timely(X(r))
  <2>1. X(r).req = r /\ X(r).ver = api[r].ver /\ X(r).dbs = api[r].dbs /\ X(r).action = "ADD"
    BY DEF Item
  <2> HIDE DEF X
  <2>2. X(r).ver = gen[r] /\ gen[r] \in Nat
    BY <1>2, <1>4, <2>1, BoundAssumption DEF Book, Versions, TypeInv, TypeOK
  <2> QED  BY <1>4, <2>1, <2>2 DEF Timely
<1> HIDE DEF X
<1>5. /\ Shape(task'["recreate"])
      /\ \A i \in replay' : Timely(i) /\ i.action = "ADD"
      /\ Running("recreate")' => /\ Timely(task'["recreate"].item)
                                 /\ task'["recreate"].item.action = "ADD"
      /\ \A r \in Requests : excuse[r] \subseteq excuse'[r]
  BY <1>1, <1>2, <1>4 DEF Book, AllTimely, Running
<1>6. /\ Book'
      /\ \A r \in Requests : InOrder(r)' /\ NotForgotten(r)'
  BY <1>1, <1>2, <1>3, <1>5, Apart
<1>7. \A r \in Requests : Removed(r)'
  BY <1>1, <1>2, <1>5, StillRemoved
<1>8. ASSUME NEW r \in Requests  PROVE Provided(r)'
  <2>1. CASE excuse' = [q \in Requests |-> excuse[q] \cup {"swallowed"}]
    BY <2>1 DEF Provided
  <2>2. CASE replay' = {X(q) : q \in {z \in Requests : api[z] # Absent}}
    <3> SUFFICES ASSUME api[r] # Absent  PROVE \E i \in replay' : Newest(i, r)'
      BY <1>1 DEF Provided
    <3>1. X(r) \in replay'  BY <2>2
    <3>2. PICK x : x = X(r)  OBVIOUS
    <3>3. Newest(x, r)'  BY <1>1, <1>4, <3>2 DEF Newest
    <3> QED  BY <3>1, <3>2, <3>3
  <2> QED  BY <1>1, <2>1, <2>2
<1> QED  BY <1>6, <1>7, <1>8 DEF RInv, Settled

\* The replay takes up a request.
LEMMA ReplayNextStep ==
    ASSUME TypeInv, RInv, ReplayNext
    PROVE  RInv'
<1>1. PICK e \in replay : /\ task' = [task EXCEPT !["recreate"] = Start(e)]
                          /\ replay' = replay \ {e}
  BY DEF ReplayNext
<1>2. /\ ~Running("recreate")
      /\ UNCHANGED <<gen, api, watch, queue, delayed, notify, applied, excuse>>
      /\ UNCHANGED pg_vars
  BY DEF ReplayNext, api_vars, inf_vars, hist_vars
<1>3. Book /\ \A r \in Requests : Settled(r)  BY DEF RInv
<1>4. e \in Items /\ Timely(e) /\ e.action = "ADD"
  BY <1>3 DEF Book, AllTimely, TypeInv, TypeOK
<1>5. /\ task'["recreate"] = Start(e) /\ task'["worker"] = task["worker"]
      /\ Start(e).phase = "handler" /\ Start(e).item = e /\ Shape(Start(e))
  BY <1>1, <1>4, StartFields DEF TypeInv, TypeOK
<1>6. SetupExists'  BY <1>2, <1>3, SameCluster DEF Book
<1>7. /\ Shape(task'["recreate"])
      /\ \A i \in replay' : Timely(i) /\ i.action = "ADD"
      /\ Timely(task'["recreate"].item) /\ task'["recreate"].item.action = "ADD"
      /\ \A r \in Requests : excuse[r] \subseteq excuse'[r]
  BY <1>1, <1>2, <1>3, <1>4, <1>5 DEF Book, AllTimely
<1>8. /\ Book'
      /\ \A r \in Requests : /\ Waiting(r)' <=> Waiting(r)
                             /\ InOrder(r)' /\ NotForgotten(r)'
  BY <1>2, <1>3, <1>5, <1>6, <1>7, Apart
<1>9. \A r \in Requests : Removed(r)'
  BY <1>2, <1>3, <1>5, <1>7, StillRemoved
<1>10. ASSUME NEW r \in Requests  PROVE Provided(r)'
  <2> SUFFICES ASSUME api[r] # Absent, excuse[r] \cap {"overtaken", "swallowed"} = {},
                      ~Waiting(r)
               PROVE  (\/ notify = "due" \/ \E i \in replay : Newest(i, r)
                       \/ \E p \in Procs : At(p, r) /\ Progress(task[p])
                       \/ Serves(r, api[r]))'
    BY <1>2, <1>8 DEF Provided
  <2>1. \/ notify = "due" \/ \E i \in replay : Newest(i, r)
        \/ \E p \in Procs : At(p, r) /\ Progress(task[p])
        \/ Serves(r, api[r])
    BY <1>3 DEF Settled, Provided
  <2>2. CASE Newest(e, r)
    <3>1. At("recreate", r)'  BY <1>2, <1>5, <2>2 DEF At, Running, Newest
    <3>2. Progress(task["recreate"])'  BY <1>5 DEF Progress
    <3> QED  BY <3>1, <3>2
  <2>3. ASSUME NEW i \in replay, Newest(i, r), i # e
        PROVE  \E j \in replay' : Newest(j, r)'
    <3>1. i \in replay' /\ Newest(i, r)'  BY <1>1, <1>2, <2>3 DEF Newest
    <3> QED  BY <3>1
  <2>4. ASSUME NEW p \in Procs, At(p, r), Progress(task[p])
        PROVE  At("worker", r)' /\ Progress(task["worker"])'
    <3>1. p = "worker"  BY <1>2, <2>4 DEF At
    <3>2. At("worker", r)'  BY <1>2, <1>5, <2>4, <3>1 DEF At, Running, Newest
    <3>3. Progress(task["worker"])'
      BY <1>2, <1>5, <2>4, <3>1 DEF Progress, HasNode, Listed, pg_vars
    <3> QED  BY <3>2, <3>3
  <2>5. CASE Serves(r, api[r])  BY <1>2, <2>5 DEF Serves, pg_vars
  <2> QED  BY <1>2, <2>1, <2>2, <2>3, <2>4, <2>5
<1> QED  BY <1>8, <1>9, <1>10 DEF RInv, Settled

\* The replay of a request ends, with success or with an error that is noted.
LEMMA ReplayEndsStep ==
    ASSUME TypeInv, RInv, ReplayDone \/ ReplayError
    PROVE  RInv'
<1>1. PICK t : t = task["recreate"]  OBVIOUS
<1>2. /\ t.phase # "idle" /\ task' = [task EXCEPT !["recreate"] = Idle]
      /\ UNCHANGED <<gen, api, watch, queue, delayed, notify, replay, applied>>
      /\ UNCHANGED pg_vars
      /\ \/ t.phase = "done" /\ UNCHANGED excuse
         \/ excuse' = [excuse EXCEPT ![t.item.req] = @ \cup {"swallowed"}]
  <2>1. CASE ReplayDone
    BY <1>1, <2>1 DEF ReplayDone, api_vars, inf_vars, hist_vars
  <2>2. CASE ReplayError
    BY <1>1, <2>2 DEF ReplayError, Failing, api_vars, inf_vars
  <2> QED  BY <2>1, <2>2
<1>3. Book /\ \A r \in Requests : Settled(r)  BY DEF RInv
<1>4. t.item \in Items /\ t.item.req \in Requests  BY <1>1, <1>2, TaskType
<1>5. /\ task'["recreate"] = Idle /\ task'["worker"] = task["worker"]
      /\ Idle.phase = "idle" /\ Shape(Idle)
  BY <1>2, <1>4, StartFields DEF TypeInv, TypeOK
<1>6. SetupExists'  BY <1>2, <1>3, SameCluster DEF Book
<1>7. /\ \A r \in Requests : excuse[r] \subseteq excuse'[r]
      /\ t.phase = "done" \/ "swallowed" \in excuse'[t.item.req]
  <2>1. CASE t.phase = "done" /\ UNCHANGED excuse  BY <2>1
  <2>2. CASE excuse' = [excuse EXCEPT ![t.item.req] = @ \cup {"swallowed"}]
    <3>1. PICK q \in Requests : q = t.item.req  BY <1>4
    <3>2. /\ excuse'[q] = excuse[q] \cup {"swallowed"}
          /\ \A r \in Requests : r # q => excuse'[r] = excuse[r]
      BY <2>2, <3>1 DEF TypeInv, TypeOK
    <3>3. \A r \in Requests : excuse[r] \subseteq excuse'[r]
      <4> TAKE r \in Requests
      <4>1. CASE r = q  BY <3>2, <4>1
      <4>2. CASE r # q  BY <3>2, <4>2
      <4> QED  BY <4>1, <4>2
    <3> QED  BY <3>1, <3>2, <3>3
  <2> QED  BY <1>2, <2>1, <2>2
<1>8. /\ Shape(task'["recreate"]) /\ ~Running("recreate")'
      /\ \A i \in replay' : Timely(i) /\ i.action = "ADD"
  BY <1>2, <1>3, <1>5 DEF Book, AllTimely, Running
<1>9. /\ Book'
      /\ \A r \in Requests : /\ Waiting(r)' <=> Waiting(r)
                             /\ InOrder(r)' /\ NotForgotten(r)'
  BY <1>2, <1>3, <1>5, <1>6, <1>7, <1>8, Apart
<1>10. \A r \in Requests : Removed(r)'
  BY <1>2, <1>3, <1>5, <1>7, StillRemoved
<1>11. ASSUME NEW r \in Requests  PROVE Provided(r)'
  <2> SUFFICES ASSUME api[r] # Absent, excuse'[r] \cap {"overtaken", "swallowed"} = {},
                      ~Waiting(r)
               PROVE  (\/ notify = "due" \/ \E i \in replay : Newest(i, r)
                       \/ \E p \in Procs : At(p, r) /\ Progress(task[p])
                       \/ Serves(r, api[r]))'
    BY <1>2, <1>9 DEF Provided
  <2>1. \/ notify = "due" \/ \E i \in replay : Newest(i, r)
        \/ \E p \in Procs : At(p, r) /\ Progress(task[p])
        \/ Serves(r, api[r])
    BY <1>3, <1>7 DEF Settled, Provided
  <2>2. CASE \E i \in replay : Newest(i, r)  BY <1>2, <2>2 DEF Newest
  <2>3. CASE At("worker", r) /\ Progress(task["worker"])
    <3>1. At("worker", r)'  BY <1>2, <1>5, <2>3 DEF At, Running, Newest
    <3>2. Progress(task["worker"])'
      BY <1>2, <1>5, <2>3 DEF Progress, HasNode, Listed, pg_vars
    <3> QED  BY <3>1, <3>2
  <2>4. CASE At("recreate", r) /\ Progress(task["recreate"])
    <3>1. t.phase = "done"  BY <1>1, <1>7, <2>4 DEF At, Newest
    <3>2. Serves(r, api[r])  BY <1>1, <1>3, <2>4, <3>1, DoneServes
    <3> QED  BY <1>2, <3>2 DEF Serves, pg_vars
  <2>5. CASE Serves(r, api[r])  BY <1>2, <2>5 DEF Serves, pg_vars
  <2> QED  BY <1>2, <2>1, <2>2, <2>3, <2>4, <2>5
<1> QED  BY <1>9, <1>10, <1>11 DEF RInv, Settled

\* Nothing happens.
LEMMA StutterStep ==
    ASSUME TypeInv, RInv, UNCHANGED vars
    PROVE  RInv'
<1>1. /\ UNCHANGED <<gen, api, watch, queue, delayed, task, notify, replay, applied, excuse>>
      /\ UNCHANGED pg_vars
  BY DEF vars, api_vars, inf_vars, hist_vars
<1>2. Book /\ \A r \in Requests : Settled(r)  BY DEF RInv
<1>3. SetupExists'  BY <1>1, <1>2, SameCluster DEF Book
<1>4. /\ Shape(task'["recreate"])
      /\ \A i \in replay' : Timely(i) /\ i.action = "ADD"
      /\ Running("recreate")' => /\ Timely(task'["recreate"].item)
                                 /\ task'["recreate"].item.action = "ADD"
  BY <1>1, <1>2 DEF Book, AllTimely, Running
<1>5. Book' /\ \A r \in Requests : Waiting(r)' <=> Waiting(r)
  BY <1>1, <1>2, <1>3, <1>4, Apart
<1>6. ASSUME NEW r \in Requests  PROVE Settled(r)'
  <2>1. SamePg(r)  BY <1>1, SameCluster
  <2> QED  BY <1>1, <1>2, <1>5, <2>1, Bystander
<1> QED  BY <1>5, <1>6 DEF RInv

\* An empty cluster serves that nobody asks for anything.
LEMMA InitR == Init => RInv
<1> SUFFICES ASSUME Init  PROVE RInv
  OBVIOUS
<1>1. /\ gen = [r \in Requests |-> 0] /\ api = [r \in Requests |-> Absent]
      /\ watch = [r \in Requests |-> <<>>] /\ queue = <<>> /\ delayed = <<>>
      /\ task = [p \in Procs |-> Idle] /\ replay = {}
      /\ applied = [r \in Requests |-> 0] /\ NoPG
  BY DEF Init
<1>2. Idle.phase = "idle" /\ Shape(Idle)
  <2>1. Idle.phase = "idle"  BY DEF Idle
  <2> QED  BY <2>1 DEF Shape
<1>3. \A p \in Procs : ~Running(p) /\ Shape(task[p])  BY <1>1, <1>2 DEF Running
<1>4. Held = {} /\ \A r \in Requests : Watched(r) = {}
  <2>1. Held = {}  BY <1>1, RangeShort DEF Held
  <2>2. \A r \in Requests : watch[r] = <<>>  BY <1>1
  <2> QED  BY <2>1, <2>2, RangeShort DEF Watched
<1>5. Book
  <2>1. SetupExists  BY <1>1 DEF SetupExists, NoPG
  <2>2. Versions  BY <1>1 DEF Versions
  <2>3. AllTimely  BY <1>1, <1>3, <1>4 DEF AllTimely
  <2> QED  BY <1>3, <2>1, <2>2, <2>3 DEF Book
<1>6. ASSUME NEW r \in Requests  PROVE Settled(r)
  <2>1. InOrder(r) /\ ~At("worker", r)  BY <1>3 DEF InOrder, RunsOn, At
  <2>2. NotForgotten(r) /\ Provided(r)  BY <1>1 DEF NotForgotten, Provided
  <2>3. \A n \in Nodes : Clean(n, r)  BY <1>1 DEF NoPG, Clean
  <2> QED  BY <2>1, <2>2, <2>3 DEF Settled, Removed
<1> QED  BY <1>5, <1>6 DEF RInv

\* Every step keeps the invariant.
LEMMA NextR == TypeInv /\ RInv /\ [Next]_vars => RInv'
<1> SUFFICES ASSUME TypeInv, RInv, [Next]_vars  PROVE RInv'
  OBVIOUS
<1>1. ASSUME NEW r \in Requests, CreateRequest(r) \/ EditRequest(r) \/ DeleteRequest(r)
      PROVE  RInv'
  <2>1. \E a \in {"ADD", "UPDATE", "DELETE"}, o \in SUBSET Dbs : Change(r, a, o)
    BY <1>1 DEF CreateRequest, EditRequest, DeleteRequest
  <2> QED  BY <2>1, ChangeStep
<1> QED  BY <1>1, HandleEventStep, RelistStep, GetStep, RequeueStep, ForgetStep,
            WorkerErrorStep, ClusterCreatedStep, ListRequestsStep, ReplayNextStep,
            ReplayEndsStep, StatementStep, RestartStep, StutterStep DEF Next

\* Nothing is on its way for a request that is quiet.
LEMMA QuietIdle ==
    ASSUME NEW r \in Requests, Quiet(r)
    PROVE  /\ ~Waiting(r) /\ \A p \in Procs : ~At(p, r)
           /\ notify # "due" /\ \A i \in replay : ~Newest(i, r)
<1>1. Watched(r) = {}  BY RangeShort DEF Quiet, Watched
<1>2. ~Waiting(r)  BY <1>1 DEF Waiting, Held, Quiet, Newest
<1>3. \A p \in Procs : ~At(p, r)  BY DEF Quiet, RunsOn, At, Newest
<1>4. notify # "due" /\ \A i \in replay : ~Newest(i, r)  BY DEF Quiet, Newest
<1> QED  BY <1>2, <1>3, <1>4

\* Once the operator (createOrUpdatePGRequest, run by the queue worker and by
\* PGClusterRecreated) has nothing left to do for an existing request, every node
\* has its role with the current password and its databases set up, and the master
\* lists the worker nodes, whatever failed, restarted or interleaved before; unless
\* the replay swallowed an error or an older item ran after a newer one.
THEOREM ProvisionedHolds == Spec => []Provisioned
<1>1. RInv => Provisioned
  <2> SUFFICES ASSUME RInv, NEW r \in Requests, Quiet(r), api[r] # Absent,
                      excuse[r] \cap {"overtaken", "swallowed"} = {}
               PROVE  Serves(r, api[r])
    BY DEF Provisioned
  <2>1. Provided(r)  BY DEF RInv, Settled
  <2> QED  BY <2>1, QuietIdle DEF Provided
<1> QED  BY <1>1, InitType, NextType, InitR, NextR, PTL DEF Spec

\* Once the operator has nothing left to do for a deleted request, deletePGAll has
\* left no role and no database of it on any node; unless the deletion was lost in
\* a restart or an older item, or a replay, ran after it.
THEOREM DeprovisionedHolds == Spec => []Deprovisioned
<1>1. RInv => Deprovisioned
  <2> SUFFICES ASSUME RInv, NEW r \in Requests, Quiet(r), api[r] = Absent,
                      excuse[r] \cap {"overtaken", "lost"} = {}
               PROVE  \A n \in Nodes : Clean(n, r)
    BY DEF Deprovisioned
  <2>1. NotForgotten(r) /\ Removed(r)  BY DEF RInv, Settled
  <2>2. applied[r] = gen[r]  BY <2>1, QuietIdle DEF NotForgotten
  <2> QED  BY <2>1, <2>2 DEF Removed
<1> QED  BY <1>1, InitType, NextType, InitR, NextR, PTL DEF Spec

----------------------------------------------------------------------------
(* Databases that are no longer listed.  Only an UPDATE or a DELETE takes  *)
(* something away, and only if it is not carried out before an older item. *)
(* So the invariant is about all versions of a request that are on their   *)
(* way, and the order in which they will be carried out.                   *)

\* What the worker has in hand of r, has been given of r, and will be given of r.
Active(r) == {i \in {task["worker"].item} : RunsOn("worker", r)}
Taken(r) == {i \in Held : i.req = r} \cup Active(r)
Alive(r) == Watched(r) \cup Taken(r)

\* The copies of r that the replay has.
Replayed(r) ==
    {i \in replay : i.req = r} \cup {i \in {task["recreate"].item} : RunsOn("recreate", r)}

\* x goes before y: another version, and not the creation after the deletion y.
Lined(x, y) ==
    x.req = y.req => /\ x.ver # y.ver
                     /\ x.action = "ADD" /\ y.action = "DELETE" => x.ver < y.ver
Line(s) == \A a, b \in 1 .. Len(s) : a < b => Lined(s[a], s[b])
InLine ==
    /\ Line(queue) /\ Line(delayed)
    /\ \A x \in SeqRange(delayed) : x.action # "DELETE" /\ \A y \in SeqRange(queue) : Lined(x, y)
    /\ Running("worker") => \A y \in Held : Lined(task["worker"].item, y)

\* Versions: events come in their order, after what has been taken, and a version comes
\* once; a restarted operator may get again what it has applied.
Rising(s) == \A a, b \in 1 .. Len(s) : a < b => s[a].ver < s[b].ver
Ranked(r) ==
    /\ Rising(watch[r])
    /\ \A x \in Taken(r), w \in Watched(r) : x.ver < w.ver
    /\ \A w \in Watched(r) :
         \/ w.ver > applied[r]
         \/ w.ver = applied[r] /\ w.action = "ADD" /\ known[r] = Absent /\ crashes > 0
    /\ \A i, j \in Alive(r) : i.ver = j.ver => i = j
    /\ crashes = 0 => \A i \in Taken(r) : i.ver # applied[r]

\* An older version is carried out before a creation only if a deletion comes between.
Parted(r) ==
    "lost" \notin excuse[r] =>
        \A k, m \in Alive(r) :
            k.action # "ADD" /\ m.action = "ADD" /\ applied[r] < k.ver /\ k.ver < m.ver =>
                \E e \in Alive(r) : e.action = "DELETE" /\ k.ver <= e.ver /\ e.ver < m.ver

\* The cache has no object: what was taken is followed by a deletion.
Closed(r) ==
    crashes = 0 /\ known[r] = Absent =>
        \A i \in Taken(r) : \/ i.ver < applied[r]
                            \/ \E e \in Taken(r) : e.action = "DELETE" /\ e.ver >= i.ver

\* Item i takes database d away, and task t is past the place where it does.
Kills(i, d) == i.action = "DELETE" \/ (i.action = "UPDATE" /\ d \notin i.dbs)
Past(t, d) ==
    \/ t.phase = "done"
    \/ t.phase = "prune" /\ (d \notin t.todo \/ (t.node > 0 /\ t.db = {d}))
    \/ t.item.action = "DELETE" /\ t.node > 0

\* Item k is still to take d away from the master, after what the worker is doing.
Awaits(r, k, d) ==
    /\ Kills(k, d) /\ k.ver > applied[r]
    /\ RunsOn("worker", r) =>
         \/ k.ver > task["worker"].item.ver
         \/ k = task["worker"].item /\ ~Past(task["worker"], d)

Excused(r) ==
    excuse[r] \cap {"overtaken", "lost"} # {} \/ (relists > 0 /\ recreates > 0)

\* Whatever makes a database the object does not list is followed by what takes it away,
Undone(r) ==
    ~Excused(r) =>
        \A j \in Alive(r) \cup Replayed(r) :
            j.action # "DELETE" /\ j.ver >= applied[r] =>
                \A d \in j.dbs \ api[r].dbs : \E k \in Alive(r) : Kills(k, d) /\ k.ver > j.ver

\* and so is every database that has been made; if the cache has no object, by a deletion
\* that has been taken.
Fate(r, d) ==
    /\ d \notin api[r].dbs => \E k \in Alive(r) : Awaits(r, k, d)
    /\ crashes = 0 /\ recreates = 0 /\ known[r] = Absent =>
         \E e \in Taken(r) : e.action = "DELETE" /\ Awaits(r, e, d)
Doomed(r) == ~Excused(r) => \A d \in dbs[0][r] : Fate(r, d)

\* In its loop over the databases a task has those of its item; it lists them at the master.
Loop(t) ==
    /\ t.phase \in {"createdb", "setup"} => t.todo \subseteq t.item.dbs
    /\ t.phase = "list" => t.node = 0

Followed(r) == Ranked(r) /\ Parted(r) /\ Closed(r) /\ Undone(r) /\ Doomed(r)

PInv ==
    /\ InLine /\ \A p \in Procs : Loop(task[p])
    /\ \A r \in Requests : Followed(r)

----------------------------------------------------------------------------
(* Queues in order.                                                        *)

\* Append and Tail keep a queue in line.
LEMMA LineOf ==
    ASSUME NEW S, NEW s \in Seq(S), NEW e \in S, Line(s)
    PROVE  /\ (\A x \in SeqRange(s) : Lined(x, e)) => Line(Append(s, e))
           /\ s # <<>> => Line(Tail(s)) /\ \A y \in SeqRange(Tail(s)) : Lined(Head(s), y)
<1>1. ASSUME \A x \in SeqRange(s) : Lined(x, e)  PROVE Line(Append(s, e))
  <2>1. Len(Append(s, e)) = Len(s) + 1 /\ Len(s) \in Nat  OBVIOUS
  <2>2. \A k \in 1 .. Len(s) : Append(s, e)[k] = s[k]  OBVIOUS
  <2>3. Append(s, e)[Len(s) + 1] = e  OBVIOUS
  <2> SUFFICES ASSUME NEW a \in 1 .. Len(s) + 1, NEW b \in 1 .. Len(s) + 1, a < b
               PROVE  Lined(Append(s, e)[a], Append(s, e)[b])
    BY <2>1 DEF Line
  <2>4. a \in 1 .. Len(s) /\ s[a] \in SeqRange(s)  BY <2>1 DEF SeqRange
  <2>5. CASE b \in 1 .. Len(s)  BY <2>2, <2>4, <2>5 DEF Line
  <2>6. CASE b = Len(s) + 1  BY <1>1, <2>2, <2>3, <2>4, <2>6
  <2> QED  BY <2>1, <2>5, <2>6
<1>2. ASSUME s # <<>>
      PROVE  Line(Tail(s)) /\ \A y \in SeqRange(Tail(s)) : Lined(Head(s), y)
  <2>1. Len(s) \in Nat /\ Len(s) >= 1 /\ Len(Tail(s)) = Len(s) - 1 /\ Head(s) = s[1]
    BY <1>2
  <2>2. \A k \in 1 .. Len(s) - 1 : Tail(s)[k] = s[k + 1] /\ k + 1 \in 2 .. Len(s)
    BY <1>2, <2>1
  <2>3. \A a, b \in 1 .. Len(s) - 1 : a < b => a + 1 < b + 1  BY <2>1
  <2>4. Line(Tail(s))
    <3> SUFFICES ASSUME NEW a \in 1 .. Len(s) - 1, NEW b \in 1 .. Len(s) - 1, a < b
                 PROVE  Lined(Tail(s)[a], Tail(s)[b])
      BY <2>1 DEF Line
    <3>1. a + 1 \in 1 .. Len(s) /\ b + 1 \in 1 .. Len(s) /\ a + 1 < b + 1  BY <2>1
    <3>2. Lined(s[a + 1], s[b + 1])  BY <3>1 DEF Line
    <3> QED  BY <2>2, <3>2
  <2>5. ASSUME NEW y \in SeqRange(Tail(s))  PROVE Lined(Head(s), y)
    <3>1. PICK k \in 1 .. Len(s) - 1 : y = Tail(s)[k]  BY <2>1 DEF SeqRange
    <3>2. 1 \in 1 .. Len(s) /\ k + 1 \in 1 .. Len(s) /\ 1 < k + 1  BY <2>1
    <3>3. Lined(s[1], s[k + 1])  BY <3>2 DEF Line
    <3> QED  BY <2>1, <2>2, <3>1, <3>3
  <2> QED  BY <2>4, <2>5
<1> QED  BY <1>1, <1>2

\* Append and Tail keep versions rising.
LEMMA RisingOf ==
    ASSUME NEW S, NEW s \in Seq(S), NEW e \in S, Rising(s)
    PROVE  /\ (\A x \in SeqRange(s) : x.ver < e.ver) => Rising(Append(s, e))
           /\ s # <<>> => Rising(Tail(s)) /\ \A y \in SeqRange(Tail(s)) : Head(s).ver < y.ver
<1>1. ASSUME \A x \in SeqRange(s) : x.ver < e.ver  PROVE Rising(Append(s, e))
  <2>1. Len(Append(s, e)) = Len(s) + 1 /\ Len(s) \in Nat  OBVIOUS
  <2>2. \A k \in 1 .. Len(s) : Append(s, e)[k] = s[k]  OBVIOUS
  <2>3. Append(s, e)[Len(s) + 1] = e  OBVIOUS
  <2> SUFFICES ASSUME NEW a \in 1 .. Len(s) + 1, NEW b \in 1 .. Len(s) + 1, a < b
               PROVE  Append(s, e)[a].ver < Append(s, e)[b].ver
    BY <2>1 DEF Rising
  <2>4. a \in 1 .. Len(s) /\ s[a] \in SeqRange(s)  BY <2>1 DEF SeqRange
  <2>5. CASE b \in 1 .. Len(s)  BY <2>2, <2>4, <2>5 DEF Rising
  <2>6. CASE b = Len(s) + 1  BY <1>1, <2>2, <2>3, <2>4, <2>6
  <2> QED  BY <2>1, <2>5, <2>6
<1>2. ASSUME s # <<>>
      PROVE  Rising(Tail(s)) /\ \A y \in SeqRange(Tail(s)) : Head(s).ver < y.ver
  <2>1. Len(s) \in Nat /\ Len(s) >= 1 /\ Len(Tail(s)) = Len(s) - 1 /\ Head(s) = s[1]
    BY <1>2
  <2>2. \A k \in 1 .. Len(s) - 1 : Tail(s)[k] = s[k + 1]
    BY <1>2, <2>1
  <2>3. Rising(Tail(s))
    <3> SUFFICES ASSUME NEW a \in 1 .. Len(s) - 1, NEW b \in 1 .. Len(s) - 1, a < b
                 PROVE  Tail(s)[a].ver < Tail(s)[b].ver
      BY <2>1 DEF Rising
    <3>1. a + 1 \in 1 .. Len(s) /\ b + 1 \in 1 .. Len(s) /\ a + 1 < b + 1  BY <2>1
    <3>2. s[a + 1].ver < s[b + 1].ver  BY <3>1 DEF Rising
    <3> QED  BY <2>2, <3>2
  <2>4. ASSUME NEW y \in SeqRange(Tail(s))  PROVE Head(s).ver < y.ver
    <3>1. PICK k \in 1 .. Len(s) - 1 : y = Tail(s)[k]  BY <2>1 DEF SeqRange
    <3>2. 1 \in 1 .. Len(s) /\ k + 1 \in 1 .. Len(s) /\ 1 < k + 1  BY <2>1
    <3>3. s[1].ver < s[k + 1].ver  BY <3>2 DEF Rising
    <3> QED  BY <2>1, <2>2, <3>1, <3>3
  <2> QED  BY <2>3, <2>4
<1> QED  BY <1>1, <1>2

\* Short sequences are in order.
LEMMA ShortInOrder ==
    /\ Line(<<>>) /\ Rising(<<>>)
    /\ \A e : Rising(<<e>>)
BY DEF Line, Rising

----------------------------------------------------------------------------
(* Requests a step leaves alone.                                           *)

\* What is on its way are items of the request, not newer than the object.
LEMMA OnTheWay ==
    ASSUME TypeInv, Book, NEW r \in Requests
    PROVE  /\ \A i \in Alive(r) : /\ i \in Items /\ i.req = r /\ i.ver \in Nat
                                  /\ i.ver <= gen[r] /\ Timely(i)
           /\ \A i \in Replayed(r) : /\ i \in Items /\ i.req = r /\ i.ver \in Nat
                                     /\ i.ver <= gen[r] /\ i.action = "ADD"
           /\ gen[r] \in Nat /\ applied[r] \in Nat /\ applied[r] <= gen[r]
           /\ Watched(r) \subseteq Alive(r) /\ Taken(r) \subseteq Alive(r)
           /\ RunsOn("worker", r) => task["worker"].item \in Taken(r)
<1>1. AllTimely /\ Versions  BY DEF Book
<1>2. \A i \in Items : i.ver \in Nat  BY DEF Items
<1>3. gen[r] \in Nat /\ applied[r] \in Nat /\ applied[r] <= gen[r]
  BY <1>1, BoundAssumption DEF TypeInv, TypeOK, Versions
<1>4. \A i \in Watched(r) : i \in Items /\ i.req = r /\ Timely(i)
  BY <1>1, WaitingItems DEF AllTimely
<1>5. \A i \in Held : i \in Items /\ Timely(i)
  BY <1>1, WaitingItems DEF AllTimely
<1>6. RunsOn("worker", r) =>
        /\ task["worker"].item \in Items /\ task["worker"].item.req = r
        /\ Timely(task["worker"].item)
  BY <1>1, TaskType DEF AllTimely, RunsOn, Running
<1>7. RunsOn("recreate", r) =>
        /\ task["recreate"].item \in Items /\ task["recreate"].item.req = r
        /\ Timely(task["recreate"].item) /\ task["recreate"].item.action = "ADD"
  BY <1>1, TaskType DEF AllTimely, RunsOn, Running
<1>8. \A i \in replay : i \in Items /\ Timely(i) /\ i.action = "ADD"
  BY <1>1 DEF AllTimely, TypeInv, TypeOK
<1>9. \A i : Timely(i) /\ i.req = r => i.ver <= gen[r]  BY DEF Timely
<1>10. \A i \in Alive(r) : i \in Items /\ i.req = r /\ Timely(i)
  BY <1>4, <1>5, <1>6 DEF Alive, Taken, Active
<1>11. \A i \in Replayed(r) : i \in Items /\ i.req = r /\ Timely(i) /\ i.action = "ADD"
  BY <1>7, <1>8 DEF Replayed
<1>12. /\ Watched(r) \subseteq Alive(r) /\ Taken(r) \subseteq Alive(r)
       /\ RunsOn("worker", r) => task["worker"].item \in Taken(r)
  BY DEF Alive, Taken, Active
<1> QED  BY <1>2, <1>3, <1>9, <1>10, <1>11, <1>12

\* An item that still has to take a database away still has to after a step that keeps
\* the worker from passing the place where it does.
LEMMA KeepFate ==
    ASSUME NEW r \in Requests, NEW d, Fate(r, d),
           Alive(r)' = Alive(r), Taken(r)' = Taken(r), api'[r] = api[r],
           known'[r] = known[r], applied'[r] = applied[r], crashes' = crashes,
           recreates' = 0 => recreates = 0,
           RunsOn("worker", r)' =>
               /\ RunsOn("worker", r) /\ task'["worker"].item = task["worker"].item
               /\ Kills(task["worker"].item, d) /\ Past(task'["worker"], d) =>
                    Past(task["worker"], d)
    PROVE  Fate(r, d)'
<1>1. ASSUME NEW k, Awaits(r, k, d)  PROVE Awaits(r, k, d)'
  <2>1. Kills(k, d) /\ k.ver > applied[r]  BY <1>1 DEF Awaits
  <2>2. Kills(k, d)' /\ k.ver > applied'[r]  BY <2>1 DEF Kills
  <2>3. ASSUME RunsOn("worker", r)'
        PROVE  \/ k.ver > task'["worker"].item.ver
               \/ k = task'["worker"].item /\ ~Past(task'["worker"], d)
    BY <1>1, <2>1, <2>3 DEF Awaits
  <2>4. Past(task'["worker"], d) <=> Past(task["worker"], d)'  BY DEF Past
  <2> QED  BY <2>2, <2>3, <2>4 DEF Awaits
<1> QED  BY <1>1 DEF Fate

\* What is known of a request follows from what is known of its databases, if nothing
\* of the request moves from the watch to the queue or comes to an end.
LEMMA KeepFollowed ==
    ASSUME NEW r \in Requests, Followed(r),
           watch'[r] = watch[r], Taken(r)' = Taken(r),
           \A j \in Replayed(r)' : j \in Replayed(r) \/ j.dbs \subseteq api[r].dbs,
           api'[r] = api[r], known'[r] = known[r], applied'[r] = applied[r],
           crashes' = crashes, excuse[r] \subseteq excuse'[r],
           Excused(r) => Excused(r)', Doomed(r)'
    PROVE  Followed(r)'
<1>1. Watched(r)' = Watched(r) /\ Alive(r)' = Alive(r)
  BY DEF Watched, Alive, SeqRange
<1>2. Ranked(r)'
  <2>1. Rising(watch[r])'  BY DEF Followed, Ranked, Rising
  <2> QED  BY <1>1, <2>1 DEF Followed, Ranked
<1>3. Parted(r)'  BY <1>1 DEF Followed, Parted
<1>4. Closed(r)'  BY DEF Followed, Closed
<1>5. Undone(r)'
  <2> SUFFICES ASSUME ~Excused(r)', NEW j \in Alive(r)' \cup Replayed(r)',
                      j.action # "DELETE", j.ver >= applied'[r],
                      NEW d \in j.dbs \ api'[r].dbs
               PROVE  \E k \in Alive(r)' : Kills(k, d)' /\ k.ver > j.ver
    BY DEF Undone
  <2>1. j \in Alive(r) \cup Replayed(r)  BY <1>1
  <2>2. PICK k \in Alive(r) : Kills(k, d) /\ k.ver > j.ver
    BY <2>1 DEF Followed, Undone
  <2> QED  BY <1>1, <2>2 DEF Kills
<1> QED  BY <1>2, <1>3, <1>4, <1>5 DEF Followed

\* A request a step has nothing to do with.
LEMMA Untouched ==
    ASSUME NEW r \in Requests, Followed(r),
           watch'[r] = watch[r], Taken(r)' = Taken(r),
           \A j \in Replayed(r)' : j \in Replayed(r) \/ j.dbs \subseteq api[r].dbs,
           api'[r] = api[r], known'[r] = known[r], applied'[r] = applied[r],
           crashes' = crashes, excuse[r] \subseteq excuse'[r],
           Excused(r) => Excused(r)', recreates' = 0 => recreates = 0,
           dbs'[0][r] \subseteq dbs[0][r],
           RunsOn("worker", r)' => RunsOn("worker", r) /\ task'["worker"] = task["worker"]
    PROVE  Followed(r)'
<1>1. Alive(r)' = Alive(r)  BY DEF Watched, Alive, SeqRange
<1>2. Doomed(r)'
  <2> SUFFICES ASSUME ~Excused(r)', NEW d \in dbs'[0][r]  PROVE Fate(r, d)'
    BY DEF Doomed
  <2>1. Fate(r, d)  BY DEF Followed, Doomed
  <2> QED  BY <1>1, <2>1, KeepFate
<1> QED  BY <1>2, KeepFollowed

\* Excuses stay.
LEMMA StillExcused ==
    ASSUME TypeInv, NEW r \in Requests, excuse[r] \subseteq excuse'[r],
           relists' = relists \/ relists' = relists + 1,
           recreates' = recreates \/ recreates' = recreates + 1
    PROVE  Excused(r) => Excused(r)'
<1>1. relists \in Nat /\ recreates \in Nat  BY BoundAssumption DEF TypeInv, TypeOK
<1> QED  BY <1>1 DEF Excused

----------------------------------------------------------------------------
(* Statements and the databases of the master.                             *)

\* What a statement of task t, which becomes u, does to the databases of the master: it
\* makes only those of its item, and passes the place where it takes one away only when
\* that one is gone.
OnMaster(t, u) ==
    /\ Loop(u)
    /\ dbs'[0][t.item.req] \subseteq dbs[0][t.item.req] \cup t.item.dbs
    /\ t.item.action = "DELETE" => dbs'[0][t.item.req] \subseteq dbs[0][t.item.req]
    /\ \A d \in dbs'[0][t.item.req] : Kills(t.item, d) /\ Past(u, d) => Past(t, d)

\* A statement that changes no databases and leaves its goroutine where nothing is past.
LEMMA StillOnMaster ==
    ASSUME NEW t, NEW u, dbs' = dbs, u.item = t.item, Loop(u),
           \A d \in dbs[0][t.item.req] : Kills(t.item, d) /\ Past(u, d) => Past(t, d)
    PROVE  OnMaster(t, u)
BY DEF OnMaster

\* The statements of handler() that drop nothing.
LEMMA MakingOnMaster ==
    ASSUME TypeInv, Book, NEW p \in Procs, NEW t \in Tasks, t = task[p], t.phase # "idle",
           Loop(t), NEW u, u = task'[p],
           \/ Dispatch(p) \/ CreateOrUpdateUser(p) \/ CreateDatabaseIfNotExists(p)
           \/ SetupDatabase(p) \/ NextNode(p) \/ AddWorkerNode(p)
    PROVE  OnMaster(t, u)
<1>1. /\ task \in [Procs -> Tasks] /\ dbs \in [Nodes -> [Requests -> SUBSET Dbs]]
      /\ 0 \in Nodes /\ \A n \in Nodes : n \in Nat
  BY ReplicasAssumption DEF TypeInv, TypeOK, Nodes
<1>2. /\ t.item \in Items /\ t.item.req \in Requests /\ t.node \in Nodes
      /\ t.item.dbs \in SUBSET Dbs
  BY TaskType
<1>3. Shape(t)  BY DEF Book
<1>4. CASE Dispatch(p)
  <2>1. /\ t.phase = "handler" /\ t.node = 0 /\ dbs' = dbs
        /\ u = IF t.item.action = "DELETE"
                 THEN [t EXCEPT !.phase = "drop", !.todo = Wanted(t.item, 0)]
                 ELSE [t EXCEPT !.phase = "user"]
    BY <1>1, <1>3, <1>4 DEF Dispatch, Step, pg_vars, Shape
  <2>2. u.item = t.item /\ u.node = 0 /\ u.phase \in {"drop", "user"}
    BY <2>1 DEF Tasks
  <2>3. Loop(u) /\ \A d : ~Past(u, d)  BY <2>2 DEF Loop, Past
  <2> QED  BY <2>1, <2>2, <2>3, StillOnMaster
<1>5. CASE CreateOrUpdateUser(p)
  <2>1. /\ t.phase = "user" /\ dbs' = dbs
        /\ u = [t EXCEPT !.phase = "createdb", !.todo = Wanted(t.item, t.node)]
    BY <1>1, <1>5 DEF CreateOrUpdateUser, Step
  <2>2. u.item = t.item /\ u.phase = "createdb" /\ u.todo \subseteq t.item.dbs
    BY <2>1 DEF Tasks, Wanted
  <2>3. t.item.action # "DELETE"  BY <1>3, <2>1 DEF Shape
  <2>4. Loop(u) /\ \A x : ~Past(u, x)  BY <2>2, <2>3 DEF Loop, Past
  <2> QED  BY <2>1, <2>2, <2>4, StillOnMaster
<1>6. CASE CreateDatabaseIfNotExists(p)
  <2>1. PICK d \in t.todo : /\ t.phase = "createdb"
                            /\ dbs' = [dbs EXCEPT ![t.node][t.item.req] = @ \cup {d}]
                            /\ u = [t EXCEPT !.phase = "setup", !.db = {d}]
    BY <1>1, <1>6 DEF CreateDatabaseIfNotExists, Step
  <2>2. u.item = t.item /\ u.phase = "setup" /\ u.todo = t.todo
    BY <2>1 DEF Tasks
  <2>3. t.item.action # "DELETE"  BY <1>3, <2>1 DEF Shape
  <2>4. t.todo \subseteq t.item.dbs  BY <2>1 DEF Loop
  <2>5. dbs'[0][t.item.req] \subseteq dbs[0][t.item.req] \cup {d}
    BY <1>1, <1>2, <2>1
  <2> QED  BY <2>2, <2>3, <2>4, <2>5 DEF OnMaster, Loop, Past
<1>7. CASE SetupDatabase(p)
  <2>1. /\ t.phase = "setup" /\ dbs' = dbs
        /\ u = [t EXCEPT !.phase = "createdb", !.todo = @ \ t.db, !.db = {}]
    BY <1>1, <1>7 DEF SetupDatabase, Step
  <2>2. u.item = t.item /\ u.phase = "createdb" /\ u.todo \subseteq t.todo
    BY <2>1 DEF Tasks
  <2>3. t.item.action # "DELETE" /\ t.todo \subseteq t.item.dbs
    BY <1>3, <2>1 DEF Shape, Loop
  <2>4. Loop(u) /\ \A x : ~Past(u, x)  BY <2>2, <2>3 DEF Loop, Past
  <2> QED  BY <2>1, <2>2, <2>4, StillOnMaster
<1>8. CASE NextNode(p)
  <2>1. /\ t.phase \in {"createdb", "addworker"} /\ dbs' = dbs
        /\ u = IF MoreNodes(t)
                 THEN IF t.phase = "createdb"
                        THEN [t EXCEPT !.phase = "user", !.node = @ + 1]
                        ELSE [t EXCEPT !.todo = t.item.dbs \cap Dist, !.node = @ + 1]
                 ELSE IF t.phase = "createdb" /\ Replicas > 1
                        THEN [t EXCEPT !.phase = "addworker", !.node = 1,
                                       !.todo = t.item.dbs \cap Dist]
                        ELSE [t EXCEPT !.node = 0,
                                       !.phase = IF Prunes(t) THEN "list" ELSE "done"]
    BY <1>1, <1>8 DEF NextNode, Step, pg_vars
  <2>2. t.item.action # "DELETE"  BY <1>3, <2>1 DEF Shape
  <2>3. /\ u.item = t.item /\ u.phase \in {"user", "addworker", "list", "done"}
        /\ u.phase = "list" => u.node = 0
        /\ u.phase = "done" => ~Prunes(t)
    BY <2>1 DEF Tasks
  <2>4. \A d : Kills(t.item, d) => ~Past(u, d)
    BY <2>2, <2>3 DEF Kills, Past, Prunes
  <2> QED  BY <2>1, <2>3, <2>4, StillOnMaster DEF Loop
<1>9. CASE AddWorkerNode(p)
  <2>1. PICK d \in t.todo : /\ t.phase = "addworker" /\ dbs' = dbs
                            /\ u = [t EXCEPT !.todo = @ \ {d}]
    BY <1>1, <1>9 DEF AddWorkerNode, Step
  <2>2. u.item = t.item /\ u.phase = "addworker"  BY <2>1 DEF Tasks
  <2>3. t.item.action # "DELETE"  BY <1>3, <2>1 DEF Shape
  <2>4. Loop(u) /\ \A x : ~Past(u, x)  BY <2>2, <2>3 DEF Loop, Past
  <2> QED  BY <2>1, <2>2, <2>4, StillOnMaster
<1> QED  BY <1>4, <1>5, <1>6, <1>7, <1>8, <1>9

\* The statements of deleteDatabaseIfNotExists and deletePGAll.
LEMMA DroppingOnMaster ==
    ASSUME TypeInv, Book, NEW p \in Procs, NEW t \in Tasks, t = task[p], t.phase # "idle",
           Loop(t), NEW u, u = task'[p],
           \/ ListUnlisted(p) \/ PruneDatabase(p) \/ PruneReturns(p)
           \/ DropOne(p) \/ ListOwned(p) \/ DeleteUser(p)
    PROVE  OnMaster(t, u)
<1>1. /\ task \in [Procs -> Tasks] /\ dbs \in [Nodes -> [Requests -> SUBSET Dbs]]
      /\ 0 \in Nodes /\ \A n \in Nodes : n \in Nat
  BY ReplicasAssumption DEF TypeInv, TypeOK, Nodes
<1>2. /\ t.item \in Items /\ t.item.req \in Requests /\ t.node \in Nodes
      /\ t.todo \in SUBSET Dbs
  BY TaskType
<1>3. Shape(t)  BY DEF Book
<1>4. CASE ListUnlisted(p)
  <2>1. /\ t.phase = "list" /\ t.node = 0 /\ dbs' = dbs
        /\ u = [t EXCEPT !.phase = "prune", !.todo = dbs[0][t.item.req] \ t.item.dbs]
    BY <1>1, <1>4 DEF ListUnlisted, Step, pg_vars, Loop
  <2>2. /\ u.item = t.item /\ u.phase = "prune" /\ u.node = 0
        /\ u.todo = dbs[0][t.item.req] \ t.item.dbs
    BY <2>1 DEF Tasks
  <2>3. t.item.action # "DELETE"  BY <1>3, <2>1 DEF Shape
  <2>4. \A d \in dbs[0][t.item.req] : Kills(t.item, d) => ~Past(u, d)
    BY <2>2, <2>3 DEF Kills, Past
  <2> QED  BY <2>1, <2>2, <2>4, StillOnMaster DEF Loop
<1>5. CASE PruneDatabase(p)
  <2>1. PICK d \in t.todo :
          /\ t.phase = "prune" /\ (t.node > 0 => t.db = {d})
          /\ dbs' = [dbs EXCEPT ![t.node][t.item.req] = @ \ {d}]
          /\ u = IF MoreNodes(t) THEN [t EXCEPT !.node = @ + 1, !.db = {d}]
                 ELSE [t EXCEPT !.node = 0, !.db = {}, !.todo = @ \ {d}]
    BY <1>1, <1>5 DEF PruneDatabase, Step, DropDatabase
  <2>2. t.item.action # "DELETE" /\ t.phase = "prune"  BY <1>3, <2>1 DEF Shape
  <2>3. /\ dbs'[0][t.item.req] \subseteq dbs[0][t.item.req]
        /\ t.node = 0 => d \notin dbs'[0][t.item.req]
    BY <1>1, <1>2, <2>1
  <2>4. \/ u.item = t.item /\ u.phase = "prune" /\ u.todo = t.todo /\ u.db = {d}
        \/ u.item = t.item /\ u.phase = "prune" /\ u.todo = t.todo \ {d} /\ u.node = 0
    BY <2>1, <2>2 DEF Tasks
  <2>5. ASSUME NEW x \in dbs'[0][t.item.req], Past(u, x)  PROVE Past(t, x)
    <3>1. x \notin t.todo \/ x = d  BY <2>2, <2>4, <2>5 DEF Past
    <3>2. x = d => t.node > 0 /\ t.db = {x}  BY <1>1, <1>2, <2>1, <2>3
    <3> QED  BY <2>2, <3>1, <3>2 DEF Past
  <2> QED  BY <2>2, <2>3, <2>4, <2>5 DEF OnMaster, Loop
<1>6. CASE PruneReturns(p)
  <2>1. /\ t.phase = "prune" /\ t.todo = {} /\ dbs' = dbs /\ u = [t EXCEPT !.phase = "done"]
    BY <1>1, <1>6 DEF PruneReturns, Step, pg_vars
  <2>2. u.item = t.item /\ u.phase = "done"  BY <2>1 DEF Tasks
  <2>3. \A d : Past(t, d)  BY <2>1 DEF Past
  <2> QED  BY <2>1, <2>2, <2>3, StillOnMaster DEF Loop
<1>7. CASE DropOne(p)
  <2>1. PICK d \in t.todo :
          /\ t.phase \in {"drop", "droprest"}
          /\ dbs' = [dbs EXCEPT ![t.node][t.item.req] = @ \ {d}]
          /\ u = [t EXCEPT !.todo = @ \ {d}]
    BY <1>1, <1>7 DEF DropOne, Step, DropDatabase
  <2>2. u.item = t.item /\ u.phase = t.phase /\ u.node = t.node  BY <2>1 DEF Tasks
  <2>3. dbs'[0][t.item.req] \subseteq dbs[0][t.item.req]  BY <1>1, <1>2, <2>1
  <2> QED  BY <2>1, <2>2, <2>3 DEF OnMaster, Loop, Past
<1>8. CASE ListOwned(p)
  <2>1. /\ t.phase = "drop" /\ dbs' = dbs
        /\ u = [t EXCEPT !.phase = "droprest", !.todo = dbs[t.node][t.item.req]]
    BY <1>1, <1>8 DEF ListOwned, Step, pg_vars
  <2>2. u.item = t.item /\ u.phase = "droprest" /\ u.node = t.node  BY <2>1 DEF Tasks
  <2>3. Loop(u) /\ \A d : Past(u, d) => Past(t, d)  BY <2>1, <2>2 DEF Loop, Past
  <2> QED  BY <2>1, <2>2, <2>3, StillOnMaster
<1>9. CASE DeleteUser(p)
  <2>1. /\ t.phase = "droprest" /\ dbs' = dbs /\ dbs[t.node][t.item.req] = {}
        /\ u = IF MoreNodes(t)
                 THEN [t EXCEPT !.phase = "drop", !.node = @ + 1,
                                !.todo = Wanted(t.item, t.node + 1)]
                 ELSE [t EXCEPT !.phase = "done", !.node = 0]
    BY <1>1, <1>9 DEF DeleteUser, Step
  <2>2. u.item = t.item /\ u.phase \in {"drop", "done"}  BY <2>1 DEF Tasks
  <2>3. t.item.action = "DELETE"  BY <1>3, <2>1 DEF Shape
  <2>4. \A d \in dbs[0][t.item.req] : Past(t, d)
    BY <1>1, <1>2, <2>1, <2>3 DEF Past
  <2> QED  BY <2>1, <2>2, <2>4, StillOnMaster DEF Loop
<1> QED  BY <1>4, <1>5, <1>6, <1>7, <1>8, <1>9

\* A statement of either goroutine makes only databases that something will take away
\* again if the object does not list them, or the overtaking is noted.
LEMMA StatementFollowed ==
    ASSUME TypeInv, DanglingInv, RInv, PInv, NEW p \in Procs, Statement(p)
    PROVE  PInv'
<1>1. PICK t : t = task[p]  OBVIOUS
<1>2. t \in Tasks /\ t.phase # "idle" /\ t.item \in Items /\ t.item.req \in Requests
  BY <1>1, StatementBusy, TaskType
<1>3. Book /\ Loop(t)  BY <1>1 DEF RInv, PInv
<1>4. PICK u \in Tasks : Step(p, u) /\ Effect(t, u)
  BY <1>1, <1>2, <1>3, StatementEffect
<1>5. /\ task' = [task EXCEPT ![p] = u] /\ excuse' = Overtaken(p)
      /\ UNCHANGED <<gen, api, known, watch, queue, delayed, notify, replay, applied,
                     crashes, relists, recreates>>
  BY <1>4 DEF Step, api_vars, inf_vars, cnt_vars
<1>6. task'[p] = u /\ \A q \in Procs : q # p => task'[q] = task[q]
  BY <1>5 DEF TypeInv, TypeOK
<1>7. u.item = t.item /\ u.phase # "idle"  BY <1>4 DEF Effect
<1>8. OnMaster(t, u)
  BY <1>1, <1>2, <1>3, <1>6, MakingOnMaster, DroppingOnMaster DEF Statement
<1>9. Held' = Held /\ \A r \in Requests : Watched(r)' = Watched(r)
  BY <1>5 DEF Held, Watched, SeqRange
<1>10. \A q \in Procs : /\ Running(q)' <=> Running(q)
                        /\ task'[q].item = task[q].item
  BY <1>1, <1>2, <1>6, <1>7 DEF Running
<1>11. \A r \in Requests : /\ Taken(r)' = Taken(r) /\ Alive(r)' = Alive(r)
                           /\ Replayed(r)' = Replayed(r)
                           /\ \A q \in Procs : RunsOn(q, r)' <=> RunsOn(q, r)
  <2> SUFFICES ASSUME NEW r \in Requests
               PROVE  /\ Taken(r)' = Taken(r) /\ Alive(r)' = Alive(r)
                      /\ Replayed(r)' = Replayed(r)
                      /\ \A q \in Procs : RunsOn(q, r)' <=> RunsOn(q, r)
    OBVIOUS
  <2>1. \A q \in Procs : RunsOn(q, r)' <=> RunsOn(q, r)  BY <1>10 DEF RunsOn
  <2>2. Active(r)' = Active(r)  BY <1>10, <2>1 DEF Active
  <2>3. Replayed(r)' = Replayed(r)  BY <1>5, <1>10, <2>1 DEF Replayed
  <2>4. Taken(r)' = Taken(r)  BY <1>9, <2>2 DEF Taken
  <2> QED  BY <1>9, <2>1, <2>3, <2>4 DEF Alive
<1>12. InLine'
  <2>1. InLine  BY DEF PInv
  <2> QED  BY <1>5, <1>9, <1>10, <2>1 DEF InLine, Line, Lined, SeqRange
<1>13. \A q \in Procs : Loop(task[q])'
  <2>1. \A q \in Procs : Loop(task'[q])  BY <1>6, <1>8 DEF PInv, OnMaster
  <2> QED  BY <2>1 DEF Loop
<1>14. \A r \in Requests : excuse[r] \subseteq excuse'[r]
  BY <1>5 DEF Overtaken, TypeInv, TypeOK
<1>15. \A r \in Requests : Excused(r) => Excused(r)'
  BY <1>5, <1>14, StillExcused
<1>16. ASSUME NEW r \in Requests, r # t.item.req  PROVE Followed(r)'
  <2>1. SamePg(r)  BY <1>4, <1>16 DEF Effect
  <2>2. dbs'[0][r] = dbs[0][r]  BY <2>1, ReplicasAssumption DEF SamePg, Nodes
  <2>3. RunsOn("worker", r)' => RunsOn("worker", r) /\ task'["worker"] = task["worker"]
    BY <1>1, <1>6, <1>7, <1>11, <1>16 DEF RunsOn
  <2> QED  BY <1>5, <1>11, <1>14, <1>15, <2>2, <2>3, Untouched DEF PInv
<1>17. ASSUME NEW r \in Requests, r = t.item.req  PROVE Followed(r)'
  <2>1. Followed(r) /\ Settled(r)  BY DEF PInv, RInv
  <2>2. /\ \A i \in Alive(r) : i.ver \in Nat
        /\ applied[r] \in Nat /\ Taken(r) \subseteq Alive(r)
        /\ RunsOn("worker", r) => task["worker"].item \in Taken(r)
    BY <1>3, OnTheWay
  <2>3. t.item.ver \in Nat  BY <1>2 DEF Items
  <2>4. ASSUME ~Excused(r)', NEW d \in dbs'[0][r]  PROVE Fate(r, d)'
    <3>1. ~Excused(r)  BY <1>15, <2>4
    <3>2. CASE d \in dbs[0][r]
      <4>1. Fate(r, d)  BY <2>1, <3>1, <3>2 DEF Followed, Doomed
      <4>2. Kills(t.item, d) /\ Past(u, d) => Past(t, d)
        BY <1>8, <1>17, <2>4 DEF OnMaster
      <4>3. RunsOn("worker", r)' =>
               /\ RunsOn("worker", r) /\ task'["worker"].item = task["worker"].item
               /\ Kills(task["worker"].item, d) /\ Past(task'["worker"], d) =>
                    Past(task["worker"], d)
        BY <1>1, <1>6, <1>10, <1>11, <4>2
      <4> QED  BY <1>5, <1>11, <4>1, <4>3, KeepFate
    <3>3. CASE d \notin dbs[0][r]
      <4>1. d \in t.item.dbs /\ t.item.action # "DELETE"
        BY <1>8, <1>17, <2>4, <3>3 DEF OnMaster
      <4>2. "overtaken" \notin excuse'[r]  BY <2>4 DEF Excused
      <4>3. "overtaken" \notin excuse[r]  BY <1>14, <4>2
      <4>4. /\ t.item.ver >= applied[r] /\ t.item \in Alive(r) \cup Replayed(r)
            /\ RunsOn("worker", r) => task["worker"].item.ver <= t.item.ver
        <5>1. CASE p = "worker"
          <6>1. RunsOn("worker", r) /\ task["worker"].item = t.item
            BY <1>1, <1>2, <1>17, <5>1 DEF RunsOn, Running
          <6>2. t.item.ver >= applied[r]  BY <2>1, <4>3, <6>1 DEF Settled, InOrder
          <6> QED  BY <2>2, <2>3, <6>1, <6>2
        <5>2. CASE p = "recreate"
          <6>1. RunsOn("recreate", r) /\ task["recreate"].item = t.item
            BY <1>1, <1>2, <1>17, <5>2 DEF RunsOn, Running
          <6>2. t.item \in Replayed(r)  BY <6>1 DEF Replayed
          <6>3. ~(Stale(t.item) \/ (RunsOn("worker", r) /\ task["worker"].item.ver > t.item.ver))
            BY <1>1, <1>5, <1>17, <4>2, <5>2 DEF Overtaken, TypeInv, TypeOK
          <6>4. RunsOn("worker", r) => task["worker"].item.ver \in Nat  BY <2>2
          <6> QED  BY <1>17, <2>2, <2>3, <6>2, <6>3, <6>4 DEF Stale
        <5> QED  BY <5>1, <5>2
      <4>5. ASSUME NEW k \in Alive(r), Kills(k, d), k.ver > t.item.ver
            PROVE  Awaits(r, k, d)'
        <5>1. k.ver \in Nat /\ k.ver > applied'[r] /\ Kills(k, d)'
          BY <1>5, <2>2, <2>3, <4>4, <4>5 DEF Kills
        <5>2. RunsOn("worker", r)' => k.ver > task'["worker"].item.ver
          BY <1>10, <1>11, <2>2, <2>3, <4>4, <4>5
        <5> QED  BY <5>1, <5>2 DEF Awaits
      <4>6. ASSUME d \notin api'[r].dbs  PROVE \E k \in Alive(r)' : Awaits(r, k, d)'
        <5>1. \E k \in Alive(r) : Kills(k, d) /\ k.ver > t.item.ver
          BY <1>5, <2>1, <3>1, <4>1, <4>4, <4>6 DEF Followed, Undone
        <5> QED  BY <1>11, <4>5, <5>1
      <4>7. ASSUME crashes' = 0, recreates' = 0, known'[r] = Absent
            PROVE  \E e \in Taken(r)' : e.action = "DELETE" /\ Awaits(r, e, d)'
        <5>1. p = "worker"
          BY <1>1, <1>2, <1>5, <4>7 DEF DanglingInv, Sequential
        <5>2. t.item \in Taken(r)
          BY <1>1, <1>2, <1>17, <2>2, <5>1 DEF RunsOn, Running
        <5>3. PICK e \in Taken(r) : e.action = "DELETE" /\ e.ver >= t.item.ver
          BY <1>5, <2>1, <2>2, <2>3, <4>4, <4>7, <5>2 DEF Followed, Closed
        <5>4. e.ver # t.item.ver  BY <2>1, <2>2, <4>1, <5>2, <5>3 DEF Followed, Ranked
        <5>5. e \in Alive(r) /\ Kills(e, d) /\ e.ver > t.item.ver
          BY <2>2, <2>3, <5>3, <5>4 DEF Kills
        <5> QED  BY <1>11, <4>5, <5>3, <5>5
      <4> QED  BY <4>6, <4>7 DEF Fate
    <3> QED  BY <3>2, <3>3
  <2>5. Doomed(r)'  BY <2>4 DEF Doomed
  <2> QED  BY <1>5, <1>11, <1>14, <1>15, <2>1, <2>5, KeepFollowed
<1> QED  BY <1>12, <1>13, <1>16, <1>17 DEF PInv

----------------------------------------------------------------------------
(* The queue and the worker.                                               *)

\* What InLine says of the next state.
LEMMA InLineNext ==
    ASSUME Line(queue'), Line(delayed'),
           \A x \in SeqRange(delayed') : /\ x.action # "DELETE"
                                         /\ \A y \in SeqRange(queue') : Lined(x, y),
           Running("worker")' =>
               \A y \in SeqRange(queue') \cup SeqRange(delayed') : Lined(task'["worker"].item, y)
    PROVE  InLine'
<1>1. Line(queue)' /\ Line(delayed)'  BY DEF Line, Lined
<1>2. SeqRange(queue)' = SeqRange(queue') /\ SeqRange(delayed)' = SeqRange(delayed')
  BY DEF SeqRange
<1>3. Held' = SeqRange(queue') \cup SeqRange(delayed')  BY <1>2 DEF Held
<1>4. \A x, y : Lined(x, y)' <=> Lined(x, y)  BY DEF Lined
<1>5. \A y : Lined(task["worker"].item, y)' <=> Lined(task'["worker"].item, y)  BY DEF Lined
<1> QED  BY <1>1, <1>2, <1>3, <1>4, <1>5 DEF InLine

\* What goes before something other than a deletion may also come after it.
LEMMA LinedBack ==
    ASSUME NEW x, NEW y, Lined(x, y), x.action # "DELETE"
    PROVE  Lined(y, x)
BY DEF Lined

\* A task at its start or idle is at no loop and past nothing.
LEMMA StartLoop ==
    ASSUME NEW i \in Items
    PROVE  Loop(Start(i)) /\ Loop(Idle) /\ \A d : ~Past(Start(i), d)
<1>1. Start(i).phase = "handler" /\ Idle.phase = "idle"  BY StartFields
<1>2. Start(i).node = 0  BY DEF Start, Idle
<1> QED  BY <1>1, <1>2 DEF Loop, Past

\* The delay is over: the item joins the queue, behind items of other versions.
LEMMA RequeueFollowed ==
    ASSUME TypeInv, RInv, PInv, Requeue
    PROVE  PInv'
<1>1. PICK e : e = Head(delayed)  OBVIOUS
<1>2. /\ delayed # <<>> /\ queue' = Append(queue, e) /\ delayed' = Tail(delayed)
      /\ UNCHANGED <<gen, api, known, watch, task, replay, applied, excuse, dbs,
                     crashes, relists, recreates>>
  BY <1>1 DEF Requeue, api_vars, inf_vars, pg_vars, cnt_vars, hist_vars
<1>3. delayed \in Seq(Items) /\ queue \in Seq(Items)  BY DEF TypeInv, TypeOK
<1>4. /\ e \in Items /\ e \in SeqRange(delayed)
      /\ SeqRange(delayed) = SeqRange(delayed') \cup {e}
  <2>1. Head(delayed) \in Items  BY <1>2, <1>3
  <2> QED  BY <1>1, <1>2, <1>3, <2>1, RangeOf
<1>5. SeqRange(queue') = SeqRange(queue) \cup {e}  BY <1>2, <1>3, <1>4, RangeOf
<1>6. Held' = Held
  <2>1. Held' = SeqRange(queue') \cup SeqRange(delayed')  BY DEF Held, SeqRange
  <2> QED  BY <1>4, <1>5, <2>1 DEF Held
<1>7. InLine'
  <2>1. InLine  BY DEF PInv
  <2>2. /\ e.action # "DELETE" /\ \A y \in SeqRange(queue) : Lined(e, y) /\ Lined(y, e)
    BY <1>4, <2>1, LinedBack DEF InLine
  <2>3. Line(queue')  BY <1>2, <1>3, <1>4, <2>1, <2>2, LineOf DEF InLine
  <2>4. Line(delayed') /\ \A y \in SeqRange(delayed') : Lined(e, y)
    BY <1>1, <1>2, <1>3, <1>4, <2>1, LineOf DEF InLine
  <2>5. ASSUME NEW x \in SeqRange(delayed')
        PROVE  x.action # "DELETE" /\ \A y \in SeqRange(queue') : Lined(x, y)
    <3>1. x \in SeqRange(delayed)  BY <1>4
    <3>2. Lined(x, e)  BY <2>2, <2>4, LinedBack
    <3> QED  BY <1>5, <2>1, <3>1, <3>2 DEF InLine
  <2>6. Running("worker")' =>
          \A y \in SeqRange(queue') \cup SeqRange(delayed') : Lined(task'["worker"].item, y)
    BY <1>2, <1>4, <1>5, <2>1 DEF InLine, Running, Held
  <2> QED  BY <2>3, <2>4, <2>5, <2>6, InLineNext
<1>8. \A p \in Procs : Loop(task[p])'  BY <1>2 DEF PInv, Loop
<1>9. ASSUME NEW r \in Requests  PROVE Followed(r)'
  <2>1. Taken(r)' = Taken(r) /\ Replayed(r)' = Replayed(r)
    BY <1>2, <1>6 DEF Taken, Active, Replayed, RunsOn, Running
  <2>2. RunsOn("worker", r)' => RunsOn("worker", r) /\ task'["worker"] = task["worker"]
    BY <1>2 DEF RunsOn, Running
  <2>3. Excused(r) => Excused(r)'  BY <1>2 DEF Excused
  <2> QED  BY <1>2, <2>1, <2>2, <2>3, Untouched DEF PInv
<1> QED  BY <1>7, <1>8, <1>9 DEF PInv

\* A failed item goes back to the queue, or is run again from its start.
LEMMA WorkerErrorFollowed ==
    ASSUME TypeInv, RInv, PInv, WorkerError
    PROVE  PInv'
<1>1. PICK m : m = task["worker"].item  OBVIOUS
<1>2. /\ Running("worker")
      /\ task' = [task EXCEPT !["worker"] = IF m.action # "DELETE" THEN Idle ELSE Start(m)]
      /\ delayed' = IF m.action # "DELETE" THEN Append(delayed, m) ELSE delayed
      /\ UNCHANGED <<gen, api, known, watch, queue, replay, applied, excuse, dbs,
                     crashes, relists, recreates>>
  BY <1>1 DEF WorkerError, Failing, Running, AfterError, api_vars, inf_vars, pg_vars,
              hist_vars
<1>3. delayed \in Seq(Items) /\ queue \in Seq(Items)  BY DEF TypeInv, TypeOK
<1>4. m \in Items  BY <1>1, <1>2, TaskType DEF Running
<1>5. /\ task'["worker"] = (IF m.action # "DELETE" THEN Idle ELSE Start(m))
      /\ task'["recreate"] = task["recreate"]
      /\ Idle.phase = "idle" /\ Start(m).phase = "handler" /\ Start(m).item = m
  BY <1>2, <1>4, StartFields DEF TypeInv, TypeOK
<1>6. SeqRange(delayed') = IF m.action # "DELETE" THEN SeqRange(delayed) \cup {m}
                           ELSE SeqRange(delayed)
  <2>1. SeqRange(Append(delayed, m)) = SeqRange(delayed) \cup {m}
    BY <1>3, <1>4, RangeOf
  <2> QED  BY <1>2, <2>1
<1>7. Held' = IF m.action # "DELETE" THEN Held \cup {m} ELSE Held
  <2>1. Held' = SeqRange(queue) \cup SeqRange(delayed')  BY <1>2 DEF Held, SeqRange
  <2> QED  BY <1>6, <2>1 DEF Held
<1>8. InLine'
  <2>1. InLine /\ \A y \in Held : Lined(m, y)  BY <1>1, <1>2 DEF PInv, InLine
  <2>2. CASE m.action # "DELETE"
    <3>1. \A x \in SeqRange(delayed) : Lined(x, m)  BY <2>1, <2>2, LinedBack DEF Held
    <3>2. Line(delayed')  BY <1>2, <1>3, <1>4, <2>1, <2>2, <3>1, LineOf DEF InLine
    <3>3. Line(queue')  BY <1>2, <2>1 DEF InLine
    <3>4. \A x \in SeqRange(delayed') : /\ x.action # "DELETE"
                                        /\ \A y \in SeqRange(queue') : Lined(x, y)
      BY <1>2, <1>6, <2>1, <2>2 DEF InLine, Held
    <3>5. ~Running("worker")'  BY <1>5, <2>2 DEF Running
    <3> QED  BY <3>2, <3>3, <3>4, <3>5, InLineNext
  <2>3. CASE m.action = "DELETE"
    <3>1. task'["worker"].item = m /\ delayed' = delayed  BY <1>2, <1>5, <2>3
    <3>2. /\ Line(delayed') /\ Line(queue')
          /\ \A x \in SeqRange(delayed') : /\ x.action # "DELETE"
                                           /\ \A y \in SeqRange(queue') : Lined(x, y)
          /\ \A y \in SeqRange(queue') \cup SeqRange(delayed') : Lined(task'["worker"].item, y)
      BY <1>2, <2>1, <3>1 DEF InLine, Held
    <3> QED  BY <3>2, InLineNext
  <2> QED  BY <2>2, <2>3
<1>9. \A p \in Procs : Loop(task[p])'
  <2>1. \A p \in Procs : Loop(task'[p])  BY <1>4, <1>5, StartLoop DEF PInv
  <2> QED  BY <2>1 DEF Loop
<1>10. ASSUME NEW r \in Requests  PROVE Followed(r)'
  <2>1. Replayed(r)' = Replayed(r)  BY <1>2, <1>5 DEF Replayed, RunsOn, Running
  <2>2. Active(r) = {i \in {m} : i.req = r}  BY <1>1, <1>2 DEF Active, RunsOn
  <2>3. Active(r)' = IF m.action # "DELETE" THEN {} ELSE {i \in {m} : i.req = r}
    BY <1>5 DEF Active, RunsOn, Running
  <2>4. Taken(r)' = Taken(r)  BY <1>7, <2>2, <2>3 DEF Taken
  <2>5. Alive(r)' = Alive(r)  BY <1>2, <2>4 DEF Alive, Watched, SeqRange
  <2>6. Excused(r) => Excused(r)'  BY <1>2 DEF Excused
  <2>7. RunsOn("worker", r)' => /\ RunsOn("worker", r)
                                /\ task'["worker"].item = task["worker"].item
                                /\ \A d : ~Past(task'["worker"], d)
    BY <1>1, <1>2, <1>4, <1>5, StartLoop DEF RunsOn, Running
  <2>8. Followed(r)  BY DEF PInv
  <2>9. Doomed(r)'
    <3> SUFFICES ASSUME ~Excused(r)', NEW d \in dbs'[0][r]  PROVE Fate(r, d)'
      BY DEF Doomed
    <3>1. Fate(r, d)  BY <1>2, <2>6, <2>8 DEF Followed, Doomed
    <3> QED  BY <1>2, <2>4, <2>5, <2>7, <3>1, KeepFate
  <2> QED  BY <1>2, <2>1, <2>4, <2>6, <2>8, <2>9, KeepFollowed
<1> QED  BY <1>8, <1>9, <1>10 DEF PInv

\* The worker takes an item: what is behind it in the queue will come after it, and a
\* deletion is never behind a later creation.
LEMMA GetFollowed ==
    ASSUME TypeInv, RInv, PInv, Get
    PROVE  PInv'
<1>1. PICK m : m = Head(queue)  OBVIOUS
<1>2. /\ ~Running("worker") /\ queue # <<>> /\ queue' = Tail(queue)
      /\ task' = [task EXCEPT !["worker"] = Start(m)]
      /\ excuse' = [excuse EXCEPT ![m.req] = IF Stale(m) THEN @ \cup {"overtaken"} ELSE @]
      /\ UNCHANGED <<gen, api, known, watch, delayed, replay, applied, dbs,
                     crashes, relists, recreates>>
  BY <1>1 DEF Get, api_vars, inf_vars, pg_vars, cnt_vars
<1>3. delayed \in Seq(Items) /\ queue \in Seq(Items)  BY DEF TypeInv, TypeOK
<1>4. /\ m \in Items /\ m \in SeqRange(queue) /\ SeqRange(queue) = SeqRange(queue') \cup {m}
  <2>1. Head(queue) \in Items  BY <1>2, <1>3
  <2> QED  BY <1>1, <1>2, <1>3, <2>1, RangeOf
<1>5. Held = Held' \cup {m} /\ Held' = SeqRange(queue') \cup SeqRange(delayed)
  <2>1. Held' = SeqRange(queue') \cup SeqRange(delayed)  BY <1>2 DEF Held, SeqRange
  <2> QED  BY <1>4, <2>1 DEF Held
<1>6. /\ task'["worker"] = Start(m) /\ task'["recreate"] = task["recreate"]
      /\ Start(m).phase = "handler" /\ Start(m).item = m /\ m.req \in Requests
      /\ \A d : ~Past(Start(m), d)
  BY <1>2, <1>4, StartFields, StartLoop DEF TypeInv, TypeOK, Items
<1>7. \A r \in Requests : excuse[r] \subseteq excuse'[r]
  BY <1>2, <1>6 DEF TypeInv, TypeOK
<1>8. InLine  BY DEF PInv
<1>9. Line(queue') /\ \A y \in SeqRange(queue') : Lined(m, y)
  BY <1>1, <1>2, <1>3, <1>4, <1>8, LineOf DEF InLine
<1>10. InLine'
  <2>1. \A x \in SeqRange(delayed) : Lined(m, x)  BY <1>4, <1>8, LinedBack DEF InLine
  <2>2. \A y \in SeqRange(queue') \cup SeqRange(delayed') : Lined(task'["worker"].item, y)
    BY <1>2, <1>6, <1>9, <2>1
  <2>3. /\ Line(delayed')
        /\ \A x \in SeqRange(delayed') : /\ x.action # "DELETE"
                                         /\ \A y \in SeqRange(queue') : Lined(x, y)
    BY <1>2, <1>4, <1>8 DEF InLine
  <2> QED  BY <1>9, <2>2, <2>3, InLineNext
<1>11. \A p \in Procs : Loop(task[p])'
  <2>1. \A p \in Procs : Loop(task'[p])  BY <1>4, <1>6, StartLoop DEF PInv
  <2> QED  BY <2>1 DEF Loop
<1>12. ASSUME NEW r \in Requests
       PROVE  /\ Taken(r)' = Taken(r) /\ Alive(r)' = Alive(r) /\ Replayed(r)' = Replayed(r)
              /\ Excused(r) => Excused(r)'
              /\ ~RunsOn("worker", r) /\ (RunsOn("worker", r)' <=> m.req = r)
  <2>1. ~RunsOn("worker", r) /\ (RunsOn("worker", r)' <=> m.req = r)
    BY <1>2, <1>6 DEF RunsOn, Running
  <2>2. Active(r) = {} /\ Active(r)' = {i \in {m} : i.req = r}
    BY <1>6, <2>1 DEF Active
  <2>3. Taken(r)' = Taken(r)  BY <1>5, <2>2 DEF Taken
  <2>4. Alive(r)' = Alive(r)  BY <1>2, <2>3 DEF Alive, Watched, SeqRange
  <2>5. Replayed(r)' = Replayed(r)  BY <1>2, <1>6 DEF Replayed, RunsOn, Running
  <2>6. Excused(r) => Excused(r)'  BY <1>2, <1>7, StillExcused
  <2> QED  BY <2>1, <2>3, <2>4, <2>5, <2>6
<1>13. ASSUME NEW r \in Requests, r # m.req  PROVE Followed(r)'
  <2>1. ~RunsOn("worker", r)'  BY <1>12, <1>13
  <2> QED  BY <1>2, <1>7, <1>12, <2>1, Untouched DEF PInv
<1>14. ASSUME NEW r \in Requests, r = m.req  PROVE Followed(r)'
  <2>1. Followed(r) /\ Book  BY DEF PInv, RInv
  <2>2. /\ \A i \in Alive(r) : i \in Items /\ i.req = r /\ i.ver \in Nat
        /\ applied[r] \in Nat /\ Taken(r) \subseteq Alive(r)
    BY <2>1, OnTheWay
  <2>3. m \in Taken(r) /\ m \in Alive(r)  BY <1>5, <1>14, <2>2 DEF Taken
  <2>4. ASSUME NEW k \in Alive(r), NEW d, Kills(k, d),
               k.ver > applied[r], k.ver > m.ver \/ k = m
        PROVE  Awaits(r, k, d)'
    <3>1. Kills(k, d)' /\ k.ver > applied'[r]  BY <1>2, <2>4 DEF Kills
    <3>2. k.ver > task'["worker"].item.ver \/ (k = task'["worker"].item /\ ~Past(task["worker"], d)')
      BY <1>6, <2>4 DEF Past
    <3> QED  BY <3>1, <3>2 DEF Awaits
  <2>5. \A e \in Alive(r) : e.action = "DELETE" /\ e.ver < m.ver => m.action # "ADD"
    <3> SUFFICES ASSUME NEW e \in Alive(r), e.action = "DELETE", e.ver < m.ver,
                        m.action = "ADD"
                 PROVE  FALSE
      OBVIOUS
    <3>1. e \notin Watched(r)  BY <2>1, <2>2, <2>3 DEF Followed, Ranked
    <3>2. e \in Held  BY <1>12, <3>1 DEF Alive, Taken, Active
    <3>3. e \notin SeqRange(delayed)  BY <1>8 DEF InLine
    <3>4. e \in SeqRange(queue') /\ e.req = m.req  BY <1>4, <1>14, <2>2, <3>2, <3>3 DEF Held
    <3>5. Lined(m, e)  BY <1>9, <3>4
    <3> QED  BY <2>2, <2>3, <3>4, <3>5 DEF Lined
  <2>6. ASSUME ~Excused(r)', NEW d \in dbs'[0][r]  PROVE Fate(r, d)'
    <3>1. ~Excused(r) /\ "lost" \notin excuse[r]  BY <1>12, <2>6 DEF Excused
    <3>2. Fate(r, d)  BY <1>2, <2>1, <2>6, <3>1 DEF Followed, Doomed
    <3>3. ASSUME d \notin api'[r].dbs  PROVE \E k \in Alive(r)' : Awaits(r, k, d)'
      <4>1. PICK k \in Alive(r) : Kills(k, d) /\ k.ver > applied[r]
        BY <1>2, <3>2, <3>3 DEF Fate, Awaits
      <4>2. CASE k.ver > m.ver  BY <1>12, <2>4, <4>1, <4>2
      <4>3. CASE k.ver = m.ver
        <5>1. k = m  BY <2>1, <2>3, <4>3 DEF Followed, Ranked
        <5> QED  BY <1>12, <2>4, <4>1, <5>1
      <4>4. CASE k.ver < m.ver
        <5>1. m.ver > applied[r]  BY <2>2, <2>3, <4>1, <4>4
        <5>2. CASE Kills(m, d)  BY <1>12, <2>3, <2>4, <5>1, <5>2
        <5>3. CASE ~Kills(m, d) /\ d \in m.dbs
          <6>1. m.action # "DELETE"  BY <5>3 DEF Kills
          <6>2. m.ver >= applied[r]  BY <2>2, <2>3, <5>1
          <6>3. PICK x \in Alive(r) : Kills(x, d) /\ x.ver > m.ver
            BY <1>2, <2>1, <2>3, <3>1, <3>3, <5>3, <6>1, <6>2 DEF Followed, Undone
          <6>4. x.ver > applied[r]  BY <2>2, <2>3, <5>1, <6>3
          <6> QED  BY <1>12, <2>4, <6>3, <6>4
        <5>4. CASE ~Kills(m, d) /\ d \notin m.dbs
          <6>1. m.action = "ADD"  BY <1>4, <5>4 DEF Kills, Items
          <6>2. k.action # "ADD"  BY <4>1 DEF Kills
          <6>3. applied[r] < k.ver  BY <2>2, <4>1
          <6>4. \E e \in Alive(r) : e.action = "DELETE" /\ e.ver < m.ver
            BY <2>1, <2>3, <3>1, <4>4, <6>1, <6>2, <6>3 DEF Followed, Parted
          <6> QED  BY <2>5, <6>1, <6>4
        <5> QED  BY <5>2, <5>3, <5>4
      <4> QED  BY <2>2, <2>3, <4>2, <4>3, <4>4
    <3>4. ASSUME crashes' = 0, recreates' = 0, known'[r] = Absent
          PROVE  \E e \in Taken(r)' : e.action = "DELETE" /\ Awaits(r, e, d)'
      <4>1. PICK e \in Taken(r) : e.action = "DELETE" /\ e.ver > applied[r]
        BY <1>2, <3>2, <3>4 DEF Fate, Awaits
      <4>2. \A x \in Taken(r) : x.action = "DELETE" => x \in Alive(r) /\ Kills(x, d)
        BY <2>2 DEF Kills
      <4>3. CASE e.ver > m.ver  BY <1>12, <2>4, <4>1, <4>2, <4>3
      <4>4. CASE e.ver = m.ver
        <5>1. e = m  BY <2>1, <2>2, <2>3, <4>4 DEF Followed, Ranked
        <5> QED  BY <1>12, <2>4, <4>1, <4>2, <5>1
      <4>5. CASE e.ver < m.ver
        <5>1. m.ver > applied[r]  BY <2>2, <2>3, <4>1, <4>5
        <5>2. PICK x \in Taken(r) : x.action = "DELETE" /\ x.ver >= m.ver
          BY <1>2, <2>1, <2>2, <2>3, <3>4, <5>1 DEF Followed, Closed
        <5>3. x.ver > m.ver \/ x = m
          BY <2>1, <2>2, <2>3, <5>2 DEF Followed, Ranked
        <5>4. x.ver > applied[r]  BY <2>2, <2>3, <5>1, <5>2
        <5> QED  BY <1>12, <2>4, <4>2, <5>2, <5>3, <5>4
      <4> QED  BY <2>2, <2>3, <4>3, <4>4, <4>5
    <3> QED  BY <3>3, <3>4 DEF Fate
  <2>7. Doomed(r)'  BY <2>6 DEF Doomed
  <2> QED  BY <1>2, <1>7, <1>12, <2>1, <2>7, KeepFollowed
<1> QED  BY <1>10, <1>11, <1>13, <1>14 DEF PInv

\* The worker is done with an item: what was to come after it still is.
LEMMA ForgetFollowed ==
    ASSUME TypeInv, RInv, PInv, Forget
    PROVE  PInv'
<1>1. PICK m : m = task["worker"].item  OBVIOUS
<1>2. /\ task["worker"].phase = "done"
      /\ task' = [task EXCEPT !["worker"] = Idle]
      /\ applied' = [applied EXCEPT ![m.req] = IF m.ver > @ THEN m.ver ELSE @]
      /\ UNCHANGED <<gen, api, known, watch, queue, delayed, replay, excuse, dbs,
                     crashes, relists, recreates>>
  BY <1>1 DEF Forget, api_vars, inf_vars, pg_vars, cnt_vars
<1>3. m \in Items /\ m.req \in Requests /\ m.ver \in Nat /\ Running("worker")
  <2>1. m \in Items  BY <1>1, <1>2, TaskType
  <2> QED  BY <1>2, <2>1 DEF Items, Running
<1>4. /\ task'["worker"] = Idle /\ task'["recreate"] = task["recreate"]
      /\ Idle.phase = "idle" /\ ~Running("worker")'
  <2>1. Idle.phase = "idle"  BY DEF Idle
  <2>2. task'["worker"] = Idle /\ task'["recreate"] = task["recreate"]
    BY <1>2 DEF TypeInv, TypeOK
  <2> QED  BY <2>1, <2>2 DEF Running
<1>5. Held' = Held  BY <1>2 DEF Held, SeqRange
<1>6. InLine /\ \A y \in Held : Lined(m, y)  BY <1>1, <1>3 DEF PInv, InLine
<1>7. InLine'
  <2>1. /\ Line(queue') /\ Line(delayed')
        /\ \A x \in SeqRange(delayed') : /\ x.action # "DELETE"
                                         /\ \A y \in SeqRange(queue') : Lined(x, y)
    BY <1>2, <1>6 DEF InLine
  <2> QED  BY <1>4, <2>1, InLineNext
<1>8. \A p \in Procs : Loop(task[p])'
  <2>1. \A p \in Procs : Loop(task'[p])  BY <1>3, <1>4, StartLoop DEF PInv
  <2> QED  BY <2>1 DEF Loop
<1>9. ASSUME NEW r \in Requests
      PROVE  /\ Replayed(r)' = Replayed(r) /\ Watched(r)' = Watched(r)
             /\ ~RunsOn("worker", r)' /\ (RunsOn("worker", r) <=> m.req = r)
             /\ Taken(r)' = {i \in Held : i.req = r}
             /\ Taken(r) = Taken(r)' \cup {i \in {m} : i.req = r}
             /\ Excused(r)' <=> Excused(r)
  <2>1. Replayed(r)' = Replayed(r)  BY <1>2, <1>4 DEF Replayed, RunsOn, Running
  <2>2. Watched(r)' = Watched(r)  BY <1>2 DEF Watched, SeqRange
  <2>3. ~RunsOn("worker", r)' /\ (RunsOn("worker", r) <=> m.req = r)
    BY <1>1, <1>3, <1>4 DEF RunsOn
  <2>4. Active(r)' = {} /\ Active(r) = {i \in {m} : i.req = r}
    BY <1>1, <2>3 DEF Active
  <2>5. Taken(r)' = {i \in Held : i.req = r}  BY <1>5, <2>4 DEF Taken
  <2>6. Taken(r) = Taken(r)' \cup {i \in {m} : i.req = r}  BY <2>4, <2>5 DEF Taken
  <2>7. Excused(r)' <=> Excused(r)  BY <1>2 DEF Excused
  <2> QED  BY <2>1, <2>2, <2>3, <2>5, <2>6, <2>7
<1>10. ASSUME NEW r \in Requests, r # m.req  PROVE Followed(r)'
  <2>1. Taken(r)' = Taken(r)  BY <1>9, <1>10
  <2>2. applied'[r] = applied[r]  BY <1>2, <1>10 DEF TypeInv, TypeOK
  <2> QED  BY <1>2, <1>9, <2>1, <2>2, Untouched DEF PInv
<1>11. ASSUME NEW r \in Requests, r = m.req  PROVE Followed(r)'
  <2>1. Followed(r) /\ Book  BY DEF PInv, RInv
  <2>2. /\ \A i \in Alive(r) : i.ver \in Nat /\ i.req = r
        /\ \A i \in Replayed(r) : i.ver \in Nat
        /\ applied[r] \in Nat /\ Taken(r) \subseteq Alive(r) /\ Watched(r) \subseteq Alive(r)
    BY <2>1, OnTheWay
  <2>3. applied'[r] = IF m.ver > applied[r] THEN m.ver ELSE applied[r]
    BY <1>2, <1>11 DEF TypeInv, TypeOK
  <2>4. applied'[r] \in Nat /\ applied'[r] >= applied[r] /\ applied'[r] >= m.ver
    BY <1>3, <2>2, <2>3
  <2>5. /\ Taken(r) = Taken(r)' \cup {m} /\ \A i \in Taken(r)' : i.ver # m.ver
        /\ Alive(r) = Alive(r)' \cup {m} /\ m \in Taken(r)
    <3>1. Taken(r) = Taken(r)' \cup {m}  BY <1>9, <1>11
    <3>2. \A i \in Taken(r)' : i.ver # m.ver
      BY <1>6, <1>9, <1>11 DEF Lined
    <3>3. Alive(r) = Alive(r)' \cup {m}  BY <1>9, <3>1 DEF Alive
    <3> QED  BY <3>1, <3>2, <3>3
  <2>6. Ranked(r)'
    <3>1. Rising(watch[r])'  BY <1>2, <2>1 DEF Followed, Ranked, Rising
    <3>2. \A x \in Taken(r)', w \in Watched(r)' : x.ver < w.ver
      BY <1>9, <2>1, <2>5 DEF Followed, Ranked
    <3>3. ASSUME NEW w \in Watched(r)'
          PROVE  \/ w.ver > applied'[r]
                 \/ /\ w.ver = applied'[r] /\ w.action = "ADD"
                    /\ known'[r] = Absent /\ crashes' > 0
      <4>1. w \in Watched(r) /\ w.ver \in Nat /\ m.ver < w.ver
        BY <1>9, <2>1, <2>2, <2>5 DEF Followed, Ranked
      <4>2. \/ w.ver > applied[r]
            \/ w.ver = applied[r] /\ w.action = "ADD" /\ known[r] = Absent /\ crashes > 0
        BY <2>1, <4>1 DEF Followed, Ranked
      <4> QED  BY <1>2, <1>3, <2>2, <2>3, <4>1, <4>2
    <3>4. \A i, j \in Alive(r)' : i.ver = j.ver => i = j
      BY <2>1, <2>5 DEF Followed, Ranked
    <3>5. crashes' = 0 => \A i \in Taken(r)' : i.ver # applied'[r]
      BY <1>2, <2>1, <2>3, <2>5 DEF Followed, Ranked
    <3> QED  BY <3>1, <3>2, <3>3, <3>4, <3>5 DEF Ranked
  <2>7. Parted(r)'
    <3> SUFFICES ASSUME "lost" \notin excuse'[r], NEW k \in Alive(r)', NEW x \in Alive(r)',
                        k.action # "ADD", x.action = "ADD", applied'[r] < k.ver, k.ver < x.ver
                 PROVE  \E e \in Alive(r)' : e.action = "DELETE" /\ k.ver <= e.ver /\ e.ver < x.ver
      BY DEF Parted
    <3>1. k.ver \in Nat /\ applied[r] < k.ver  BY <2>2, <2>4, <2>5
    <3>2. PICK e \in Alive(r) : e.action = "DELETE" /\ k.ver <= e.ver /\ e.ver < x.ver
      BY <1>2, <2>1, <2>5, <3>1 DEF Followed, Parted
    <3>3. e # m  BY <1>3, <2>2, <2>4, <3>1, <3>2
    <3> QED  BY <2>5, <3>2, <3>3
  <2>8. Closed(r)'
    <3> SUFFICES ASSUME crashes' = 0, known'[r] = Absent, NEW i \in Taken(r)'
                 PROVE  \/ i.ver < applied'[r]
                        \/ \E e \in Taken(r)' : e.action = "DELETE" /\ e.ver >= i.ver
      BY DEF Closed
    <3>1. i \in Taken(r) /\ i.ver \in Nat /\ i.ver # m.ver  BY <2>2, <2>5
    <3>2. CASE i.ver < applied[r]  BY <2>2, <2>4, <3>1, <3>2
    <3>3. ASSUME NEW e \in Taken(r), e.action = "DELETE", e.ver >= i.ver
          PROVE  \/ i.ver < applied'[r]
                 \/ \E x \in Taken(r)' : x.action = "DELETE" /\ x.ver >= i.ver
      <4>1. CASE e = m  BY <1>3, <2>4, <3>1, <3>3, <4>1
      <4>2. CASE e # m  BY <2>5, <3>3, <4>2
      <4> QED  BY <4>1, <4>2
    <3> QED  BY <1>2, <2>1, <3>1, <3>2, <3>3 DEF Followed, Closed
  <2>9. Undone(r)'
    <3> SUFFICES ASSUME ~Excused(r)', NEW j \in Alive(r)' \cup Replayed(r)',
                        j.action # "DELETE", j.ver >= applied'[r],
                        NEW d \in j.dbs \ api'[r].dbs
                 PROVE  \E k \in Alive(r)' : Kills(k, d)' /\ k.ver > j.ver
      BY DEF Undone
    <3>1. j \in Alive(r) \cup Replayed(r) /\ j.ver \in Nat  BY <1>9, <2>2, <2>5
    <3>2. j.ver >= applied[r]  BY <2>2, <2>4, <3>1
    <3>3. PICK k \in Alive(r) : Kills(k, d) /\ k.ver > j.ver
      BY <1>2, <1>9, <2>1, <3>1, <3>2 DEF Followed, Undone
    <3>4. k # m  BY <1>3, <2>4, <3>1, <3>3
    <3>5. k \in Alive(r)' /\ Kills(k, d)'  BY <2>5, <3>3, <3>4 DEF Kills
    <3> QED  BY <3>3, <3>5
  <2>10. ASSUME NEW k \in Alive(r), NEW d, Awaits(r, k, d)
         PROVE  k # m /\ Awaits(r, k, d)'
    <3>1. Kills(k, d) /\ k.ver > applied[r] /\ k.ver \in Nat  BY <2>2, <2>10 DEF Awaits
    <3>2. Past(task["worker"], d)  BY <1>2 DEF Past
    <3>3. k.ver > m.ver  BY <1>1, <1>9, <1>11, <2>10, <3>2 DEF Awaits
    <3>4. k.ver > applied'[r] /\ Kills(k, d)'  BY <2>3, <3>1, <3>3 DEF Kills
    <3>5. ~RunsOn("worker", r)'  BY <1>9
    <3> QED  BY <1>3, <3>1, <3>3, <3>4, <3>5 DEF Awaits
  <2>11. Doomed(r)'
    <3> SUFFICES ASSUME ~Excused(r)', NEW d \in dbs'[0][r]  PROVE Fate(r, d)'
      BY DEF Doomed
    <3>1. Fate(r, d)  BY <1>2, <1>9, <2>1 DEF Followed, Doomed
    <3>2. d \notin api'[r].dbs => \E k \in Alive(r)' : Awaits(r, k, d)'
      BY <1>2, <2>5, <2>10, <3>1 DEF Fate
    <3>3. crashes' = 0 /\ recreates' = 0 /\ known'[r] = Absent =>
            \E e \in Taken(r)' : e.action = "DELETE" /\ Awaits(r, e, d)'
      BY <1>2, <2>2, <2>5, <2>10, <3>1 DEF Fate
    <3> QED  BY <3>2, <3>3 DEF Fate
  <2> QED  BY <2>6, <2>7, <2>8, <2>9, <2>11 DEF Followed
<1> QED  BY <1>7, <1>8, <1>10, <1>11 DEF PInv

\* The event handler moves an event to the queue, where it is the newest of its request.
LEMMA HandleEventFollowed ==
    ASSUME TypeInv, RInv, PInv, NEW q \in Requests, HandleEvent(q)
    PROVE  PInv'
<1>1. PICK e : e = Head(watch[q])  OBVIOUS
<1>2. /\ watch[q] # <<>> /\ queue' = Append(queue, e)
      /\ known' = [known EXCEPT ![q] = IF e.action = "DELETE" THEN Absent
                                       ELSE [ver |-> e.ver, dbs |-> e.dbs]]
      /\ watch' = [watch EXCEPT ![q] = Tail(@)]
      /\ UNCHANGED <<gen, api, delayed, task, replay, applied, excuse, dbs,
                     crashes, relists, recreates>>
  BY <1>1 DEF HandleEvent, api_vars, pg_vars, cnt_vars, hist_vars
<1>3. /\ watch \in [Requests -> Seq(Items)] /\ queue \in Seq(Items) /\ watch[q] \in Seq(Items)
      /\ watch'[q] = Tail(watch[q]) /\ \A r \in Requests : r # q => watch'[r] = watch[r]
      /\ \A r \in Requests : r # q => known'[r] = known[r]
      /\ known'[q] = IF e.action = "DELETE" THEN Absent ELSE [ver |-> e.ver, dbs |-> e.dbs]
  BY <1>2 DEF TypeInv, TypeOK
<1>4. Followed(q) /\ Book  BY DEF PInv, RInv
<1>5. /\ e \in Items /\ e \in Watched(q) /\ Watched(q) = SeqRange(Tail(watch[q])) \cup {e}
      /\ Rising(Tail(watch[q])) /\ \A y \in SeqRange(Tail(watch[q])) : e.ver < y.ver
  <2>1. Head(watch[q]) \in Items  BY <1>2, <1>3
  <2>2. Rising(watch[q])  BY <1>4 DEF Followed, Ranked
  <2> QED  BY <1>1, <1>2, <1>3, <2>1, <2>2, RangeOf, RisingOf DEF Watched
<1>6. Watched(q)' = SeqRange(Tail(watch[q]))  BY <1>3 DEF Watched, SeqRange
<1>7. SeqRange(queue') = SeqRange(queue) \cup {e}  BY <1>2, <1>3, <1>5, RangeOf
<1>8. Held' = Held \cup {e}
  <2>1. Held' = SeqRange(queue') \cup SeqRange(delayed)  BY <1>2 DEF Held, SeqRange
  <2> QED  BY <1>7, <2>1 DEF Held
<1>9. /\ \A i \in Alive(q) : i.ver \in Nat /\ i.req = q
      /\ applied[q] \in Nat /\ Taken(q) \subseteq Alive(q) /\ Watched(q) \subseteq Alive(q)
      /\ RunsOn("worker", q) => task["worker"].item \in Taken(q)
  BY <1>4, OnTheWay
<1>10. e.req = q /\ e.ver \in Nat /\ \A x \in Taken(q) : x.ver < e.ver
  BY <1>4, <1>5, <1>9 DEF Followed, Ranked
<1>11. InLine'
  <2>1. InLine  BY DEF PInv
  <2>2. \A x \in Held : Lined(x, e)
    <3> SUFFICES ASSUME NEW x \in Held, x.req = q
                 PROVE  x.ver # e.ver /\ x.ver < e.ver
      BY <1>10 DEF Lined
    <3>1. x \in Taken(q) /\ x.ver \in Nat  BY <1>9 DEF Taken
    <3> QED  BY <1>10, <3>1
  <2>3. Line(queue')  BY <1>2, <1>3, <1>5, <2>1, <2>2, LineOf DEF InLine, Held
  <2>4. /\ Line(delayed')
        /\ \A x \in SeqRange(delayed') : /\ x.action # "DELETE"
                                         /\ \A y \in SeqRange(queue') : Lined(x, y)
    BY <1>2, <1>7, <2>1, <2>2 DEF InLine, Held
  <2>5. ASSUME Running("worker")'
        PROVE  \A y \in SeqRange(queue') \cup SeqRange(delayed') : Lined(task'["worker"].item, y)
    <3>1. Running("worker") /\ task'["worker"] = task["worker"]  BY <1>2, <2>5 DEF Running
    <3>2. \A y \in Held : Lined(task["worker"].item, y)  BY <2>1, <3>1 DEF InLine
    <3>3. Lined(task["worker"].item, e)
      <4> SUFFICES ASSUME task["worker"].item.req = q
                   PROVE  /\ task["worker"].item.ver # e.ver
                          /\ task["worker"].item.ver < e.ver
        BY <1>10 DEF Lined
      <4>1. task["worker"].item \in Taken(q)  BY <1>9, <3>1 DEF RunsOn
      <4> QED  BY <1>9, <1>10, <4>1
    <3> QED  BY <1>2, <1>7, <3>1, <3>2, <3>3 DEF Held
  <2> QED  BY <2>3, <2>4, <2>5, InLineNext
<1>12. \A p \in Procs : Loop(task[p])'  BY <1>2 DEF PInv, Loop
<1>13. ASSUME NEW r \in Requests
       PROVE  /\ Taken(r)' = Taken(r) \cup {i \in {e} : i.req = r}
              /\ Replayed(r)' = Replayed(r) /\ (Excused(r)' <=> Excused(r))
              /\ RunsOn("worker", r)' <=> RunsOn("worker", r)
  <2>1. Taken(r)' = Taken(r) \cup {i \in {e} : i.req = r}
    BY <1>2, <1>8 DEF Taken, Active, RunsOn, Running
  <2>2. Replayed(r)' = Replayed(r)  BY <1>2 DEF Replayed, RunsOn, Running
  <2>3. Excused(r)' <=> Excused(r)  BY <1>2 DEF Excused
  <2>4. RunsOn("worker", r)' <=> RunsOn("worker", r)  BY <1>2 DEF RunsOn, Running
  <2> QED  BY <2>1, <2>2, <2>3, <2>4
<1>14. ASSUME NEW r \in Requests, r # q  PROVE Followed(r)'
  <2>1. Taken(r)' = Taken(r)  BY <1>10, <1>13, <1>14
  <2> QED  BY <1>2, <1>3, <1>13, <1>14, <2>1, Untouched DEF PInv
<1>15. Taken(q)' = Taken(q) \cup {e} /\ Alive(q)' = Alive(q)
  <2>1. Taken(q)' = Taken(q) \cup {e}  BY <1>10, <1>13
  <2> QED  BY <1>5, <1>6, <2>1 DEF Alive
<1>16. crashes = 0 => e.ver > applied[q]
  BY <1>4, <1>5 DEF Followed, Ranked
<1>17. Ranked(q)'
  <2>1. Rising(watch[q])'  BY <1>3, <1>5 DEF Rising
  <2>2. \A x \in Taken(q)', w \in Watched(q)' : x.ver < w.ver
    BY <1>4, <1>5, <1>6, <1>15 DEF Followed, Ranked
  <2>3. \A w \in Watched(q)' : w.ver > applied'[q]
    <3> TAKE w \in Watched(q)'
    <3>1. w \in Watched(q) /\ w.ver \in Nat /\ e.ver < w.ver  BY <1>5, <1>6, <1>9
    <3>2. e.ver >= applied[q]  BY <1>4, <1>5, <1>9, <1>10 DEF Followed, Ranked
    <3> QED  BY <1>2, <1>9, <1>10, <3>1, <3>2
  <2>4. \A i, j \in Alive(q)' : i.ver = j.ver => i = j
    BY <1>4, <1>15 DEF Followed, Ranked
  <2>5. crashes' = 0 => \A i \in Taken(q)' : i.ver # applied'[q]
    BY <1>2, <1>4, <1>9, <1>10, <1>15, <1>16 DEF Followed, Ranked
  <2> QED  BY <2>1, <2>2, <2>3, <2>4, <2>5 DEF Ranked
<1>18. Parted(q)'  BY <1>2, <1>4, <1>15 DEF Followed, Parted
<1>19. known'[q] = Absent => e.action = "DELETE"
  <2>1. [ver |-> e.ver, dbs |-> e.dbs] # Absent  BY <1>5 DEF Items, Absent
  <2> QED  BY <1>3, <2>1
<1>20. Closed(q)'
  <2> SUFFICES ASSUME known'[q] = Absent, NEW i \in Taken(q)'
               PROVE  \E x \in Taken(q)' : x.action = "DELETE" /\ x.ver >= i.ver
    BY DEF Closed
  <2>1. e.action = "DELETE" /\ e \in Taken(q)'  BY <1>15, <1>19
  <2>2. e.ver >= i.ver  BY <1>9, <1>10, <1>15
  <2> QED  BY <2>1, <2>2
<1>21. Undone(q)'
  <2> SUFFICES ASSUME ~Excused(q)', NEW j \in Alive(q)' \cup Replayed(q)',
                      j.action # "DELETE", j.ver >= applied'[q],
                      NEW d \in j.dbs \ api'[q].dbs
               PROVE  \E k \in Alive(q)' : Kills(k, d)' /\ k.ver > j.ver
    BY DEF Undone
  <2>1. PICK k \in Alive(q) : Kills(k, d) /\ k.ver > j.ver
    BY <1>2, <1>4, <1>13, <1>15 DEF Followed, Undone
  <2> QED  BY <1>15, <2>1 DEF Kills
<1>22. Doomed(q)'
  <2> SUFFICES ASSUME ~Excused(q)', NEW d \in dbs'[0][q]  PROVE Fate(q, d)'
    BY DEF Doomed
  <2>1. Fate(q, d)  BY <1>2, <1>4, <1>13 DEF Followed, Doomed
  <2>2. \A k : Awaits(q, k, d)' <=> Awaits(q, k, d)
    BY <1>2 DEF Awaits, Kills, Past, RunsOn, Running
  <2>3. d \notin api'[q].dbs => \E k \in Alive(q)' : Awaits(q, k, d)'
    BY <1>2, <1>15, <2>1, <2>2 DEF Fate
  <2>4. ASSUME crashes' = 0, known'[q] = Absent
        PROVE  \E x \in Taken(q)' : x.action = "DELETE" /\ Awaits(q, x, d)'
    <3>1. e.action = "DELETE" /\ e \in Taken(q)' /\ e.ver > applied[q]
      BY <1>2, <1>15, <1>16, <1>19, <2>4
    <3>2. RunsOn("worker", q) => e.ver > task["worker"].item.ver  BY <1>9, <1>10
    <3>3. Awaits(q, e, d)  BY <3>1, <3>2 DEF Awaits, Kills
    <3> QED  BY <2>2, <3>1, <3>3
  <2> QED  BY <2>3, <2>4 DEF Fate
<1>23. Followed(q)'  BY <1>17, <1>18, <1>20, <1>21, <1>22 DEF Followed
<1> QED  BY <1>11, <1>12, <1>14, <1>23 DEF PInv

----------------------------------------------------------------------------
(* The informer.                                                           *)

\* A user changes a request: the new version is the newest, and takes away what it does
\* not list unless it is a creation, which comes after the deletion.
LEMMA ChangeFollowed ==
    ASSUME TypeInv, RInv, PInv, NEW q \in Requests, NEW a \in {"ADD", "UPDATE", "DELETE"},
           NEW o \in SUBSET Dbs, Change(q, a, o), a = "ADD" => api[q] = Absent
    PROVE  PInv'
<1>e. PICK e : e = Item(a, q, IF a = "DELETE" THEN api[q] ELSE [dbs |-> o], gen[q] + 1, FALSE)
  OBVIOUS
<1>1. /\ gen' = [gen EXCEPT ![q] = @ + 1]
      /\ api' = [api EXCEPT ![q] = IF a = "DELETE" THEN Absent
                                   ELSE [ver |-> gen[q] + 1, dbs |-> o]]
      /\ watch' = [watch EXCEPT ![q] = Append(@, e)]
      /\ UNCHANGED <<known, queue, delayed, task, replay, applied, excuse, dbs,
                     crashes, relists, recreates>>
  BY <1>e DEF Change, hist_vars, pg_vars, cnt_vars
<1>2. /\ gen[q] \in Nat /\ gen[q] < MaxGen /\ MaxGen \in Nat
      /\ watch[q] \in Seq(Items) /\ watch'[q] = Append(watch[q], e)
      /\ api'[q] = IF a = "DELETE" THEN Absent ELSE [ver |-> gen[q] + 1, dbs |-> o]
      /\ \A r \in Requests : r # q => api'[r] = api[r] /\ watch'[r] = watch[r]
  <2>1. /\ gen \in [Requests -> 0 .. MaxGen] /\ gen[q] < MaxGen /\ MaxGen \in Nat
        /\ api \in [Requests -> Objects \cup {Absent}] /\ watch \in [Requests -> Seq(Items)]
    BY BoundAssumption DEF TypeInv, TypeOK, Change
  <2>2. gen[q] \in Nat  BY <2>1
  <2> QED  BY <1>1, <2>1, <2>2
<1>3. /\ e \in Items /\ e.req = q /\ e.ver = gen[q] + 1 /\ e.action = a
      /\ a # "DELETE" => e.dbs = o
  <2>1. api[q].dbs \in SUBSET Dbs  BY ObjectType DEF TypeInv, TypeOK
  <2>2. gen[q] + 1 \in 1 .. MaxGen  BY <1>2
  <2>3. e \in Items  BY <1>e, <2>1, <2>2, ItemType
  <2> QED  BY <1>e, <2>3 DEF Item
<1>4. Followed(q) /\ Book /\ Settled(q)  BY DEF PInv, RInv
<1>5. /\ \A i \in Alive(q) : i.ver \in Nat /\ i.req = q /\ i.ver <= gen[q] /\ Timely(i)
      /\ \A i \in Replayed(q) : i.ver \in Nat /\ i.ver <= gen[q]
      /\ applied[q] \in Nat /\ applied[q] <= gen[q]
      /\ Taken(q) \subseteq Alive(q) /\ Watched(q) \subseteq Alive(q)
      /\ RunsOn("worker", q) => task["worker"].item \in Taken(q)
  BY <1>4, OnTheWay
<1>6. Watched(q)' = Watched(q) \cup {e}  BY <1>2, <1>3, RangeOf DEF Watched
<1>7. \A r \in Requests : /\ Taken(r)' = Taken(r) /\ Replayed(r)' = Replayed(r)
                          /\ Excused(r)' <=> Excused(r)
                          /\ RunsOn("worker", r)' <=> RunsOn("worker", r)
  <2>1. Held' = Held  BY <1>1 DEF Held, SeqRange
  <2> QED  BY <1>1, <2>1 DEF Taken, Active, Replayed, RunsOn, Running, Excused
<1>8. Alive(q)' = Alive(q) \cup {e}  BY <1>6, <1>7 DEF Alive
<1>9. InLine' /\ \A p \in Procs : Loop(task[p])'
  <2>1. Held' = Held  BY <1>1 DEF Held, SeqRange
  <2>2. InLine'  BY <1>1, <2>1 DEF PInv, InLine, Line, Lined, SeqRange, Running
  <2> QED  BY <1>1, <2>2 DEF PInv, Loop
<1>10. ASSUME NEW r \in Requests, r # q  PROVE Followed(r)'
  BY <1>1, <1>2, <1>7, <1>10, Untouched DEF PInv
<1>11. \A i \in Alive(q) \cup Replayed(q) : i.ver < e.ver  BY <1>2, <1>3, <1>5
<1>12. e.ver \in Nat /\ e.ver > applied[q]  BY <1>2, <1>3, <1>5
<1>13. Ranked(q)'
  <2>1. Rising(watch[q])'
    <3>1. Rising(watch[q])  BY <1>4 DEF Followed, Ranked
    <3>2. \A x \in SeqRange(watch[q]) : x.ver < e.ver  BY <1>5, <1>11 DEF Watched
    <3>3. Rising(watch'[q])  BY <1>2, <1>3, <3>1, <3>2, RisingOf
    <3> QED  BY <3>3 DEF Rising
  <2>2. \A x \in Taken(q)', w \in Watched(q)' : x.ver < w.ver
    BY <1>4, <1>5, <1>6, <1>7, <1>11 DEF Followed, Ranked
  <2>3. \A w \in Watched(q)' :
          \/ w.ver > applied'[q]
          \/ w.ver = applied'[q] /\ w.action = "ADD" /\ known'[q] = Absent /\ crashes' > 0
    BY <1>1, <1>4, <1>6, <1>12 DEF Followed, Ranked
  <2>4. \A i, j \in Alive(q)' : i.ver = j.ver => i = j
    <3>1. \A i, j \in Alive(q) : i.ver = j.ver => i = j  BY <1>4 DEF Followed, Ranked
    <3>2. \A i \in Alive(q) : i.ver # e.ver  BY <1>5, <1>11, <1>12
    <3> QED  BY <1>8, <3>1, <3>2
  <2>5. crashes' = 0 => \A i \in Taken(q)' : i.ver # applied'[q]
    BY <1>1, <1>4, <1>7 DEF Followed, Ranked
  <2> QED  BY <2>1, <2>2, <2>3, <2>4, <2>5 DEF Ranked
<1>14. Parted(q)'
  <2> SUFFICES ASSUME "lost" \notin excuse'[q], NEW k \in Alive(q)', NEW m \in Alive(q)',
                      k.action # "ADD", m.action = "ADD", applied'[q] < k.ver, k.ver < m.ver
               PROVE  \E x \in Alive(q)' : x.action = "DELETE" /\ k.ver <= x.ver /\ x.ver < m.ver
    BY DEF Parted
  <2>1. k \in Alive(q) /\ k.ver \in Nat /\ k.ver <= gen[q]
    BY <1>5, <1>8, <1>11, <1>12
  <2>2. CASE m \in Alive(q)
    BY <1>1, <1>4, <1>8, <2>1, <2>2 DEF Followed, Parted
  <2>3. CASE m = e
    <3>1. api[q] = Absent  BY <1>3, <2>3
    <3>2. applied[q] # gen[q]  BY <1>1, <1>2, <1>5, <2>1
    <3>3. Waiting(q) \/ At("worker", q)
      BY <1>1, <1>4, <3>2 DEF Settled, NotForgotten
    <3>4. PICK x \in Alive(q) : Newest(x, q)
      BY <3>3 DEF Waiting, At, Newest, Alive, Taken, Active, RunsOn
    <3>5. x.action = "DELETE" /\ x.ver = gen[q]  BY <1>5, <3>1, <3>4 DEF Timely, Newest
    <3> QED  BY <1>2, <1>3, <1>8, <2>1, <2>3, <3>4, <3>5
  <2> QED  BY <1>8, <2>2, <2>3
<1>15. Closed(q)'  BY <1>1, <1>4, <1>7 DEF Followed, Closed
<1>16. /\ a = "ADD" => api[q].dbs = {}
       /\ a # "ADD" => \A d : d \notin api'[q].dbs => Kills(e, d)
  BY <1>2, <1>3 DEF Absent, Kills
<1>17. Undone(q)'
  <2> SUFFICES ASSUME ~Excused(q)', NEW j \in Alive(q)' \cup Replayed(q)',
                      j.action # "DELETE", j.ver >= applied'[q],
                      NEW d \in j.dbs \ api'[q].dbs
               PROVE  \E k \in Alive(q)' : Kills(k, d)' /\ k.ver > j.ver
    BY DEF Undone
  <2>1. j # e  BY <1>2, <1>3
  <2>2. j \in Alive(q) \cup Replayed(q)  BY <1>7, <1>8, <2>1
  <2>3. CASE a = "ADD"
    <3>1. d \in j.dbs \ api[q].dbs  BY <1>16, <2>3
    <3>2. PICK k \in Alive(q) : Kills(k, d) /\ k.ver > j.ver
      BY <1>1, <1>4, <1>7, <2>2, <3>1 DEF Followed, Undone
    <3> QED  BY <1>8, <3>2 DEF Kills
  <2>4. CASE a # "ADD"
    <3>1. Kills(e, d) /\ e.ver > j.ver  BY <1>5, <1>11, <1>12, <1>16, <2>2, <2>4
    <3> QED  BY <1>8, <3>1 DEF Kills
  <2> QED  BY <2>3, <2>4
<1>18. Doomed(q)'
  <2> SUFFICES ASSUME ~Excused(q)', NEW d \in dbs'[0][q]  PROVE Fate(q, d)'
    BY DEF Doomed
  <2>1. Fate(q, d)  BY <1>1, <1>4, <1>7 DEF Followed, Doomed
  <2>2. \A k : Awaits(q, k, d)' <=> Awaits(q, k, d)
    BY <1>1 DEF Awaits, Kills, Past, RunsOn, Running
  <2>3. ASSUME d \notin api'[q].dbs  PROVE \E k \in Alive(q)' : Awaits(q, k, d)'
    <3>1. CASE a = "ADD"  BY <1>8, <1>16, <2>1, <2>2, <3>1 DEF Fate
    <3>2. CASE a # "ADD"
      <4>1. RunsOn("worker", q) => e.ver > task["worker"].item.ver
        BY <1>5, <1>11, <1>12
      <4>2. Awaits(q, e, d)  BY <1>12, <1>16, <2>3, <3>2, <4>1 DEF Awaits
      <4> QED  BY <1>8, <2>2, <4>2
    <3> QED  BY <3>1, <3>2
  <2>4. crashes' = 0 /\ recreates' = 0 /\ known'[q] = Absent =>
          \E x \in Taken(q)' : x.action = "DELETE" /\ Awaits(q, x, d)'
    BY <1>1, <1>7, <2>1, <2>2 DEF Fate
  <2> QED  BY <2>3, <2>4 DEF Fate
<1>19. Followed(q)'  BY <1>13, <1>14, <1>15, <1>17, <1>18 DEF Followed
<1> QED  BY <1>9, <1>10, <1>19 DEF PInv

\* The informer lists again: one event stands for those that were lost.  It takes away
\* what the object does not list, unless the cache has no object, and then what has been
\* taken ends with a deletion.
LEMMA RelistFollowed ==
    ASSUME TypeInv, DanglingInv, RInv, PInv, NEW q \in Requests, Relist(q)
    PROVE  PInv'
<1> DEFINE x == Item(IF known[q] = Absent THEN "ADD" ELSE "UPDATE", q, api[q], api[q].ver, FALSE)
           y == Item("DELETE", q, known[q], gen[q], TRUE)
<1>1. /\ watch' = [watch EXCEPT ![q] = IF api[q] # Absent THEN <<x>>
                                       ELSE IF known[q] # Absent THEN <<y>> ELSE <<>>]
      /\ excuse' = [excuse EXCEPT ![q] =
                      IF known[q] = Absent /\ (api[q] = Absent \/ crashes > 0)
                        THEN @ \cup {"lost"} ELSE @]
      /\ relists' = relists + 1 /\ watch[q] # <<>>
      /\ UNCHANGED <<gen, api, known, queue, delayed, task, notify, replay, applied, dbs,
                     crashes, recreates>>
  BY DEF Relist, api_vars, pg_vars
<1>2. PICK X, Y : X = x /\ Y = y  OBVIOUS
<1>3. /\ X.req = q /\ X.ver = api[q].ver /\ X.dbs = api[q].dbs
      /\ X.action = (IF known[q] = Absent THEN "ADD" ELSE "UPDATE")
      /\ Y.req = q /\ Y.ver = gen[q] /\ Y.action = "DELETE"
  BY <1>2 DEF Item
<1>4. /\ watch'[q] = IF api[q] # Absent THEN <<X>> ELSE IF known[q] # Absent THEN <<Y>> ELSE <<>>
      /\ \A r \in Requests : r # q => watch'[r] = watch[r]
      /\ \A r \in Requests : r # q => excuse'[r] = excuse[r]
      /\ excuse'[q] = IF known[q] = Absent /\ (api[q] = Absent \/ crashes > 0)
                        THEN excuse[q] \cup {"lost"} ELSE excuse[q]
  BY <1>1, <1>2 DEF TypeInv, TypeOK
<1> HIDE DEF x, y
<1>5. Followed(q) /\ Book  BY DEF PInv, RInv
<1>6. /\ \A i \in Alive(q) : i.ver \in Nat /\ i.req = q /\ i.ver <= gen[q]
      /\ gen[q] \in Nat /\ applied[q] \in Nat /\ applied[q] <= gen[q]
      /\ Taken(q) \subseteq Alive(q) /\ Watched(q) \subseteq Alive(q)
      /\ RunsOn("worker", q) => task["worker"].item \in Taken(q)
  BY <1>5, OnTheWay
<1>7. PICK w : w \in Watched(q)
  <2>1. watch[q] \in Seq(Items) /\ Head(watch[q]) \in Items  BY <1>1 DEF TypeInv, TypeOK
  <2> QED  BY <1>1, <2>1, RangeOf DEF Watched
<1>8. PICK Z : Z = IF api[q] # Absent THEN X ELSE Y  OBVIOUS
<1>9. Z.req = q /\ Z.ver = gen[q]  BY <1>3, <1>5, <1>8 DEF Book, Versions
<1>10. /\ watch'[q] = IF api[q] # Absent \/ known[q] # Absent THEN <<Z>> ELSE <<>>
       /\ Watched(q)' = IF api[q] # Absent \/ known[q] # Absent THEN {Z} ELSE {}
  <2>1. watch'[q] = IF api[q] # Absent \/ known[q] # Absent THEN <<Z>> ELSE <<>>
    BY <1>4, <1>8
  <2>2. Watched(q)' = SeqRange(watch'[q])  BY DEF Watched, SeqRange
  <2>3. SeqRange(<<Z>>) = {Z} /\ SeqRange(<<>>) = {}  BY RangeShort
  <2> QED  BY <2>1, <2>2, <2>3
<1>11. \A r \in Requests : /\ Taken(r)' = Taken(r) /\ Replayed(r)' = Replayed(r)
                           /\ RunsOn("worker", r)' <=> RunsOn("worker", r)
  <2>1. Held' = Held  BY <1>1 DEF Held, SeqRange
  <2> QED  BY <1>1, <2>1 DEF Taken, Active, Replayed, RunsOn, Running
<1>12. \A r \in Requests : excuse[r] \subseteq excuse'[r] /\ (Excused(r) => Excused(r)')
  BY <1>1, <1>4, StillExcused
<1>13. InLine' /\ \A p \in Procs : Loop(task[p])'
  <2>1. Held' = Held  BY <1>1 DEF Held, SeqRange
  <2>2. InLine'  BY <1>1, <2>1 DEF PInv, InLine, Line, Lined, SeqRange, Running
  <2> QED  BY <1>1, <2>2 DEF PInv, Loop
<1>14. ASSUME NEW r \in Requests, r # q  PROVE Followed(r)'
  BY <1>1, <1>4, <1>11, <1>12, <1>14, Untouched DEF PInv
<1>15. /\ \A i \in Taken(q) : i.ver < gen[q]
       /\ known[q] # Absent => gen[q] > applied[q]
       /\ w.ver \in Nat /\ w.ver <= gen[q]
  <2>1. w.ver \in Nat /\ w.ver <= gen[q]  BY <1>6, <1>7
  <2>2. \A i \in Taken(q) : i.ver \in Nat /\ i.ver < w.ver
    BY <1>5, <1>6, <1>7 DEF Followed, Ranked
  <2>3. known[q] # Absent => w.ver > applied[q]  BY <1>5, <1>7 DEF Followed, Ranked
  <2> QED  BY <1>6, <2>1, <2>2, <2>3
<1>16. Alive(q)' = IF api[q] # Absent \/ known[q] # Absent THEN Taken(q) \cup {Z} ELSE Taken(q)
  BY <1>10, <1>11 DEF Alive
<1>17. Ranked(q)'
  <2>1. Rising(watch[q])'
    <3>1. Rising(watch'[q])  BY <1>10, ShortInOrder
    <3> QED  BY <3>1 DEF Rising
  <2>2. \A i \in Taken(q)', z \in Watched(q)' : i.ver < z.ver
    BY <1>9, <1>10, <1>11, <1>15
  <2>3. ASSUME NEW z \in Watched(q)'
        PROVE  \/ z.ver > applied'[q]
               \/ z.ver = applied'[q] /\ z.action = "ADD" /\ known'[q] = Absent /\ crashes' > 0
    <3>1. z = Z /\ z.ver = gen[q] /\ (api[q] # Absent \/ known[q] # Absent)
      BY <1>9, <1>10, <2>3
    <3>2. CASE known[q] # Absent  BY <1>1, <1>15, <3>1, <3>2
    <3>3. CASE known[q] = Absent
      <4>1. z.action = "ADD"  BY <1>3, <1>8, <3>1, <3>3
      <4>2. w.ver > applied[q] \/ (w.ver = applied[q] /\ crashes > 0)
        BY <1>5, <1>7 DEF Followed, Ranked
      <4> QED  BY <1>1, <1>6, <1>15, <3>1, <3>3, <4>1, <4>2
    <3> QED  BY <3>2, <3>3
  <2>4. \A i, j \in Alive(q)' : i.ver = j.ver => i = j
    <3>1. \A i, j \in Taken(q) : i.ver = j.ver => i = j  BY <1>5, <1>6 DEF Followed, Ranked
    <3>2. \A i \in Taken(q) : i.ver # Z.ver  BY <1>6, <1>9, <1>15
    <3> QED  BY <1>16, <3>1, <3>2
  <2>5. crashes' = 0 => \A i \in Taken(q)' : i.ver # applied'[q]
    BY <1>1, <1>5, <1>11 DEF Followed, Ranked
  <2> QED  BY <2>1, <2>2, <2>3, <2>4, <2>5 DEF Ranked
<1>18. "lost" \notin excuse'[q] => /\ "lost" \notin excuse[q]
                                   /\ known[q] = Absent => api[q] # Absent /\ ~(crashes > 0)
  BY <1>4
<1>19. crashes \in Nat /\ (~(crashes > 0) => crashes = 0)
  BY BoundAssumption DEF TypeInv, TypeOK
<1>20. Parted(q)'
  <2> SUFFICES ASSUME "lost" \notin excuse'[q], NEW k \in Alive(q)', NEW m \in Alive(q)',
                      k.action # "ADD", m.action = "ADD", applied'[q] < k.ver, k.ver < m.ver
               PROVE  \E e \in Alive(q)' : e.action = "DELETE" /\ k.ver <= e.ver /\ e.ver < m.ver
    BY DEF Parted
  <2>1. k \in Taken(q) /\ k.ver \in Nat
    <3>1. Alive(q)' \subseteq Taken(q) \cup {Z}  BY <1>16
    <3>2. m.ver \in Nat /\ m.ver <= gen[q]  BY <1>6, <1>9, <1>15, <3>1
    <3>3. k # Z  BY <1>6, <1>9, <3>2
    <3> QED  BY <1>6, <3>1, <3>3
  <2>2. CASE m \in Taken(q)
    <3>1. PICK e \in Alive(q) : e.action = "DELETE" /\ k.ver <= e.ver /\ e.ver < m.ver
      BY <1>1, <1>5, <1>6, <1>18, <2>1, <2>2 DEF Followed, Parted
    <3>2. e \notin Watched(q)  BY <1>5, <1>6, <2>2, <3>1 DEF Followed, Ranked
    <3>3. e \in Taken(q)  BY <3>1, <3>2 DEF Alive
    <3> QED  BY <1>16, <3>1, <3>3
  <2>3. CASE m \notin Taken(q)
    <3>1. m = Z  BY <1>16, <2>3
    <3>2. known[q] = Absent  BY <1>3, <1>8, <3>1
    <3>3. crashes = 0  BY <1>18, <1>19, <3>2
    <3>4. PICK e \in Taken(q) : e.action = "DELETE" /\ e.ver >= k.ver
      BY <1>1, <1>5, <1>6, <2>1, <3>2, <3>3 DEF Followed, Closed
    <3>5. e.ver \in Nat /\ e.ver < m.ver  BY <1>6, <1>9, <1>15, <3>1, <3>4
    <3> QED  BY <1>16, <2>1, <3>4, <3>5
  <2> QED  BY <2>2, <2>3
<1>21. Closed(q)'  BY <1>1, <1>5, <1>11 DEF Followed, Closed
<1>22. ~Excused(q)' => /\ ~Excused(q) /\ recreates = 0 /\ Replayed(q) = {}
                       /\ known[q] = Absent => api[q] # Absent /\ crashes = 0
  <2> SUFFICES ASSUME ~Excused(q)'
               PROVE  /\ ~Excused(q) /\ recreates = 0 /\ Replayed(q) = {}
                      /\ known[q] = Absent => api[q] # Absent /\ crashes = 0
    OBVIOUS
  <2>1. relists \in Nat /\ recreates \in Nat  BY BoundAssumption DEF TypeInv, TypeOK
  <2>2. recreates = 0  BY <1>1, <2>1 DEF Excused
  <2>3. Replayed(q) = {}  BY <2>2 DEF DanglingInv, Sequential, Replayed, RunsOn, Running
  <2>4. "lost" \notin excuse'[q]  BY DEF Excused
  <2> QED  BY <1>12, <1>18, <1>19, <2>2, <2>3, <2>4
<1>23. known[q] # Absent => Z \in Alive(q)' /\ \A d : d \notin api[q].dbs => Kills(Z, d)
  BY <1>3, <1>8, <1>16 DEF Kills
<1>24. Undone(q)'
  <2> SUFFICES ASSUME ~Excused(q)', NEW j \in Alive(q)' \cup Replayed(q)',
                      j.action # "DELETE", j.ver >= applied'[q],
                      NEW d \in j.dbs \ api'[q].dbs
               PROVE  \E k \in Alive(q)' : Kills(k, d)' /\ k.ver > j.ver
    BY DEF Undone
  <2>1. d \notin api[q].dbs /\ d \in j.dbs  BY <1>1
  <2>2. j # Z
    <3>1. Z.action # "DELETE" => Z.dbs = api[q].dbs  BY <1>3, <1>8
    <3> QED  BY <2>1, <3>1
  <2>3. j \in Taken(q) /\ j.ver \in Nat /\ j.ver < gen[q]
    BY <1>6, <1>11, <1>15, <1>16, <1>22, <2>2
  <2>4. CASE known[q] # Absent
    <3>1. Kills(Z, d) /\ Z.ver > j.ver  BY <1>6, <1>9, <1>23, <2>1, <2>3, <2>4
    <3> QED  BY <1>23, <2>4, <3>1 DEF Kills
  <2>5. CASE known[q] = Absent
    <3>1. PICK e \in Taken(q) : e.action = "DELETE" /\ e.ver >= j.ver
      BY <1>1, <1>5, <1>6, <1>22, <2>3, <2>5 DEF Followed, Closed
    <3>2. e.ver # j.ver  BY <1>5, <1>6, <2>3, <3>1 DEF Followed, Ranked
    <3>3. e.ver > j.ver /\ e \in Alive(q)'  BY <1>6, <1>16, <2>3, <3>1, <3>2
    <3> QED  BY <3>1, <3>3 DEF Kills
  <2> QED  BY <2>4, <2>5
<1>25. Doomed(q)'
  <2> SUFFICES ASSUME ~Excused(q)', NEW d \in dbs'[0][q]  PROVE Fate(q, d)'
    BY DEF Doomed
  <2>1. Fate(q, d)  BY <1>1, <1>5, <1>22 DEF Followed, Doomed
  <2>2. \A k : Awaits(q, k, d)' <=> Awaits(q, k, d)
    BY <1>1 DEF Awaits, Kills, Past, RunsOn, Running
  <2>3. ASSUME d \notin api'[q].dbs  PROVE \E k \in Alive(q)' : Awaits(q, k, d)'
    <3>1. CASE known[q] # Absent
      <4>1. RunsOn("worker", q) => Z.ver > task["worker"].item.ver
        BY <1>6, <1>9, <1>15
      <4>2. Kills(Z, d) /\ Z.ver > applied[q]  BY <1>1, <1>9, <1>15, <1>23, <2>3, <3>1
      <4>3. Awaits(q, Z, d)  BY <4>1, <4>2 DEF Awaits
      <4> QED  BY <1>23, <2>2, <3>1, <4>3
    <3>2. CASE known[q] = Absent
      <4>1. PICK e \in Taken(q) : Awaits(q, e, d)  BY <1>22, <2>1, <3>2 DEF Fate
      <4> QED  BY <1>16, <2>2, <4>1
    <3> QED  BY <3>1, <3>2
  <2>4. crashes' = 0 /\ recreates' = 0 /\ known'[q] = Absent =>
          \E e \in Taken(q)' : e.action = "DELETE" /\ Awaits(q, e, d)'
    BY <1>1, <1>11, <2>1, <2>2 DEF Fate
  <2> QED  BY <2>3, <2>4 DEF Fate
<1>26. Followed(q)'  BY <1>17, <1>20, <1>21, <1>24, <1>25 DEF Followed
<1> QED  BY <1>13, <1>14, <1>26 DEF PInv

\* The operator restarts: if nothing is lost the newest version has been carried out, and
\* with it whatever takes databases away.
LEMMA RestartFollowed ==
    ASSUME TypeInv, RInv, PInv, Restart
    PROVE  PInv'
<1>1. /\ watch' = [r \in Requests |->
                     IF api[r] = Absent THEN <<>>
                     ELSE <<Item("ADD", r, api[r], api[r].ver, FALSE)>>]
      /\ queue' = <<>> /\ delayed' = <<>> /\ task' = [p \in Procs |-> Idle]
      /\ replay' = {} /\ known' = [r \in Requests |-> Absent] /\ crashes' = crashes + 1
      /\ excuse' = [r \in Requests |->
                      IF applied[r] < gen[r] THEN excuse[r] \cup {"lost"} ELSE excuse[r]]
      /\ UNCHANGED <<gen, api, applied, dbs, relists, recreates>>
  BY DEF Restart, api_vars, pg_vars
<1>2. Idle.phase = "idle" /\ Loop(Idle)
  <2>1. Idle.phase = "idle"  BY DEF Idle
  <2> QED  BY <2>1 DEF Loop
<1>3. \A p \in Procs : ~Running(p)' /\ Loop(task[p])'
  <2>1. \A p \in Procs : task'[p] = Idle  BY <1>1
  <2> QED  BY <1>2, <2>1 DEF Running, Loop
<1>4. InLine'
  <2>1. SeqRange(queue') = {} /\ SeqRange(delayed') = {}  BY <1>1, RangeShort
  <2>2. Line(queue') /\ Line(delayed')  BY <1>1, ShortInOrder
  <2> QED  BY <1>3, <2>1, <2>2, InLineNext
<1>5. Held' = {}
  <2>1. Held' = SeqRange(queue') \cup SeqRange(delayed')  BY DEF Held, SeqRange
  <2> QED  BY <1>1, <2>1, RangeShort
<1>6. crashes' > 0 /\ crashes' # 0  BY <1>1, BoundAssumption DEF TypeInv, TypeOK
<1>7. ASSUME NEW r \in Requests  PROVE Followed(r)'
  <2>1. Followed(r) /\ Book  BY DEF PInv, RInv
  <2>2. /\ \A i \in Alive(r) : i.ver \in Nat /\ i.ver <= gen[r]
        /\ gen[r] \in Nat /\ applied[r] \in Nat /\ applied[r] <= gen[r]
    BY <2>1, OnTheWay
  <2>3. PICK x : x = Item("ADD", r, api[r], api[r].ver, FALSE)  OBVIOUS
  <2>4. /\ x.action = "ADD" /\ x.dbs = api[r].dbs
        /\ api[r] # Absent => x.ver = gen[r]
    BY <2>1, <2>3 DEF Item, Book, Versions
  <2>5. watch'[r] = IF api[r] = Absent THEN <<>> ELSE <<x>>  BY <1>1, <2>3
  <2>6. Watched(r)' = IF api[r] = Absent THEN {} ELSE {x}
    <3>1. Watched(r)' = SeqRange(watch'[r])  BY DEF Watched, SeqRange
    <3>2. SeqRange(<<x>>) = {x} /\ SeqRange(<<>>) = {}  BY RangeShort
    <3> QED  BY <2>5, <3>1, <3>2
  <2>7. ~RunsOn("worker", r)' /\ ~RunsOn("recreate", r)'  BY <1>3 DEF RunsOn
  <2>8. Taken(r)' = {} /\ Replayed(r)' = {}
    BY <1>1, <1>5, <2>7 DEF Taken, Active, Replayed
  <2>9. Alive(r)' = Watched(r)' /\ \A i \in Alive(r)' : i = x /\ api[r] # Absent
    BY <2>6, <2>8 DEF Alive
  <2>10. Ranked(r)'
    <3>1. Rising(watch[r])'
      <4>1. Rising(watch'[r])  BY <2>5, ShortInOrder
      <4> QED  BY <4>1 DEF Rising
    <3>2. ASSUME NEW w \in Watched(r)'
          PROVE  \/ w.ver > applied'[r]
                 \/ w.ver = applied'[r] /\ w.action = "ADD" /\ known'[r] = Absent /\ crashes' > 0
      <4>1. w = x /\ w.ver = gen[r]  BY <2>4, <2>9
      <4> QED  BY <1>1, <1>6, <2>2, <2>4, <4>1
    <3> QED  BY <2>8, <2>9, <3>1, <3>2 DEF Ranked
  <2>11. Parted(r)'  BY <2>4, <2>9 DEF Parted
  <2>12. Closed(r)'  BY <1>6 DEF Closed
  <2>13. Undone(r)'  BY <1>1, <2>4, <2>8, <2>9 DEF Undone
  <2>14. Doomed(r)'
    <3> SUFFICES ASSUME ~Excused(r)', NEW d \in dbs'[0][r]  PROVE Fate(r, d)'
      BY DEF Doomed
    <3>1. excuse'[r] = IF applied[r] < gen[r] THEN excuse[r] \cup {"lost"} ELSE excuse[r]
      BY <1>1
    <3>2. "lost" \notin excuse'[r]  BY DEF Excused
    <3>3. excuse'[r] = excuse[r] /\ applied[r] = gen[r]  BY <2>2, <3>1, <3>2
    <3>4. ~Excused(r)  BY <1>1, <3>3 DEF Excused
    <3>5. Fate(r, d)  BY <1>1, <2>1, <3>4 DEF Followed, Doomed
    <3>6. d \in api[r].dbs  BY <2>2, <3>3, <3>5 DEF Fate, Awaits
    <3> QED  BY <1>1, <1>6, <3>6 DEF Fate
  <2> QED  BY <2>10, <2>11, <2>12, <2>13, <2>14 DEF Followed
<1> QED  BY <1>3, <1>4, <1>7 DEF PInv

----------------------------------------------------------------------------
(* The pgcluster controller.                                               *)

\* The steps that leave queue, worker and informer alone, and change the databases of the
\* master only by emptying them.
LEMMA ApartFollowed ==
    ASSUME TypeInv, RInv, PInv,
           UNCHANGED <<api, known, watch, queue, delayed, applied, crashes, relists>>,
           task'["worker"] = task["worker"], Loop(task'["recreate"]),
           \A r \in Requests :
               /\ excuse[r] \subseteq excuse'[r] /\ dbs'[0][r] \subseteq dbs[0][r]
               /\ \A j \in Replayed(r)' : j \in Replayed(r) \/ j.dbs \subseteq api[r].dbs,
           recreates' = recreates \/ recreates' = recreates + 1
    PROVE  PInv'
<1>1. Held' = Held  BY DEF Held, SeqRange
<1>2. InLine'  BY <1>1 DEF PInv, InLine, Line, Lined, SeqRange, Running
<1>3. \A p \in Procs : Loop(task[p])'
  <2>1. \A p \in Procs : Loop(task'[p])  BY DEF PInv
  <2> QED  BY <2>1 DEF Loop
<1>4. ASSUME NEW r \in Requests  PROVE Followed(r)'
  <2>1. Taken(r)' = Taken(r)  BY <1>1 DEF Taken, Active, RunsOn, Running
  <2>2. RunsOn("worker", r)' => RunsOn("worker", r) /\ task'["worker"] = task["worker"]
    BY DEF RunsOn, Running
  <2>3. Excused(r) => Excused(r)'  BY StillExcused
  <2>4. recreates' = 0 => recreates = 0  BY BoundAssumption DEF TypeInv, TypeOK
  <2> QED  BY <2>1, <2>2, <2>3, <2>4, Untouched DEF PInv
<1> QED  BY <1>2, <1>3, <1>4 DEF PInv

\* The cluster is created anew, the requests are listed, and replayed one by one.
LEMMA ReplayFollowed ==
    ASSUME TypeInv, RInv, PInv,
           ClusterCreated \/ ListRequests \/ ReplayNext \/ ReplayDone \/ ReplayError
    PROVE  PInv'
<1>1. task \in [Procs -> Tasks] /\ Loop(task["recreate"])  BY DEF TypeInv, TypeOK, PInv
<1>2. Idle.phase = "idle" /\ Loop(Idle)
  <2>1. Idle.phase = "idle"  BY DEF Idle
  <2> QED  BY <2>1 DEF Loop
<1>3. CASE ClusterCreated
  <2>1. /\ UNCHANGED <<api, known, watch, queue, delayed, task, replay, applied, excuse,
                       crashes, relists>>
        /\ recreates' = recreates + 1 /\ dbs' = [n \in Nodes |-> [r \in Requests |-> {}]]
    BY <1>3 DEF ClusterCreated, api_vars, inf_vars, hist_vars
  <2>2. \A r \in Requests : dbs'[0][r] = {}  BY <2>1, ReplicasAssumption DEF Nodes
  <2>3. \A r \in Requests : Replayed(r)' = Replayed(r)
    BY <2>1 DEF Replayed, RunsOn, Running
  <2> QED  BY <1>1, <2>1, <2>2, <2>3, ApartFollowed
<1>4. CASE ListRequests
  <2>1. /\ UNCHANGED <<api, known, watch, queue, delayed, task, applied, crashes, relists,
                       recreates, dbs>>
        /\ \/ /\ replay' = {Item("ADD", r, api[r], api[r].ver, FALSE) :
                              r \in {q \in Requests : api[q] # Absent}}
              /\ excuse' = excuse
           \/ replay' = replay /\ excuse' = [r \in Requests |-> excuse[r] \cup {"swallowed"}]
    BY <1>4 DEF ListRequests, api_vars, inf_vars, pg_vars
  <2>2. \A r \in Requests : excuse[r] \subseteq excuse'[r]  BY <2>1
  <2>3. ASSUME NEW r \in Requests, NEW j \in Replayed(r)'
        PROVE  j \in Replayed(r) \/ j.dbs \subseteq api[r].dbs
    <3>1. j \in Replayed(r) \/ (j \in replay' /\ j.req = r)
      BY <2>1 DEF Replayed, RunsOn, Running
    <3>2. CASE j \in replay' /\ j.req = r
      <4>1. CASE replay' = replay  BY <3>2, <4>1 DEF Replayed
      <4>2. CASE replay' = {Item("ADD", v, api[v], api[v].ver, FALSE) :
                              v \in {q \in Requests : api[q] # Absent}}
        <5>1. PICK v \in Requests : j = Item("ADD", v, api[v], api[v].ver, FALSE)
          BY <3>2, <4>2
        <5>2. j.req = v /\ j.dbs = api[v].dbs  BY <5>1 DEF Item
        <5> QED  BY <3>2, <5>2
      <4> QED  BY <2>1, <4>1, <4>2
    <3> QED  BY <3>1, <3>2
  <2> QED  BY <1>1, <2>1, <2>2, <2>3, ApartFollowed
<1>5. CASE ReplayNext
  <2>1. PICK i \in replay :
          /\ ~Running("recreate")
          /\ task' = [task EXCEPT !["recreate"] = Start(i)] /\ replay' = replay \ {i}
          /\ UNCHANGED <<api, known, watch, queue, delayed, applied, excuse, crashes,
                         relists, recreates, dbs>>
    BY <1>5 DEF ReplayNext, api_vars, inf_vars, pg_vars, cnt_vars, hist_vars
  <2>2. /\ task'["worker"] = task["worker"] /\ task'["recreate"] = Start(i)
        /\ Loop(Start(i)) /\ Start(i).item = i
    BY <1>1, <2>1, StartLoop, StartFields DEF TypeInv, TypeOK
  <2>3. \A r \in Requests : Replayed(r)' \subseteq Replayed(r)
    BY <2>1, <2>2 DEF Replayed, RunsOn
  <2> QED  BY <2>1, <2>2, <2>3, ApartFollowed
<1>6. CASE ReplayDone \/ ReplayError
  <2>1. /\ task' = [task EXCEPT !["recreate"] = Idle]
        /\ UNCHANGED <<api, known, watch, queue, delayed, replay, applied, crashes,
                       relists, recreates, dbs>>
        /\ \A r \in Requests : excuse[r] \subseteq excuse'[r]
    <3>1. CASE ReplayDone
      BY <3>1 DEF ReplayDone, api_vars, inf_vars, pg_vars, cnt_vars, hist_vars
    <3>2. CASE ReplayError
      <4>1. /\ task' = [task EXCEPT !["recreate"] = Idle]
            /\ UNCHANGED <<api, known, watch, queue, delayed, replay, applied, crashes,
                           relists, recreates, dbs>>
            /\ excuse' = [excuse EXCEPT ![task["recreate"].item.req] = @ \cup {"swallowed"}]
        BY <3>2 DEF ReplayError, api_vars, inf_vars, pg_vars
      <4> QED  BY <4>1 DEF TypeInv, TypeOK
    <3> QED  BY <1>6, <3>1, <3>2
  <2>2. task'["worker"] = task["worker"] /\ task'["recreate"] = Idle  BY <1>1, <2>1
  <2>3. \A r \in Requests : Replayed(r)' \subseteq Replayed(r)
    BY <1>2, <2>1, <2>2 DEF Replayed, RunsOn, Running
  <2> QED  BY <1>2, <2>1, <2>2, <2>3, ApartFollowed
<1> QED  BY <1>3, <1>4, <1>5, <1>6

\* At first nothing is on its way and nothing has been made.
LEMMA InitFollowed == Init => PInv
<1> SUFFICES ASSUME Init  PROVE PInv
  OBVIOUS
<1>1. /\ watch = [r \in Requests |-> <<>>] /\ queue = <<>> /\ delayed = <<>>
      /\ task = [p \in Procs |-> Idle] /\ replay = {} /\ NoPG
  BY DEF Init
<1>2. Idle.phase = "idle"  BY DEF Idle
<1>3. \A p \in Procs : ~Running(p) /\ Loop(task[p])  BY <1>1, <1>2 DEF Running, Loop
<1>4. SeqRange(queue) = {} /\ SeqRange(delayed) = {} /\ Held = {}
  BY <1>1, RangeShort DEF Held
<1>5. InLine  BY <1>1, <1>3, <1>4, ShortInOrder DEF InLine
<1>6. ASSUME NEW r \in Requests  PROVE Followed(r)
  <2>1. watch[r] = <<>> /\ Watched(r) = {} /\ Rising(watch[r])
    BY <1>1, RangeShort, ShortInOrder DEF Watched
  <2>2. Taken(r) = {} /\ Replayed(r) = {} /\ Alive(r) = {}
    BY <1>1, <1>3, <1>4, <2>1 DEF Taken, Active, Replayed, RunsOn, Alive
  <2>3. dbs[0][r] = {}  BY <1>1, ReplicasAssumption DEF NoPG, Nodes
  <2> QED  BY <2>1, <2>2, <2>3 DEF Followed, Ranked, Parted, Closed, Undone, Doomed
<1> QED  BY <1>3, <1>5, <1>6 DEF PInv

\* Every step keeps the order of what is on its way.
LEMMA NextFollowed == TypeInv /\ DanglingInv /\ RInv /\ PInv /\ [Next]_vars => PInv'
<1> SUFFICES ASSUME TypeInv, DanglingInv, RInv, PInv, [Next]_vars  PROVE PInv'
  OBVIOUS
<1>1. ASSUME NEW r \in Requests, CreateRequest(r) \/ EditRequest(r) \/ DeleteRequest(r)
      PROVE  PInv'
  <2>1. \E a \in {"ADD", "UPDATE", "DELETE"}, o \in SUBSET Dbs :
          Change(r, a, o) /\ (a = "ADD" => api[r] = Absent)
    BY <1>1 DEF CreateRequest, EditRequest, DeleteRequest
  <2> QED  BY <2>1, ChangeFollowed
<1>2. ASSUME UNCHANGED vars  PROVE PInv'
  <2>1. UNCHANGED <<api, known, watch, queue, delayed, task, replay, applied, excuse, dbs,
                    crashes, relists, recreates>>
    BY <1>2 DEF vars, api_vars, inf_vars, pg_vars, cnt_vars, hist_vars
  <2>2. \A r \in Requests : Replayed(r)' = Replayed(r)
    BY <2>1 DEF Replayed, RunsOn, Running
  <2>3. Loop(task'["recreate"])  BY <2>1 DEF PInv
  <2> QED  BY <2>1, <2>2, <2>3, ApartFollowed
<1> QED  BY <1>1, <1>2, HandleEventFollowed, RelistFollowed, GetFollowed, RequeueFollowed,
            ForgetFollowed, WorkerErrorFollowed, ReplayFollowed, StatementFollowed,
            RestartFollowed DEF Next

\* Once the operator has nothing left to do for a request that exists, the master holds
\* no database the request does not list: whatever made it (createOrUpdatePGRequest of an
\* older version, or of its replay) has been followed by an UPDATE, whose
\* deleteDatabaseIfNotExists drops it, or by the DELETE before a creation; unless an
\* event was lost, an older item ran after a newer one, or there was both a re-list of
\* the informer and a new cluster.
THEOREM MasterPrunedHolds == Spec => []MasterPruned
<1>1. TypeInv /\ PInv => MasterPruned
  <2> SUFFICES ASSUME TypeInv, PInv, relists = 0 \/ recreates = 0, NEW r \in Requests, Quiet(r),
                      excuse[r] \cap {"overtaken", "lost"} = {}, NEW d \in dbs[0][r]
               PROVE  d \in api[r].dbs
    BY DEF MasterPruned
  <2>1. ~Excused(r)  BY DEF Excused
  <2>2. Fate(r, d)  BY <2>1 DEF PInv, Followed, Doomed
  <2>3. Watched(r) = {}  BY RangeShort DEF Quiet, Watched
  <2>4. Taken(r) = {}  BY DEF Quiet, Taken, Active, Held
  <2>5. Alive(r) = {}  BY <2>3, <2>4 DEF Alive
  <2> QED  BY <2>2, <2>5 DEF Fate
<1> QED  BY <1>1, InitType, NextType, InitDangling, NextDangling, InitR, NextR,
            InitFollowed, NextFollowed, PTL DEF Spec
=============================================================================
