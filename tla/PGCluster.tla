----------------------------- MODULE PGCluster -----------------------------
(***************************************************************************)
(* The pgcluster controller: it creates the StatefulSet of the citus       *)
(* cluster, changes its administrator and adds nodes (pgcluster/handler.go *)
(* with pkg/workload/citus).  The handler reads the cluster object and the *)
(* StatefulSet anew on every call, so the items of the queue do not differ *)
(* and are only counted.                                                   *)
(*                                                                         *)
(* A credential is a user with a password; 0 is the generated one in the   *)
(* default secret, which an object without AdminUser stands for.           *)
(*                                                                         *)
(* The middleware-request controller works on the same nodes at the same   *)
(* time.  Its part of the story, which is told in RequestController, is    *)
(* here how it creates a distributed database and registers the nodes.     *)
(***************************************************************************)
EXTENDS Naturals, FiniteSets

CONSTANTS Admins,       \* credentials an object may name
          Secrets,      \* those of them whose password is in a secret
          Dbs,          \* distributed databases of requests: their names on the servers
          OwnDbs,       \* those of requests in the namespace of the cluster
          RawName,      \* RawName[d]: the name in the request, without the namespace
          MaxReplicas,  \* bound: nodes
          MaxChanges,   \* bound: changes of the cluster object
          MaxFaults,    \* bound: failing calls
          MaxRestarts   \* bound: restarts of the operator

ASSUME AdminsAssumption == Admins \subseteq Nat \ {0} /\ Secrets \subseteq Admins
\* GetDatabaseName puts something before the name.
ASSUME DbsAssumption == /\ IsFiniteSet(Dbs) /\ OwnDbs \subseteq Dbs
                        /\ DOMAIN RawName = Dbs /\ \A d \in Dbs : RawName[d] # d
ASSUME BoundAssumption ==
  /\ MaxReplicas \in Nat \ {0} /\ MaxChanges \in Nat /\ MaxFaults \in Nat
  /\ MaxRestarts \in Nat

VARIABLES def,      \* the PGCluster object
          secret,   \* the default secret exists
          sts,      \* the StatefulSet: credential in its environment and where from
          service,  \* the headless service exists
          node,     \* credential the database of each node was set to; NoDb: never started
          on,       \* on[x]: the nodes that have a database of name x
          workers,  \* workers[x]: the nodes registered in database x of the master
          rq,       \* the request controller's worker: step, database, next node, nodes,
                    \* and whether the StatefulSet changed its size after it was read
          settled,  \* databases whose request was carried out since the last such change
          wk,       \* the worker: step and what it has read
          pending,  \* items in the queue
          good,     \* the last handler() to succeed read the present object
          broken,   \* what an error or a restart has left undone for good
          replays,  \* notifications of new clusters, and clusters created
          changes, faults, restarts

vars == <<def, secret, sts, service, node, on, workers, rq, settled, wk, pending, good, broken,
          replays, changes, faults, restarts>>

NoDb == 99
NoDef == [on |-> FALSE, admin |-> 0, replicas |-> 1]
NoSts == [on |-> FALSE, cred |-> 0, from |-> "secret", replicas |-> 1]
Nodes == 0..MaxReplicas - 1
DbNames == Dbs \cup {RawName[d] : d \in Dbs}
NoRq == [pc |-> "idle", d |-> {}, n |-> 0, r |-> 0, late |-> FALSE]
Idle == [pc |-> "idle", def |-> NoDef, sts |-> NoSts, new |-> FALSE, old |-> 0, n |-> 0, d |-> {}]

Init ==
  /\ def = NoDef
  /\ secret = FALSE
  /\ sts = NoSts
  /\ service = FALSE
  /\ node = [n \in Nodes |-> NoDb]
  /\ on = [x \in DbNames |-> {}]
  /\ workers = [x \in DbNames |-> {}]
  /\ rq = NoRq
  /\ settled = {}
  /\ wk = Idle
  /\ pending = 0
  /\ good = FALSE
  /\ broken = {}
  /\ replays = [told |-> 0, made |-> 0]
  /\ changes = 0 /\ faults = 0 /\ restarts = 0

At(pc) == wk.pc = pc
Goto(pc) == wk' = [wk EXCEPT !.pc = pc]

-----------------------------------------------------------------------------
(* Errors.                                                                 *)

\* What the next attempt will not find out.  It compares the object with the
\* StatefulSet: once that is patched or scaled, nothing is left to do; and only
\* the call that creates the StatefulSet knows that the cluster is new.
Forgotten ==
  (IF wk.pc = "change" THEN {"admin"} ELSE {})
    \cup (IF wk.pc \in {"hba", "list", "node", "register", "rebalance"} THEN {"scale"} ELSE {})
    \cup (IF wk.new THEN {"notify"} ELSE {})

Fail_Dropped ==
  /\ wk' = Idle
  /\ pending' = pending
  /\ broken' = broken \cup Forgotten
  /\ UNCHANGED <<def, secret, sts, service, node, on, workers, rq, settled, good, replays, changes, restarts>>

\* The item goes back to the queue.
Fail ==
  /\ wk' = Idle
  /\ pending' = pending + 1
  /\ broken' = broken \cup Forgotten
  /\ UNCHANGED <<def, secret, sts, service, node, on, workers, rq, settled, good, replays, changes, restarts>>

\* Any call to the API server or a database may fail.  A lost answer is a
\* failure of the step after it.
CallFails ==
  /\ wk.pc \notin {"idle", "notify", "done"}
  /\ faults < MaxFaults
  /\ faults' = faults + 1
  /\ Fail

-----------------------------------------------------------------------------
(* handler()                                                               *)

Get ==
  /\ At("idle")
  /\ pending > 0
  /\ pending' = pending - 1
  /\ wk' = [Idle EXCEPT !.pc = "getDef"]
  /\ UNCHANGED <<def, secret, sts, service, node, on, workers, rq, settled, good, broken, replays,
                 changes, faults, restarts>>

GetDef ==
  /\ At("getDef")
  /\ wk' = [wk EXCEPT !.pc = "getSts", !.def = def]
  /\ UNCHANGED <<def, secret, sts, service, node, on, workers, rq, settled, pending, good, broken,
                 replays, changes, faults, restarts>>

\* Deletion, creation or change.
GetSts ==
  /\ At("getSts")
  /\ wk' = [wk EXCEPT !.sts = sts,
                      !.pc = CASE ~wk.def.on /\ sts.on  -> "deleteSts"
                               [] ~wk.def.on /\ ~sts.on -> "done"
                               [] wk.def.on /\ ~sts.on  -> "secret"
                               [] wk.def.on /\ sts.on   -> "defaults"]
  /\ UNCHANGED <<def, secret, sts, service, node, on, workers, rq, settled, pending, good, broken,
                 replays, changes, faults, restarts>>

DeleteSts ==
  /\ At("deleteSts")
  /\ sts' = NoSts
  /\ Goto("done")
  /\ UNCHANGED <<def, secret, service, node, on, workers, rq, settled, pending, good, broken, replays,
                 changes, faults, restarts>>

\* The default secret is created once and kept.
createSecretForPG ==
  /\ At("secret")
  /\ secret' = (secret \/ wk.def.admin = 0)
  /\ Goto("createSts")
  /\ UNCHANGED <<def, sts, service, node, on, workers, rq, settled, pending, good, broken, replays,
                 changes, faults, restarts>>

\* What was read of the size of the StatefulSet, or registered for it, is out of date.
Resized ==
  /\ settled' = {}
  /\ rq' = [rq EXCEPT !.late = TRUE]

\* One node, with the credential of the object.  The data directories of an
\* earlier cluster stay on the disk, and keep its credential.
createPGCluster ==
  /\ At("createSts")
  /\ LET c == wk.def.admin
         s == [on |-> TRUE, cred |-> c, replicas |-> 1,
               from |-> IF c \in Admins \ Secrets THEN "value" ELSE "secret"]
     IN /\ sts' = s
        /\ wk' = [wk EXCEPT !.pc = "createSvc", !.sts = s, !.new = TRUE]
        /\ broken' = broken \cup (IF \E n \in Nodes : node[n] \notin {NoDb, c}
                                  THEN {"admin"} ELSE {})
  /\ replays' = [replays EXCEPT !.made = @ + 1]
  /\ Resized
  /\ UNCHANGED <<def, secret, service, node, on, workers, pending, good, changes, faults, restarts>>

createPGClusterService ==
  /\ At("createSvc")
  /\ service' = TRUE
  /\ Goto("compare")
  /\ UNCHANGED <<def, secret, sts, node, on, workers, rq, settled, pending, good, broken, replays,
                 changes, faults, restarts>>

\* An object without AdminUser means the default secret, which a cluster that
\* was created with another administrator does not have.
Defaults ==
  /\ At("defaults")
  /\ IF wk.def.admin = 0 /\ ~secret
     THEN Fail /\ UNCHANGED faults
     ELSE /\ Goto("compare")
          /\ UNCHANGED <<def, secret, sts, service, node, on, workers, rq, settled, pending, good, broken,
                         replays, changes, faults, restarts>>

MustUpdate == wk.sts.cred # wk.def.admin

MustUpdateClusterAdminUser ==
  /\ At("compare")
  /\ wk' = [wk EXCEPT !.pc = IF MustUpdate THEN "patch" ELSE "notify", !.old = wk.sts.cred, !.n = 0]
  /\ UNCHANGED <<def, secret, sts, service, node, on, workers, rq, settled, pending, good, broken,
                 replays, changes, faults, restarts>>

\* A plain password replaces a plain one and a secret a secret: the code sets
\* one field and leaves the other, and the API server refuses both together.
NewSource == IF wk.def.admin \in Secrets THEN "secret" ELSE "value"

PatchSts ==
  /\ At("patch")
  /\ IF sts.on /\ sts.from = NewSource
     THEN /\ sts' = [sts EXCEPT !.cred = wk.def.admin]
          /\ Goto("change")
          /\ UNCHANGED <<def, secret, service, node, on, workers, rq, settled, pending, good, broken,
                         replays, changes, faults, restarts>>
     ELSE Fail /\ UNCHANGED faults

ChangeAdminUser_MasterOnly ==
  /\ At("change")
  /\ node[wk.n] # NoDb
  /\ IF node[wk.n] = wk.old
     THEN /\ node' = [node EXCEPT ![wk.n] = wk.def.admin]
          /\ Goto("notify")
          /\ UNCHANGED <<def, secret, sts, service, on, workers, rq, settled, pending, good, broken,
                         replays, changes, faults, restarts>>
     ELSE Fail /\ UNCHANGED faults

\* WaitForPodRunning and ChangeAdminUser, node by node, with the old credential.
ChangeAdminUser ==
  /\ At("change")
  /\ node[wk.n] # NoDb
  /\ IF node[wk.n] = wk.old
     THEN /\ node' = [node EXCEPT ![wk.n] = wk.def.admin]
          /\ wk' = [wk EXCEPT !.n = @ + 1, !.pc = IF @ = "change" /\ wk.n + 1 < wk.sts.replicas
                                                  THEN "change" ELSE "notify"]
          /\ UNCHANGED <<def, secret, sts, service, on, workers, rq, settled, pending, good, broken,
                         replays, changes, faults, restarts>>
     ELSE Fail /\ UNCHANGED faults

\* The requests are replayed on a new cluster (RequestController!ClusterCreated).
Notify ==
  /\ At("notify")
  /\ replays' = IF wk.new THEN [replays EXCEPT !.told = @ + 1] ELSE replays
  /\ wk' = [wk EXCEPT !.pc = IF wk.def.replicas # wk.sts.replicas THEN "scale" ELSE "done",
                      !.new = FALSE]
  /\ UNCHANGED <<def, secret, sts, service, node, on, workers, rq, settled, pending, good, broken,
                 changes, faults, restarts>>

\* "scale down cluster not supported".
ScalePGClusterNodes ==
  /\ At("scale")
  /\ IF sts.on /\ wk.def.replicas > sts.replicas
     THEN /\ sts' = [sts EXCEPT !.replicas = wk.def.replicas]
          /\ wk' = [wk EXCEPT !.pc = "hba", !.n = sts.replicas]
          /\ Resized
          /\ UNCHANGED <<def, secret, service, node, on, workers, pending, good, broken,
                         replays, changes, faults, restarts>>
     ELSE Fail /\ UNCHANGED faults

\* pg_hba.conf of each new node, once it runs.
UpdateHba ==
  /\ At("hba")
  /\ node[wk.n] # NoDb
  /\ IF node[wk.n] = wk.def.admin
     THEN /\ wk' = [wk EXCEPT !.n = @ + 1, !.pc = IF wk.n + 1 < wk.def.replicas THEN "hba" ELSE "list"]
          /\ UNCHANGED <<def, secret, sts, service, node, on, workers, rq, settled, pending, good, broken,
                         replays, changes, faults, restarts>>
     ELSE Fail /\ UNCHANGED faults

\* The distributed databases of the requests there are in the namespace of the
\* cluster; requests elsewhere are not looked at.
ListDatabases ==
  /\ At("list")
  /\ \E S \in SUBSET OwnDbs :
       wk' = [wk EXCEPT !.d = S, !.n = wk.sts.replicas, !.pc = IF S = {} THEN "done" ELSE "node"]
  /\ UNCHANGED <<def, secret, sts, service, node, on, workers, rq, settled, pending, good,
                 broken, replays, changes, faults, restarts>>

D == CHOOSE d \in wk.d : TRUE

\* User, database and citus on the new node; the statements are those of
\* RequestController and, like there, may be repeated.  The name is that in the
\* request, and not that of the database the request has created.
CreateOnNode ==
  /\ At("node")
  /\ on' = [on EXCEPT ![RawName[D]] = @ \cup {wk.n}]
  /\ Goto("register")
  /\ UNCHANGED <<def, secret, sts, service, node, workers, rq, settled, pending, good, broken,
                 replays, changes, faults, restarts>>

\* The node is registered in the database of that name of the master, where there
\* is none unless another database happens to be called so.
AddWorkerNode ==
  /\ At("register")
  /\ IF 0 \in on[RawName[D]]
     THEN /\ workers' = [workers EXCEPT ![RawName[D]] = @ \cup {wk.n}]
          /\ wk' = [wk EXCEPT !.n = @ + 1,
                              !.pc = IF wk.n + 1 < wk.def.replicas THEN "node" ELSE "rebalance"]
          /\ UNCHANGED <<def, secret, sts, service, node, on, rq, settled, pending, good, broken,
                         replays, changes, faults, restarts>>
     ELSE Fail /\ UNCHANGED faults

Rebalance ==
  /\ At("rebalance")
  /\ IF 0 \in on[RawName[D]]
     THEN /\ wk' = [wk EXCEPT !.d = @ \ {D}, !.n = wk.sts.replicas,
                              !.pc = IF Cardinality(wk.d) = 1 THEN "done" ELSE "node"]
          /\ UNCHANGED <<def, secret, sts, service, node, on, workers, rq, settled, pending,
                         good, broken, replays, changes, faults, restarts>>
     ELSE Fail /\ UNCHANGED faults

Finish ==
  /\ At("done")
  /\ wk' = Idle
  /\ good' = (wk.def = def)
  /\ UNCHANGED <<def, secret, sts, service, node, on, workers, rq, settled, pending, broken, replays,
                 changes, faults, restarts>>

-----------------------------------------------------------------------------
(* The environment.                                                        *)

\* Creation, change and deletion of the object each bring an item.
ChangeDef(new) ==
  /\ changes < MaxChanges
  /\ changes' = changes + 1
  /\ new # def
  /\ def' = new
  /\ good' = FALSE
  /\ pending' = pending + 1
  /\ UNCHANGED <<secret, sts, service, node, on, workers, rq, settled, wk, broken, replays, faults, restarts>>

PutDef ==
  \E a \in Admins \cup {0}, r \in 1..MaxReplicas :
    ChangeDef([on |-> TRUE, admin |-> a, replicas |-> r])

DeleteDef == def.on /\ ChangeDef(NoDef)

\* The pod of node n starts; an empty data directory is initialised with the
\* credential of the environment.
PodStarts(n) ==
  /\ sts.on
  /\ n < sts.replicas
  /\ node[n] = NoDb
  /\ node' = [node EXCEPT ![n] = sts.cred]
  /\ UNCHANGED <<def, secret, sts, service, on, workers, rq, settled, wk, pending, good, broken, replays,
                 changes, faults, restarts>>

-----------------------------------------------------------------------------
(* The middleware-request controller: createOrUpdatePGRequest, addWorkerNode *)
(* and deletePGAll, as often as requests come.  A failing call ends the      *)
(* request; it is tried again as a new one.                                  *)

others == <<def, secret, sts, service, node, wk, pending, good, broken, replays, changes,
            faults, restarts>>

\* The database is created on one node after the other, until a call fails.
createOrUpdatePGRequest(d) ==
  /\ rq.pc = "idle" /\ sts.on
  /\ \E k \in 1..sts.replicas :
       /\ \A n \in 0..k - 1 : node[n] # NoDb
       /\ on' = [on EXCEPT ![d] = @ \cup (0..k - 1)]
       /\ rq' = IF k < sts.replicas THEN NoRq
                ELSE [pc |-> "read", d |-> {d}, n |-> 1, r |-> sts.replicas, late |-> FALSE]
  /\ UNCHANGED <<workers, settled, others>>

\* addWorkerNode reads the StatefulSet again.
addWorkerNode_Stale ==
  /\ rq.pc = "read"
  /\ rq' = IF sts.on THEN [rq EXCEPT !.pc = "register", !.late = FALSE] ELSE NoRq
  /\ UNCHANGED <<on, workers, settled, others>>
addWorkerNode ==
  /\ rq.pc = "read"
  /\ rq' = IF sts.on THEN [rq EXCEPT !.pc = "register", !.r = sts.replicas, !.late = FALSE]
           ELSE NoRq
  /\ UNCHANGED <<on, workers, settled, others>>

\* A node without the database cannot be registered.
RegisterNode ==
  /\ rq.pc = "register" /\ rq.n < rq.r
  /\ \E d \in rq.d :
       \/ /\ node[0] # NoDb /\ node[rq.n] # NoDb /\ rq.n \in on[d]
          /\ workers' = [workers EXCEPT ![d] = @ \cup {rq.n}]
          /\ rq' = [rq EXCEPT !.n = @ + 1]
       \/ rq' = NoRq /\ UNCHANGED workers
  /\ UNCHANGED <<on, settled, others>>

RequestDone ==
  /\ rq.pc = "register" /\ rq.n = rq.r
  /\ rq' = NoRq
  /\ settled' = IF rq.late THEN settled ELSE settled \cup rq.d
  /\ UNCHANGED <<on, workers, others>>

\* The database is dropped node by node, and with it what is registered there.
deletePGAll(d) ==
  /\ rq.pc = "idle" /\ sts.on
  /\ \E k \in 1..sts.replicas :
       /\ \A n \in 0..k - 1 : node[n] # NoDb
       /\ on' = [on EXCEPT ![d] = @ \ (0..k - 1)]
  /\ workers' = [workers EXCEPT ![d] = {}]
  /\ settled' = settled \ {d}
  /\ UNCHANGED <<rq, others>>

RequestSteps ==
  \/ \E d \in Dbs : createOrUpdatePGRequest(d) \/ deletePGAll(d)
  \/ addWorkerNode \/ RegisterNode \/ RequestDone

-----------------------------------------------------------------------------
\* The informer delivers an object that exists; a deletion that was not handled
\* is forgotten.
Restart ==
  /\ restarts < MaxRestarts
  /\ restarts' = restarts + 1
  /\ wk' = Idle
  /\ rq' = NoRq
  /\ pending' = IF def.on THEN 1 ELSE 0
  /\ broken' = broken \cup Forgotten \cup (IF def.on THEN {} ELSE {"deletion"})
  /\ UNCHANGED <<def, secret, sts, service, node, on, workers, settled, good, replays, changes, faults>>

Handler ==
  \/ Get \/ GetDef \/ GetSts \/ DeleteSts \/ createSecretForPG \/ createPGCluster
  \/ createPGClusterService \/ Defaults \/ MustUpdateClusterAdminUser \/ PatchSts
  \/ ChangeAdminUser \/ Notify \/ ScalePGClusterNodes \/ UpdateHba \/ ListDatabases
  \/ CreateOnNode \/ AddWorkerNode \/ Rebalance \/ Finish

Next ==
  \/ Handler
  \/ CallFails
  \/ PutDef
  \/ DeleteDef
  \/ \E n \in Nodes : PodStarts(n)
  \/ RequestSteps
  \/ Restart

Spec == Init /\ [][Next]_vars

\* The worker runs and the StatefulSet controller starts pods.
FairSpec == Spec /\ WF_vars(Handler) /\ \A n \in Nodes : WF_vars(PodStarts(n))

-----------------------------------------------------------------------------
(* Properties.                                                             *)

Defs == [on : BOOLEAN, admin : Admins \cup {0}, replicas : 1..MaxReplicas]
Stss == [on : BOOLEAN, cred : Admins \cup {0}, from : {"value", "secret"}, replicas : 1..MaxReplicas]

\* Type invariant.  The StatefulSet the worker has read never has more
\* replicas than the present one while there is one: nothing scales down.
TypeOK ==
  /\ def \in Defs /\ sts \in Stss /\ secret \in BOOLEAN /\ service \in BOOLEAN
  /\ node \in [Nodes -> Admins \cup {0, NoDb}]
  /\ on \in [DbNames -> SUBSET Nodes] /\ workers \in [DbNames -> SUBSET Nodes]
  /\ rq \in [pc : {"idle", "read", "register"}, d : SUBSET Dbs, n : 0..MaxReplicas,
             r : 0..MaxReplicas, late : BOOLEAN]
  /\ settled \subseteq Dbs
  /\ wk \in [pc : {"idle", "getDef", "getSts", "deleteSts", "secret", "createSts", "createSvc",
                  "defaults", "compare", "patch", "change", "notify", "scale", "hba", "list",
                  "node", "register", "rebalance", "done"},
             def : Defs, sts : Stss, new : BOOLEAN, old : Admins \cup {0}, n : 0..MaxReplicas,
             d : SUBSET Dbs]
  /\ (wk.pc \in {"change", "scale", "hba"} /\ sts.on) => wk.sts.replicas <= sts.replicas
  /\ pending \in 0..MaxChanges + 1
  /\ good \in BOOLEAN /\ broken \subseteq {"admin", "scale", "notify", "deletion"}
  /\ replays \in [told : Nat, made : Nat]
  /\ changes \in 0..MaxChanges /\ faults \in 0..MaxFaults /\ restarts \in 0..MaxRestarts

\* When handler() has succeeded for the present object, all nodes accept its
\* administrator, whatever failed before.  There are two exceptions, each after a
\* failure that the next attempt no longer sees: between the patch of the StatefulSet
\* and the last node; and after the scaling, when a new node may have the data
\* directory, and so the administrator, of an earlier and bigger cluster.
AdminWorks ==
  (good /\ def.on /\ broken \cap {"admin", "scale"} = {}) =>
    \A n \in 0..sts.replicas - 1 : node[n] \in {NoDb, def.admin}

\* When handler() has succeeded, the cluster has the nodes the object asks for.
\* And whenever a request was carried out since the cluster was last created or
\* scaled, all nodes are registered for its database, however the steps of the
\* two controllers interleave: addWorkerNode does not trust the size that the
\* creation of the database was based on.  Of earlier requests this is not true:
\* scaling looks for their databases under other names.
AllRegistered ==
  /\ good /\ def.on => sts.replicas = def.replicas
  /\ sts.on => \A d \in settled : 1..sts.replicas - 1 \subseteq workers[d]

\* Every new cluster is made known to the request controller, once, before it
\* is scaled, unless handler() failed between its creation and that.
EveryClusterNotified ==
  /\ replays.told <= replays.made
  /\ (good /\ "notify" \notin broken) => replays.told = replays.made

\* After a deletion the StatefulSet goes, however creation and deletion of the
\* object overlap with handler(), unless the operator was restarted meanwhile.
DeletedMeansGone ==
  (~def.on /\ pending = 0 /\ wk = Idle /\ "deletion" \notin broken) => ~sts.on

\* The cluster handler() leaves behind, in one invariant: of the size asked for
\* and its nodes registered by the requests since then, the request controller
\* told of it, and gone when the object is.
ClusterSound == TypeOK /\ AllRegistered /\ EveryClusterNotified /\ DeletedMeansGone

\* Objects handler() refuses every time: fewer replicas than there are, the
\* default administrator of a cluster made without it, and a password that
\* comes from elsewhere than the one it replaces.
Hopeless ==
  /\ sts.on
  /\ \/ def.replicas < sts.replicas
     \/ def.admin = 0 /\ ~secret
     \/ /\ def.admin # sts.cred
        /\ sts.from # IF def.admin \in Secrets THEN "secret" ELSE "value"

\* Once the object stays as it is, it is carried out or is one of those.
EventuallyGood == <>[](~def.on \/ good \/ Hopeless)

=============================================================================
