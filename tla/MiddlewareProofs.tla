-------------------------- MODULE MiddlewareProofs --------------------------
(***************************************************************************)
(* For any credentials, databases, changes, failures and restarts: what    *)
(* the pgcluster controller leaves behind when handler() has succeeded.    *)
(* And for any containers, passwords, failures, lost answers and restarts: *)
(* what a request of the other middlewares leaves on its server when       *)
(* handler() has returned nil.                                             *)
(***************************************************************************)
EXTENDS PGCluster, Middlewares, FiniteSetTheorems, TLAPS

----------------------------------------------------------------------------
(* The inductive invariant.                                                *)

Pcs == {"idle", "getDef", "getSts", "deleteSts", "secret", "createSts", "createSvc",
        "defaults", "compare", "patch", "change", "notify", "scale", "hba", "list",
        "node", "register", "rebalance", "done"}
Wks == [pc : Pcs, def : Defs, sts : Stss, new : BOOLEAN, old : Admins \cup {0},
        n : 0..MaxReplicas, d : SUBSET Dbs]

Rqs == [pc : {"idle", "read", "register"}, d : SUBSET Dbs, n : 0..MaxReplicas,
        r : 0..MaxReplicas, late : BOOLEAN]

\* Between the scaling of the StatefulSet and the last registration.
Scaling == {"hba", "list", "node", "register", "rebalance"}

Types ==
  /\ def \in Defs /\ sts \in Stss /\ secret \in BOOLEAN /\ service \in BOOLEAN
  /\ node \in [Nodes -> Admins \cup {0, NoDb}]
  /\ on \in [DbNames -> SUBSET Nodes] /\ workers \in [DbNames -> SUBSET Nodes]
  /\ rq \in Rqs /\ settled \subseteq Dbs
  /\ wk \in Wks
  /\ pending \in Nat /\ good \in BOOLEAN
  /\ broken \subseteq {"admin", "scale", "notify", "deletion"}
  /\ replays \in [told : Nat, made : Nat]
  /\ changes \in 0..MaxChanges /\ faults \in 0..MaxFaults /\ restarts \in 0..MaxRestarts

\* Only the worker changes the StatefulSet: what it has read stays true but for its own
\* changes.
Control ==
  /\ At("deleteSts") => ~wk.def.on /\ sts.on
  /\ wk.pc \in {"secret", "createSts"} => wk.def.on /\ ~sts.on
  /\ wk.pc \in {"createSvc", "defaults", "compare", "patch"} => wk.def.on /\ sts.on /\ wk.sts = sts
  /\ wk.pc \in {"change", "notify", "scale"} \cup Scaling =>
       wk.def.on /\ sts.on /\ sts.cred = wk.def.admin
  /\ wk.pc \in {"change", "notify", "scale"} => wk.sts.replicas = sts.replicas
  /\ At("change") => wk.n < wk.sts.replicas
  /\ At("patch") => wk.n = 0 /\ wk.sts.cred # wk.def.admin
  /\ wk.pc \in Scaling => wk.sts.replicas < wk.def.replicas /\ sts.replicas = wk.def.replicas
  /\ wk.pc \in {"hba", "node", "register"} => wk.sts.replicas <= wk.n /\ wk.n < wk.def.replicas
  /\ wk.pc \in {"node", "register", "rebalance"} => wk.d # {}
  /\ At("done") => /\ (wk.def.on <=> sts.on)
                   /\ sts.on => sts.cred = wk.def.admin /\ sts.replicas = wk.def.replicas
  /\ wk.new => wk.pc \in {"createSvc", "compare", "patch", "change", "notify"}

\* The nodes accept the credential of the StatefulSet, but for those the worker has
\* still to change or to look at.
Credentials ==
  broken \cap {"admin", "scale"} = {} /\ sts.on =>
    \A m \in 0..sts.replicas - 1 :
      \/ node[m] \in {NoDb, sts.cred}
      \/ wk.pc \in {"change", "hba"} /\ wk.n <= m

\* A request that was carried out, and one that is being, has registered the nodes, unless
\* the StatefulSet has changed its size meanwhile.
Registered ==
  /\ rq.pc # "idle" => \E d \in Dbs : rq.d = {d}
  /\ rq.pc = "read" => rq.n = 1
  /\ sts.on => /\ \A d \in settled : 1..sts.replicas - 1 \subseteq workers[d]
               /\ rq.pc = "register" /\ ~rq.late =>
                    rq.r = sts.replicas /\ \A d \in rq.d : 1..rq.n - 1 \subseteq workers[d]

\* A new cluster that is not yet made known is the one the worker has created.
Notified ==
  LET new == IF wk.new THEN 1 ELSE 0 IN
  /\ replays.told + new <= replays.made
  /\ "notify" \notin broken => replays.told + new = replays.made

\* There is an item for an object that the worker has not read, and a StatefulSet without
\* an object is found by the present or a later call.
Items ==
  /\ pending + (IF At("idle") THEN 0 ELSE 1) <= changes
  /\ def.on => changes > 0
  /\ wk.pc \notin {"idle", "getDef"} /\ wk.def # def => pending > 0
  /\ ~def.on /\ sts.on /\ "deletion" \notin broken =>
       pending > 0 \/ wk.pc \in {"getDef", "getSts", "deleteSts"}

\* Once the object has been carried out, later calls find nothing to do.
Done ==
  good => /\ def.on <=> sts.on
          /\ sts.on => sts.cred = def.admin /\ sts.replicas = def.replicas
          /\ wk.pc \in {"idle", "getDef", "getSts", "defaults", "compare", "notify", "done"}
          /\ wk.pc \notin {"idle", "getDef"} => wk.def = def
          /\ ~wk.new

Inv == /\ Types /\ Control /\ Credentials /\ Registered /\ Notified /\ Items /\ Done

----------------------------------------------------------------------------
(* What all steps use.                                                     *)

\* The fields of what the worker has read, and the numbers compared.
LEMMA Fields ==
  ASSUME Types
  PROVE  /\ wk.pc \in Pcs /\ wk.def \in Defs /\ wk.sts \in Stss /\ wk.new \in BOOLEAN
         /\ wk.old \in Admins \cup {0} /\ wk.n \in 0..MaxReplicas /\ wk.d \subseteq Dbs
         /\ wk = [pc |-> wk.pc, def |-> wk.def, sts |-> wk.sts, new |-> wk.new,
                  old |-> wk.old, n |-> wk.n, d |-> wk.d]
         /\ wk.def.on \in BOOLEAN /\ wk.def.admin \in Admins \cup {0}
         /\ wk.def.replicas \in 1..MaxReplicas /\ wk.def.replicas \in Nat
         /\ wk.sts.cred \in Admins \cup {0} /\ wk.sts.replicas \in 1..MaxReplicas
         /\ wk.sts.replicas \in Nat /\ wk.n \in Nat
         /\ sts.on \in BOOLEAN /\ sts.cred \in Admins \cup {0}
         /\ sts.replicas \in 1..MaxReplicas /\ sts.replicas \in Nat
         /\ def.on \in BOOLEAN /\ def \in Defs /\ sts \in Stss
<1>1. wk \in Wks /\ sts \in Stss /\ def \in Defs  BY DEF Types
<1>2. /\ wk.pc \in Pcs /\ wk.def \in Defs /\ wk.sts \in Stss /\ wk.new \in BOOLEAN
      /\ wk.old \in Admins \cup {0} /\ wk.n \in 0..MaxReplicas /\ wk.d \subseteq Dbs
      /\ wk = [pc |-> wk.pc, def |-> wk.def, sts |-> wk.sts, new |-> wk.new,
               old |-> wk.old, n |-> wk.n, d |-> wk.d]
  BY <1>1 DEF Wks
<1> QED  BY <1>1, <1>2, BoundAssumption DEF Defs, Stss

\* The database the worker is at depends on its set of databases alone.
LEMMA SameD ==
  ASSUME wk'.d = wk.d
  PROVE  D' = D
BY DEF D

\* It is one of them.
LEMMA DIsOne ==
  ASSUME wk.d # {}
  PROVE  D \in wk.d
BY DEF D

\* The worker at rest.
LEMMA IdleType == Idle \in Wks /\ NoSts \in Stss /\ NoDef \in Defs
<1>1. NoDef \in Defs /\ NoSts \in Stss  BY BoundAssumption DEF NoDef, NoSts, Defs, Stss
<1>2. "idle" \in Pcs  BY DEF Pcs
<1> HIDE DEF Pcs
<1> QED  BY <1>1, <1>2, BoundAssumption DEF Idle, Wks

\* Nothing is deployed and nothing is queued at the start.
LEMMA InitInv ==
  ASSUME Init
  PROVE  Inv
<1>1. wk = Idle /\ wk.pc = "idle" /\ ~wk.new  BY DEF Init, Idle
<1>2. ~sts.on /\ ~def.on  BY DEF Init, NoSts, NoDef
<1>3. Types
  <2>1. def \in Defs /\ sts \in Stss /\ wk \in Wks  BY IdleType DEF Init
  <2>2. changes \in 0..MaxChanges /\ faults \in 0..MaxFaults /\ restarts \in 0..MaxRestarts
    BY BoundAssumption DEF Init
  <2>3. /\ node \in [Nodes -> Admins \cup {0, NoDb}] /\ on \in [DbNames -> SUBSET Nodes]
        /\ workers \in [DbNames -> SUBSET Nodes]
    BY DEF Init
  <2>5. rq \in Rqs  BY BoundAssumption DEF Init, NoRq, Rqs
  <2>4. /\ secret \in BOOLEAN /\ service \in BOOLEAN /\ settled \subseteq Dbs /\ pending \in Nat
        /\ good \in BOOLEAN /\ broken \subseteq {"admin", "scale", "notify", "deletion"}
        /\ replays \in [told : Nat, made : Nat]
    BY DEF Init
  <2> QED  BY <2>1, <2>2, <2>3, <2>4, <2>5 DEF Types
<1>4. Control  BY <1>1, <1>2 DEF Control, At, Scaling
<1>5. Credentials /\ Registered  BY <1>2 DEF Credentials, Registered, Init, NoRq
<1>6. Notified  BY <1>1 DEF Init, Notified
<1>7. Items  BY <1>1, <1>2, BoundAssumption DEF Init, Items, At
<1>8. Done  BY DEF Init, Done
<1> QED  BY <1>3, <1>4, <1>5, <1>6, <1>7, <1>8 DEF Inv

----------------------------------------------------------------------------
(* A failure: what the next call will not find out is in broken.           *)

\* The item goes back, and nothing that was half done is promised any longer.
LEMMA FailInv ==
  ASSUME Inv, Fail, wk.pc # "idle", faults' \in 0..MaxFaults
  PROVE  Inv'
<1>1. Types /\ Control /\ Credentials /\ Registered /\ Notified /\ Items /\ Done
  BY DEF Inv
<1>2. UNCHANGED <<def, secret, sts, service, node, on, workers, rq, settled, good, replays, changes, restarts>>
  BY DEF Fail
<1>3. wk' = Idle /\ wk'.pc = "idle" /\ wk'.new = FALSE  BY DEF Fail, Idle
<1>4. pending' = pending + 1 /\ pending \in Nat  BY <1>1 DEF Fail, Types
<1>5. broken' = broken \cup Forgotten  BY DEF Fail
<1>6. /\ wk.pc = "change" => "admin" \in broken'
      /\ wk.pc \in Scaling => "scale" \in broken'
      /\ wk.new => "notify" \in broken'
      /\ \A x : x \notin broken' => x \notin broken
      /\ broken' \subseteq {"admin", "scale", "notify", "deletion"}
  BY <1>1, <1>5 DEF Forgotten, Scaling, Types
<1>7. Types'  BY <1>1, <1>2, <1>3, <1>4, <1>6, IdleType DEF Types
<1>8. Control'  BY <1>3 DEF Control, At, Scaling
<1>9. Credentials'  BY <1>1, <1>2, <1>6, Fields DEF Credentials, Scaling
<1>10. Registered'  BY <1>1, <1>2, <1>6, Fields DEF Registered, At, Scaling
<1>11. Notified'  BY <1>1, <1>2, <1>3, <1>6, Fields DEF Notified, Types
<1>12. Items'  BY <1>1, <1>2, <1>3, <1>4, <1>6, Fields DEF Items, At, Types
<1>13. Done'  BY <1>1, <1>2, <1>3 DEF Done
<1> QED  BY <1>7, <1>8, <1>9, <1>10, <1>11, <1>12, <1>13 DEF Inv

\* Any call may fail.
LEMMA CallFailsInv ==
  ASSUME Inv, CallFails
  PROVE  Inv'
<1>1. wk.pc # "idle" /\ Fail  BY DEF CallFails
<1>2. faults' \in 0..MaxFaults  BY BoundAssumption DEF CallFails, Inv, Types
<1> QED  BY <1>1, <1>2, FailInv

----------------------------------------------------------------------------
(* The steps of handler().                                                 *)

\* The worker takes an item.
LEMMA GetInv ==
  ASSUME Inv, Get
  PROVE  Inv'
<1>1. Types /\ Control /\ Credentials /\ Registered /\ Notified /\ Items /\ Done
  BY DEF Inv
<1>2. UNCHANGED <<def, secret, sts, service, node, on, workers, rq, settled, good,
                  broken, replays, changes, faults, restarts>>
  BY DEF Get
<1>3. At("idle")  BY DEF Get
<1>4. /\ wk'.pc = "getDef" /\ wk'.def = NoDef /\ wk'.sts = NoSts /\ wk'.new = FALSE
      /\ wk'.old = 0 /\ wk'.n = 0 /\ wk'.d = {}
  BY <1>1, Fields DEF Get, At, Idle
<1>5. pending > 0 /\ pending' = pending - 1  BY DEF Get
<1>6. wk' \in Wks
  <2>1. "getDef" \in Pcs  BY DEF Pcs
  <2>2. wk' = [Idle EXCEPT !.pc = "getDef"]  BY DEF Get
  <2> HIDE DEF Pcs
  <2> QED  BY <2>1, <2>2, IdleType DEF Wks
<1>7. Types'  BY <1>1, <1>2, <1>6, <1>5 DEF Types
<1>8. Control'  BY <1>1, <1>2, <1>3, <1>4, <1>5, Fields DEF Control, At, Scaling
<1>9. Credentials'  BY <1>1, <1>2, <1>3, <1>4, <1>5, Fields DEF Credentials, At
<1>10. Registered'  BY <1>1, <1>2, <1>3, <1>4, <1>5, SameD, Fields DEF Registered, At
<1>11. Notified'  BY <1>1, <1>2, <1>3, <1>4, <1>5, Fields DEF Notified, At, Control
<1>12. Items'  BY <1>1, <1>2, <1>3, <1>4, <1>5, Fields DEF Items, At, Types, Control
<1>13. Done'  BY <1>1, <1>2, <1>3, <1>4, <1>5, Fields DEF Done, At, Control
<1> QED  BY <1>7, <1>8, <1>9, <1>10, <1>11, <1>12, <1>13 DEF Inv

\* The present object is read.
LEMMA GetDefInv ==
  ASSUME Inv, GetDef
  PROVE  Inv'
<1>1. Types /\ Control /\ Credentials /\ Registered /\ Notified /\ Items /\ Done
  BY DEF Inv
<1>2. UNCHANGED <<def, secret, sts, service, node, on, workers, rq, settled, pending,
                  good, broken, replays, changes, faults, restarts>>
  BY DEF GetDef
<1>3. At("getDef")  BY DEF GetDef
<1>4. /\ wk'.pc = "getSts" /\ wk'.def = def /\ wk'.sts = wk.sts /\ wk'.new = wk.new
      /\ wk'.old = wk.old /\ wk'.n = wk.n /\ wk'.d = wk.d
  BY <1>1, Fields DEF GetDef, At
<1>5. wk' \in Wks
  <2>1. wk'.pc \in Pcs  BY <1>3, <1>4 DEF Pcs, At
  <2>2. wk' = [pc |-> wk'.pc, def |-> wk'.def, sts |-> wk'.sts, new |-> wk'.new,
               old |-> wk'.old, n |-> wk'.n, d |-> wk'.d]
    BY <1>1, Fields DEF GetDef, At
  <2> HIDE DEF Pcs
  <2> QED  BY <2>1, <2>2, <1>1, <1>4, Fields, <1>2 DEF Wks
<1>6. Types'  BY <1>1, <1>2, <1>5 DEF Types
<1>7. Control'  BY <1>1, <1>2, <1>3, <1>4, Fields DEF Control, At, Scaling
<1>8. Credentials'  BY <1>1, <1>2, <1>3, <1>4, Fields DEF Credentials, At
<1>9. Registered'  BY <1>1, <1>2, <1>3, <1>4, SameD, Fields DEF Registered, At
<1>10. Notified'  BY <1>1, <1>2, <1>3, <1>4, Fields DEF Notified, At, Control
<1>11. Items'  BY <1>1, <1>2, <1>3, <1>4, Fields DEF Items, At, Types, Control
<1>12. Done'  BY <1>1, <1>2, <1>3, <1>4, Fields DEF Done, At, Control
<1> QED  BY <1>6, <1>7, <1>8, <1>9, <1>10, <1>11, <1>12 DEF Inv

\* The present StatefulSet is read; the worker alone changes it.
LEMMA GetStsInv ==
  ASSUME Inv, GetSts
  PROVE  Inv'
<1>1. Types /\ Control /\ Credentials /\ Registered /\ Notified /\ Items /\ Done
  BY DEF Inv
<1>2. UNCHANGED <<def, secret, sts, service, node, on, workers, rq, settled, pending,
                  good, broken, replays, changes, faults, restarts>>
  BY DEF GetSts
<1>3. At("getSts")  BY DEF GetSts
<1>4. /\ wk'.pc = (CASE ~wk.def.on /\ sts.on  -> "deleteSts"
                   [] ~wk.def.on /\ ~sts.on -> "done"
                   [] wk.def.on /\ ~sts.on  -> "secret"
                   [] wk.def.on /\ sts.on   -> "defaults")
      /\ wk'.def = wk.def /\ wk'.sts = sts /\ wk'.new = wk.new
      /\ wk'.old = wk.old /\ wk'.n = wk.n /\ wk'.d = wk.d
  BY <1>1, Fields DEF GetSts, At
<1>5. wk' \in Wks
  <2>1. wk'.pc \in Pcs  BY <1>3, <1>4 DEF Pcs, At
  <2>2. wk' = [pc |-> wk'.pc, def |-> wk'.def, sts |-> wk'.sts, new |-> wk'.new,
               old |-> wk'.old, n |-> wk'.n, d |-> wk'.d]
    BY <1>1, Fields DEF GetSts, At
  <2> HIDE DEF Pcs
  <2> QED  BY <2>1, <2>2, <1>1, <1>4, Fields DEF Wks
<1>6. Types'  BY <1>1, <1>2, <1>5 DEF Types
<1>7. Control'  BY <1>1, <1>2, <1>3, <1>4, Fields DEF Control, At, Scaling
<1>8. Credentials'  BY <1>1, <1>2, <1>3, <1>4, Fields DEF Credentials, At
<1>9. Registered'  BY <1>1, <1>2, <1>3, <1>4, SameD, Fields DEF Registered, At
<1>10. Notified'  BY <1>1, <1>2, <1>3, <1>4, Fields DEF Notified, At, Control
<1>11. Items'  BY <1>1, <1>2, <1>3, <1>4, Fields DEF Items, At, Types, Control
<1>12. Done'  BY <1>1, <1>2, <1>3, <1>4, Fields DEF Done, At, Control
<1> QED  BY <1>6, <1>7, <1>8, <1>9, <1>10, <1>11, <1>12 DEF Inv

\* The StatefulSet of a deleted object goes.
LEMMA DeleteStsInv ==
  ASSUME Inv, DeleteSts
  PROVE  Inv'
<1>1. Types /\ Control /\ Credentials /\ Registered /\ Notified /\ Items /\ Done
  BY DEF Inv
<1>2. UNCHANGED <<def, secret, service, node, on, workers, rq, settled, pending, good,
                  broken, replays, changes, faults, restarts>>
  BY DEF DeleteSts
<1>3. At("deleteSts")  BY DEF DeleteSts
<1>4. /\ wk'.pc = "done" /\ wk'.def = wk.def /\ wk'.sts = wk.sts /\ wk'.new = wk.new
      /\ wk'.old = wk.old /\ wk'.n = wk.n /\ wk'.d = wk.d
  BY <1>1, Fields DEF DeleteSts, Goto
<1>5. sts' = NoSts /\ ~sts'.on  BY DEF DeleteSts, NoSts
<1>6. wk' \in Wks
  <2>1. wk'.pc \in Pcs  BY <1>3, <1>4 DEF Pcs, At
  <2>2. wk' = [pc |-> wk'.pc, def |-> wk'.def, sts |-> wk'.sts, new |-> wk'.new,
               old |-> wk'.old, n |-> wk'.n, d |-> wk'.d]
    BY <1>1, Fields DEF DeleteSts, Goto
  <2> HIDE DEF Pcs
  <2> QED  BY <2>1, <2>2, <1>1, <1>4, Fields DEF Wks
<1>7. Types'  BY <1>1, <1>2, <1>6, <1>5, IdleType DEF Types
<1>8. Control'  BY <1>1, <1>2, <1>3, <1>4, <1>5, Fields DEF Control, At, Scaling
<1>9. Credentials'  BY <1>1, <1>2, <1>3, <1>4, <1>5, Fields DEF Credentials, At
<1>10. Registered'  BY <1>1, <1>2, <1>3, <1>4, <1>5, SameD, Fields DEF Registered, At
<1>11. Notified'  BY <1>1, <1>2, <1>3, <1>4, <1>5, Fields DEF Notified, At, Control
<1>12. Items'  BY <1>1, <1>2, <1>3, <1>4, <1>5, Fields DEF Items, At, Types, Control
<1>13. Done'  BY <1>1, <1>2, <1>3, <1>4, <1>5, Fields DEF Done, At, Control
<1> QED  BY <1>7, <1>8, <1>9, <1>10, <1>11, <1>12, <1>13 DEF Inv

\* The default secret.
LEMMA createSecretForPGInv ==
  ASSUME Inv, createSecretForPG
  PROVE  Inv'
<1>1. Types /\ Control /\ Credentials /\ Registered /\ Notified /\ Items /\ Done
  BY DEF Inv
<1>2. UNCHANGED <<def, sts, service, node, on, workers, rq, settled, pending, good,
                  broken, replays, changes, faults, restarts>>
  BY DEF createSecretForPG
<1>3. At("secret")  BY DEF createSecretForPG
<1>4. /\ wk'.pc = "createSts" /\ wk'.def = wk.def /\ wk'.sts = wk.sts /\ wk'.new = wk.new
      /\ wk'.old = wk.old /\ wk'.n = wk.n /\ wk'.d = wk.d
  BY <1>1, Fields DEF createSecretForPG, Goto
<1>5. wk' \in Wks
  <2>1. wk'.pc \in Pcs  BY <1>3, <1>4 DEF Pcs, At
  <2>2. wk' = [pc |-> wk'.pc, def |-> wk'.def, sts |-> wk'.sts, new |-> wk'.new,
               old |-> wk'.old, n |-> wk'.n, d |-> wk'.d]
    BY <1>1, Fields DEF createSecretForPG, Goto
  <2> HIDE DEF Pcs
  <2> QED  BY <2>1, <2>2, <1>1, <1>4, Fields DEF Wks
<1>6. Types'
  <2>1. secret' \in BOOLEAN  BY <1>1 DEF Types, createSecretForPG
  <2> QED  BY <1>1, <1>2, <1>5, <2>1 DEF Types
<1>7. Control'  BY <1>1, <1>2, <1>3, <1>4, Fields DEF Control, At, Scaling
<1>8. Credentials'  BY <1>1, <1>2, <1>3, <1>4, Fields DEF Credentials, At
<1>9. Registered'  BY <1>1, <1>2, <1>3, <1>4, SameD, Fields DEF Registered, At
<1>10. Notified'  BY <1>1, <1>2, <1>3, <1>4, Fields DEF Notified, At, Control
<1>11. Items'  BY <1>1, <1>2, <1>3, <1>4, Fields DEF Items, At, Types, Control
<1>12. Done'  BY <1>1, <1>2, <1>3, <1>4, Fields DEF Done, At, Control
<1> QED  BY <1>6, <1>7, <1>8, <1>9, <1>10, <1>11, <1>12 DEF Inv

\* The new cluster has one node, and what the worker knows of it is new.
LEMMA createPGClusterInv ==
  ASSUME Inv, createPGCluster
  PROVE  Inv'
<1>1. Types /\ Control /\ Credentials /\ Registered /\ Notified /\ Items /\ Done
  BY DEF Inv
<1>2. UNCHANGED <<def, secret, service, node, on, workers, pending, good,
                  changes, faults, restarts>>
  BY DEF createPGCluster
<1>3. At("createSts")  BY DEF createPGCluster
<1>4. /\ wk'.pc = "createSvc" /\ wk'.def = wk.def /\ wk'.sts = sts' /\ wk'.new = TRUE
      /\ wk'.old = wk.old /\ wk'.n = wk.n /\ wk'.d = wk.d
  BY <1>1, Fields DEF createPGCluster, At
<1>5. /\ sts'.on /\ sts'.cred = wk.def.admin /\ sts'.replicas = 1 /\ sts' \in Stss
  BY <1>1, Fields, BoundAssumption DEF createPGCluster, Stss
<1>6. /\ \A x : x \notin broken' => x \notin broken
      /\ broken' \subseteq {"admin", "scale", "notify", "deletion"}
  BY <1>1 DEF createPGCluster, Types
<1>7. /\ replays' \in [told : Nat, made : Nat]
      /\ replays'.told = replays.told /\ replays'.made = replays.made + 1
      /\ replays.told \in Nat /\ replays.made \in Nat
  BY <1>1 DEF createPGCluster, Types
<1>8. "admin" \notin broken' => node[0] \in {NoDb, wk.def.admin}
  <2>1. 0 \in Nodes  BY BoundAssumption DEF Nodes
  <2> QED  BY <2>1 DEF createPGCluster
<1>9. wk' \in Wks
  <2>1. wk'.pc \in Pcs  BY <1>3, <1>4 DEF Pcs, At
  <2>2. wk' = [pc |-> wk'.pc, def |-> wk'.def, sts |-> wk'.sts, new |-> wk'.new,
               old |-> wk'.old, n |-> wk'.n, d |-> wk'.d]
    BY <1>1, Fields DEF createPGCluster, At
  <2> HIDE DEF Pcs
  <2> QED  BY <2>1, <2>2, <1>1, <1>4, Fields, <1>5 DEF Wks
<1>17. settled' = {} /\ rq' = [rq EXCEPT !.late = TRUE] /\ rq' \in Rqs /\ rq'.pc = rq.pc
       /\ rq'.d = rq.d /\ rq'.n = rq.n /\ rq'.late
  BY <1>1 DEF createPGCluster, Resized, Types, Rqs
<1>10. Types'
  <2>1. /\ sts' \in Stss /\ replays' \in [told : Nat, made : Nat]
        /\ broken' \subseteq {"admin", "scale", "notify", "deletion"}
    BY <1>5, <1>6, <1>7
  <2> QED  BY <1>1, <1>2, <1>9, <1>17, <2>1 DEF Types
<1>11. Control'
  BY <1>1, <1>2, <1>3, <1>4, <1>5, <1>6, <1>7, <1>8, Fields DEF Control, At, Scaling
<1>12. Credentials'
  BY <1>1, <1>2, <1>3, <1>4, <1>5, <1>6, <1>7, <1>8, Fields DEF Credentials, At
<1>13. Registered'
  BY <1>1, <1>17 DEF Registered
<1>14. Notified'
  BY <1>1, <1>2, <1>3, <1>4, <1>5, <1>6, <1>7, <1>8, Fields DEF Notified, At, Control
<1>15. Items'
  BY <1>1, <1>2, <1>3, <1>4, <1>5, <1>6, <1>7, <1>8, Fields DEF Items, At, Types, Control
<1>16. Done'
  BY <1>1, <1>2, <1>3, <1>4, <1>5, <1>6, <1>7, <1>8, Fields DEF Done, At, Control
<1> QED  BY <1>10, <1>11, <1>12, <1>13, <1>14, <1>15, <1>16 DEF Inv

\* The headless service.
LEMMA createPGClusterServiceInv ==
  ASSUME Inv, createPGClusterService
  PROVE  Inv'
<1>1. Types /\ Control /\ Credentials /\ Registered /\ Notified /\ Items /\ Done
  BY DEF Inv
<1>2. UNCHANGED <<def, secret, sts, node, on, workers, rq, settled, pending, good,
                  broken, replays, changes, faults, restarts>>
  BY DEF createPGClusterService
<1>3. At("createSvc")  BY DEF createPGClusterService
<1>4. /\ wk'.pc = "compare" /\ wk'.def = wk.def /\ wk'.sts = wk.sts /\ wk'.new = wk.new
      /\ wk'.old = wk.old /\ wk'.n = wk.n /\ wk'.d = wk.d
  BY <1>1, Fields DEF createPGClusterService, Goto
<1>5. wk' \in Wks
  <2>1. wk'.pc \in Pcs  BY <1>3, <1>4 DEF Pcs, At
  <2>2. wk' = [pc |-> wk'.pc, def |-> wk'.def, sts |-> wk'.sts, new |-> wk'.new,
               old |-> wk'.old, n |-> wk'.n, d |-> wk'.d]
    BY <1>1, Fields DEF createPGClusterService, Goto
  <2> HIDE DEF Pcs
  <2> QED  BY <2>1, <2>2, <1>1, <1>4, Fields DEF Wks
<1>6. Types'
  <2>1. service' \in BOOLEAN  BY DEF createPGClusterService
  <2> QED  BY <1>1, <1>2, <1>5, <2>1 DEF Types
<1>7. Control'  BY <1>1, <1>2, <1>3, <1>4, Fields DEF Control, At, Scaling
<1>8. Credentials'  BY <1>1, <1>2, <1>3, <1>4, Fields DEF Credentials, At
<1>9. Registered'  BY <1>1, <1>2, <1>3, <1>4, SameD, Fields DEF Registered, At
<1>10. Notified'  BY <1>1, <1>2, <1>3, <1>4, Fields DEF Notified, At, Control
<1>11. Items'  BY <1>1, <1>2, <1>3, <1>4, Fields DEF Items, At, Types, Control
<1>12. Done'  BY <1>1, <1>2, <1>3, <1>4, Fields DEF Done, At, Control
<1> QED  BY <1>6, <1>7, <1>8, <1>9, <1>10, <1>11, <1>12 DEF Inv

\* An object without an administrator needs the default secret.
LEMMA DefaultsInv ==
  ASSUME Inv, Defaults
  PROVE  Inv'
<1>1. CASE wk.def.admin = 0 /\ ~secret
  <2>1. Fail /\ UNCHANGED faults  BY <1>1 DEF Defaults
  <2>2. wk.pc # "idle" /\ faults \in 0..MaxFaults  BY DEF Defaults, At, Inv, Types
  <2> QED  BY <2>1, <2>2, FailInv
<1>2. CASE ~(wk.def.admin = 0 /\ ~secret)
  <2>1. Types /\ Control /\ Credentials /\ Registered /\ Notified /\ Items /\ Done
    BY DEF Inv
  <2>2. UNCHANGED <<def, secret, sts, service, node, on, workers, rq, settled, pending,
                    good, broken, replays, changes, faults, restarts>>
    BY <1>2 DEF Defaults
  <2>3. At("defaults")  BY <1>2 DEF Defaults
  <2>4. /\ wk'.pc = "compare" /\ wk'.def = wk.def /\ wk'.sts = wk.sts /\ wk'.new = wk.new
        /\ wk'.old = wk.old /\ wk'.n = wk.n /\ wk'.d = wk.d
    BY <1>2, <2>1, Fields DEF Defaults, Goto
  <2>5. wk' \in Wks
    <3>1. wk'.pc \in Pcs  BY <2>3, <2>4 DEF Pcs, At
    <3>2. wk' = [pc |-> wk'.pc, def |-> wk'.def, sts |-> wk'.sts, new |-> wk'.new,
                 old |-> wk'.old, n |-> wk'.n, d |-> wk'.d]
      BY <1>2, <2>1, Fields DEF Defaults, Goto
    <3> HIDE DEF Pcs
    <3> QED  BY <3>1, <3>2, <2>1, <2>4, Fields DEF Wks
  <2>6. Types'  BY <2>1, <2>2, <2>5 DEF Types
  <2>7. Control'  BY <2>1, <2>2, <2>3, <2>4, Fields DEF Control, At, Scaling
  <2>8. Credentials'  BY <2>1, <2>2, <2>3, <2>4, Fields DEF Credentials, At
  <2>9. Registered'  BY <2>1, <2>2, <2>3, <2>4, SameD, Fields DEF Registered, At
  <2>10. Notified'  BY <2>1, <2>2, <2>3, <2>4, Fields DEF Notified, At, Control
  <2>11. Items'  BY <2>1, <2>2, <2>3, <2>4, Fields DEF Items, At, Types, Control
  <2>12. Done'  BY <2>1, <2>2, <2>3, <2>4, Fields DEF Done, At, Control
  <2> QED  BY <2>6, <2>7, <2>8, <2>9, <2>10, <2>11, <2>12 DEF Inv
<1> QED  BY <1>1, <1>2

\* The worker compares what it has read.
LEMMA MustUpdateClusterAdminUserInv ==
  ASSUME Inv, MustUpdateClusterAdminUser
  PROVE  Inv'
<1>1. Types /\ Control /\ Credentials /\ Registered /\ Notified /\ Items /\ Done
  BY DEF Inv
<1>2. UNCHANGED <<def, secret, sts, service, node, on, workers, rq, settled, pending,
                  good, broken, replays, changes, faults, restarts>>
  BY DEF MustUpdateClusterAdminUser
<1>3. At("compare")  BY DEF MustUpdateClusterAdminUser
<1>4. /\ wk'.pc = (IF MustUpdate THEN "patch" ELSE "notify")
      /\ wk'.def = wk.def /\ wk'.sts = wk.sts /\ wk'.new = wk.new
      /\ wk'.old = wk.sts.cred /\ wk'.n = 0 /\ wk'.d = wk.d
  BY <1>1, Fields DEF MustUpdateClusterAdminUser, At
<1>5. wk' \in Wks
  <2>1. wk'.pc \in Pcs  BY <1>3, <1>4 DEF Pcs, At
  <2>2. wk' = [pc |-> wk'.pc, def |-> wk'.def, sts |-> wk'.sts, new |-> wk'.new,
               old |-> wk'.old, n |-> wk'.n, d |-> wk'.d]
    BY <1>1, Fields DEF MustUpdateClusterAdminUser, At
  <2> HIDE DEF Pcs
  <2> QED  BY <2>1, <2>2, <1>1, <1>4, Fields, BoundAssumption DEF Wks
<1>6. Types'  BY <1>1, <1>2, <1>5 DEF Types
<1>7. Control'  BY <1>1, <1>2, <1>3, <1>4, Fields DEF Control, At, Scaling, MustUpdate
<1>8. Credentials'  BY <1>1, <1>2, <1>3, <1>4, Fields DEF Credentials, At
<1>9. Registered'  BY <1>1, <1>2, <1>3, <1>4, SameD, Fields DEF Registered, At
<1>10. Notified'  BY <1>1, <1>2, <1>3, <1>4, Fields DEF Notified, At, Control
<1>11. Items'  BY <1>1, <1>2, <1>3, <1>4, Fields DEF Items, At, Types, Control
<1>12. Done'  BY <1>1, <1>2, <1>3, <1>4, Fields DEF Done, At, Control, MustUpdate
<1> QED  BY <1>6, <1>7, <1>8, <1>9, <1>10, <1>11, <1>12 DEF Inv

\* The StatefulSet has the new credential; no node has.
LEMMA PatchStsInv ==
  ASSUME Inv, PatchSts
  PROVE  Inv'
<1>1. CASE ~(sts.on /\ sts.from = NewSource)
  <2>1. Fail /\ UNCHANGED faults  BY <1>1 DEF PatchSts
  <2>2. wk.pc # "idle" /\ faults \in 0..MaxFaults  BY DEF PatchSts, At, Inv, Types
  <2> QED  BY <2>1, <2>2, FailInv
<1>2. CASE sts.on /\ sts.from = NewSource
  <2>1. Types /\ Control /\ Credentials /\ Registered /\ Notified /\ Items /\ Done
    BY DEF Inv
  <2>2. UNCHANGED <<def, secret, service, node, on, workers, rq, settled, pending, good,
                    broken, replays, changes, faults, restarts>>
    BY <1>2 DEF PatchSts
  <2>3. At("patch")  BY <1>2 DEF PatchSts
  <2>4. /\ wk'.pc = "change" /\ wk'.def = wk.def /\ wk'.sts = wk.sts /\ wk'.new = wk.new
        /\ wk'.old = wk.old /\ wk'.n = wk.n /\ wk'.d = wk.d
    BY <1>2, <2>1, Fields DEF PatchSts, Goto
  <2>5. /\ sts'.on = sts.on /\ sts'.replicas = sts.replicas /\ sts'.cred = wk.def.admin
        /\ sts' \in Stss
    BY <1>2, <2>1, Fields DEF PatchSts, Stss
  <2>6. wk' \in Wks
    <3>1. wk'.pc \in Pcs  BY <2>3, <2>4 DEF Pcs, At
    <3>2. wk' = [pc |-> wk'.pc, def |-> wk'.def, sts |-> wk'.sts, new |-> wk'.new,
                 old |-> wk'.old, n |-> wk'.n, d |-> wk'.d]
      BY <1>2, <2>1, Fields DEF PatchSts, Goto
    <3> HIDE DEF Pcs
    <3> QED  BY <3>1, <3>2, <2>1, <2>4, Fields DEF Wks
  <2>7. Types'  BY <2>1, <2>2, <2>6, <2>5 DEF Types
  <2>8. Control'  BY <2>1, <2>2, <2>3, <2>4, <2>5, Fields DEF Control, At, Scaling
  <2>9. Credentials'  BY <2>1, <2>2, <2>3, <2>4, <2>5, Fields DEF Credentials, At, Control
  <2>10. Registered'  BY <2>1, <2>2, <2>3, <2>4, <2>5, SameD, Fields DEF Registered, At
  <2>11. Notified'  BY <2>1, <2>2, <2>3, <2>4, <2>5, Fields DEF Notified, At, Control
  <2>12. Items'  BY <2>1, <2>2, <2>3, <2>4, <2>5, Fields DEF Items, At, Types, Control
  <2>13. Done'  BY <2>1, <2>2, <2>3, <2>4, <2>5, Fields DEF Done, At, Control
  <2> QED  BY <2>7, <2>8, <2>9, <2>10, <2>11, <2>12, <2>13 DEF Inv
<1> QED  BY <1>1, <1>2

\* One node more has the new credential.
LEMMA ChangeAdminUserInv ==
  ASSUME Inv, ChangeAdminUser
  PROVE  Inv'
<1>1. CASE ~(node[wk.n] = wk.old)
  <2>1. Fail /\ UNCHANGED faults  BY <1>1 DEF ChangeAdminUser
  <2>2. wk.pc # "idle" /\ faults \in 0..MaxFaults  BY DEF ChangeAdminUser, At, Inv, Types
  <2> QED  BY <2>1, <2>2, FailInv
<1>2. CASE node[wk.n] = wk.old
  <2>1. Types /\ Control /\ Credentials /\ Registered /\ Notified /\ Items /\ Done
    BY DEF Inv
  <2>2. UNCHANGED <<def, secret, sts, service, on, workers, rq, settled, pending, good,
                    broken, replays, changes, faults, restarts>>
    BY <1>2 DEF ChangeAdminUser
  <2>3. At("change")  BY <1>2 DEF ChangeAdminUser
  <2>4. /\ wk'.pc = (IF wk.n + 1 < wk.sts.replicas THEN "change" ELSE "notify")
        /\ wk'.def = wk.def /\ wk'.sts = wk.sts /\ wk'.new = wk.new
        /\ wk'.old = wk.old /\ wk'.n = wk.n + 1 /\ wk'.d = wk.d
    BY <1>2, <2>1, Fields DEF ChangeAdminUser, At
  <2>5. wk.n \in Nodes /\ wk.n < wk.sts.replicas
    BY <2>1, <2>3, Fields, BoundAssumption DEF Control, At, Nodes
  <2>6. node' = [node EXCEPT ![wk.n] = wk.def.admin]  BY <1>2 DEF ChangeAdminUser
  <2>7. /\ node' \in [Nodes -> Admins \cup {0, NoDb}] /\ node'[wk.n] = wk.def.admin
        /\ \A m \in Nodes : m # wk.n => node'[m] = node[m]
    BY <2>1, <2>5, <2>6, Fields DEF Types
  <2>8. wk' \in Wks
    <3>1. wk'.pc \in Pcs  BY <2>3, <2>4 DEF Pcs, At
    <3>2. wk' = [pc |-> wk'.pc, def |-> wk'.def, sts |-> wk'.sts, new |-> wk'.new,
                 old |-> wk'.old, n |-> wk'.n, d |-> wk'.d]
      BY <1>2, <2>1, Fields DEF ChangeAdminUser, At
    <3> HIDE DEF Pcs
    <3> QED  BY <3>1, <3>2, <2>1, <2>4, Fields, <2>5, BoundAssumption DEF Wks
  <2>9. Types'  BY <2>1, <2>2, <2>8, <2>7 DEF Types
  <2>10. Control'  BY <2>1, <2>2, <2>3, <2>4, <2>5, <2>7, Fields DEF Control, At, Scaling
  <2>11. Credentials'
    BY <2>1, <2>2, <2>3, <2>4, <2>5, <2>7, Fields, BoundAssumption DEF Credentials, At, Nodes, Control
  <2>12. Registered'
    BY <2>1, <2>2, <2>3, <2>4, <2>5, <2>7, SameD, Fields DEF Registered, At
  <2>13. Notified'  BY <2>1, <2>2, <2>3, <2>4, <2>5, <2>7, Fields DEF Notified, At, Control
  <2>14. Items'  BY <2>1, <2>2, <2>3, <2>4, <2>5, <2>7, Fields DEF Items, At, Types, Control
  <2>15. Done'  BY <2>1, <2>2, <2>3, <2>4, <2>5, <2>7, Fields DEF Done, At, Control
  <2> QED  BY <2>9, <2>10, <2>11, <2>12, <2>13, <2>14, <2>15 DEF Inv
<1> QED  BY <1>1, <1>2

\* The cluster that is new is made known.
LEMMA NotifyInv ==
  ASSUME Inv, Notify
  PROVE  Inv'
<1>1. Types /\ Control /\ Credentials /\ Registered /\ Notified /\ Items /\ Done
  BY DEF Inv
<1>2. UNCHANGED <<def, secret, sts, service, node, on, workers, rq, settled, pending,
                  good, broken, changes, faults, restarts>>
  BY DEF Notify
<1>3. At("notify")  BY DEF Notify
<1>4. /\ wk'.pc = (IF wk.def.replicas # wk.sts.replicas THEN "scale" ELSE "done")
      /\ wk'.def = wk.def /\ wk'.sts = wk.sts /\ wk'.new = FALSE
      /\ wk'.old = wk.old /\ wk'.n = wk.n /\ wk'.d = wk.d
  BY <1>1, Fields DEF Notify, At
<1>5. /\ replays' \in [told : Nat, made : Nat] /\ replays'.made = replays.made
      /\ replays'.told = replays.told + (IF wk.new THEN 1 ELSE 0)
      /\ replays.told \in Nat /\ replays.made \in Nat
  BY <1>1 DEF Notify, Types
<1>6. wk' \in Wks
  <2>1. wk'.pc \in Pcs  BY <1>3, <1>4 DEF Pcs, At
  <2>2. wk' = [pc |-> wk'.pc, def |-> wk'.def, sts |-> wk'.sts, new |-> wk'.new,
               old |-> wk'.old, n |-> wk'.n, d |-> wk'.d]
    BY <1>1, Fields DEF Notify, At
  <2> HIDE DEF Pcs
  <2> QED  BY <2>1, <2>2, <1>1, <1>4, Fields DEF Wks
<1>7. Types'  BY <1>1, <1>2, <1>6, <1>5 DEF Types
<1>8. Control'  BY <1>1, <1>2, <1>3, <1>4, <1>5, Fields DEF Control, At, Scaling
<1>9. Credentials'  BY <1>1, <1>2, <1>3, <1>4, <1>5, Fields DEF Credentials, At
<1>10. Registered'  BY <1>1, <1>2, <1>3, <1>4, <1>5, SameD, Fields DEF Registered, At
<1>11. Notified'  BY <1>1, <1>2, <1>3, <1>4, <1>5, Fields DEF Notified, At, Control
<1>12. Items'  BY <1>1, <1>2, <1>3, <1>4, <1>5, Fields DEF Items, At, Types, Control
<1>13. Done'  BY <1>1, <1>2, <1>3, <1>4, <1>5, Fields DEF Done, At, Control
<1> QED  BY <1>7, <1>8, <1>9, <1>10, <1>11, <1>12, <1>13 DEF Inv

\* The StatefulSet grows; the new nodes are still to be looked at and registered.
LEMMA ScalePGClusterNodesInv ==
  ASSUME Inv, ScalePGClusterNodes
  PROVE  Inv'
<1>1. CASE ~(sts.on /\ wk.def.replicas > sts.replicas)
  <2>1. Fail /\ UNCHANGED faults  BY <1>1 DEF ScalePGClusterNodes
  <2>2. wk.pc # "idle" /\ faults \in 0..MaxFaults
    BY DEF ScalePGClusterNodes, At, Inv, Types
  <2> QED  BY <2>1, <2>2, FailInv
<1>2. CASE sts.on /\ wk.def.replicas > sts.replicas
  <2>1. Types /\ Control /\ Credentials /\ Registered /\ Notified /\ Items /\ Done
    BY DEF Inv
  <2>2. UNCHANGED <<def, secret, service, node, on, workers, pending, good,
                    broken, replays, changes, faults, restarts>>
    BY <1>2 DEF ScalePGClusterNodes
  <2>3. At("scale")  BY <1>2 DEF ScalePGClusterNodes
  <2>4. /\ wk'.pc = "hba" /\ wk'.def = wk.def /\ wk'.sts = wk.sts /\ wk'.new = wk.new
        /\ wk'.old = wk.old /\ wk'.n = sts.replicas /\ wk'.d = wk.d
    BY <1>2, <2>1, Fields DEF ScalePGClusterNodes, At
  <2>5. /\ sts'.on = sts.on /\ sts'.replicas = wk.def.replicas /\ sts'.cred = sts.cred
        /\ sts' \in Stss
    BY <1>2, <2>1, Fields DEF ScalePGClusterNodes, Stss
  <2>6. wk' \in Wks
    <3>1. wk'.pc \in Pcs  BY <2>3, <2>4 DEF Pcs, At
    <3>2. wk' = [pc |-> wk'.pc, def |-> wk'.def, sts |-> wk'.sts, new |-> wk'.new,
                 old |-> wk'.old, n |-> wk'.n, d |-> wk'.d]
      BY <1>2, <2>1, Fields DEF ScalePGClusterNodes, At
    <3> HIDE DEF Pcs
    <3> QED  BY <3>1, <3>2, <2>1, <2>4, Fields, BoundAssumption DEF Wks
  <2>14. settled' = {} /\ rq' = [rq EXCEPT !.late = TRUE] /\ rq' \in Rqs /\ rq'.pc = rq.pc
         /\ rq'.d = rq.d /\ rq'.n = rq.n /\ rq'.late
    BY <1>2, <2>1 DEF ScalePGClusterNodes, Resized, Types, Rqs
  <2>7. Types'  BY <2>1, <2>2, <2>6, <2>5, <2>14 DEF Types
  <2>8. Control'  BY <2>1, <2>2, <2>3, <2>4, <2>5, <1>2, Fields DEF Control, At, Scaling
  <2>9. Credentials'  BY <2>1, <2>2, <2>3, <2>4, <2>5, <1>2, Fields DEF Credentials, At
  <2>10. Registered'
    BY <2>1, <2>14 DEF Registered
  <2>11. Notified'  BY <2>1, <2>2, <2>3, <2>4, <2>5, <1>2, Fields DEF Notified, At, Control
  <2>12. Items'  BY <2>1, <2>2, <2>3, <2>4, <2>5, <1>2, Fields DEF Items, At, Types, Control
  <2>13. Done'  BY <2>1, <2>2, <2>3, <2>4, <2>5, <1>2, Fields DEF Done, At, Control
  <2> QED  BY <2>7, <2>8, <2>9, <2>10, <2>11, <2>12, <2>13 DEF Inv
<1> QED  BY <1>1, <1>2

\* A new node has the credential.
LEMMA UpdateHbaInv ==
  ASSUME Inv, UpdateHba
  PROVE  Inv'
<1>1. CASE ~(node[wk.n] = wk.def.admin)
  <2>1. Fail /\ UNCHANGED faults  BY <1>1 DEF UpdateHba
  <2>2. wk.pc # "idle" /\ faults \in 0..MaxFaults  BY DEF UpdateHba, At, Inv, Types
  <2> QED  BY <2>1, <2>2, FailInv
<1>2. CASE node[wk.n] = wk.def.admin
  <2>1. Types /\ Control /\ Credentials /\ Registered /\ Notified /\ Items /\ Done
    BY DEF Inv
  <2>2. UNCHANGED <<def, secret, sts, service, node, on, workers, rq, settled, pending,
                    good, broken, replays, changes, faults, restarts>>
    BY <1>2 DEF UpdateHba
  <2>3. At("hba")  BY <1>2 DEF UpdateHba
  <2>4. /\ wk'.pc = (IF wk.n + 1 < wk.def.replicas THEN "hba" ELSE "list")
        /\ wk'.def = wk.def /\ wk'.sts = wk.sts /\ wk'.new = wk.new
        /\ wk'.old = wk.old /\ wk'.n = wk.n + 1 /\ wk'.d = wk.d
    BY <1>2, <2>1, Fields DEF UpdateHba, At
  <2>5. wk.n \in Nodes /\ wk.n < wk.def.replicas
    BY <2>1, <2>3, Fields, BoundAssumption DEF Control, At, Nodes, Scaling
  <2>6. wk' \in Wks
    <3>1. wk'.pc \in Pcs  BY <2>3, <2>4 DEF Pcs, At
    <3>2. wk' = [pc |-> wk'.pc, def |-> wk'.def, sts |-> wk'.sts, new |-> wk'.new,
                 old |-> wk'.old, n |-> wk'.n, d |-> wk'.d]
      BY <1>2, <2>1, Fields DEF UpdateHba, At
    <3> HIDE DEF Pcs
    <3> QED  BY <3>1, <3>2, <2>1, <2>4, Fields, <2>5, BoundAssumption DEF Wks
  <2>7. Types'  BY <2>1, <2>2, <2>6 DEF Types
  <2>8. Control'  BY <2>1, <2>2, <2>3, <2>4, <2>5, <1>2, Fields DEF Control, At, Scaling
  <2>9. Credentials'
    BY <2>1, <2>2, <2>3, <2>4, <2>5, <1>2, Fields DEF Credentials, At, Control, Scaling
  <2>10. Registered'
    BY <2>1, <2>2, <2>3, <2>4, <2>5, <1>2, SameD, Fields DEF Registered, At
  <2>11. Notified'  BY <2>1, <2>2, <2>3, <2>4, <2>5, <1>2, Fields DEF Notified, At, Control
  <2>12. Items'  BY <2>1, <2>2, <2>3, <2>4, <2>5, <1>2, Fields DEF Items, At, Types, Control
  <2>13. Done'  BY <2>1, <2>2, <2>3, <2>4, <2>5, <1>2, Fields DEF Done, At, Control
  <2> QED  BY <2>7, <2>8, <2>9, <2>10, <2>11, <2>12, <2>13 DEF Inv
<1> QED  BY <1>1, <1>2

\* The databases the new nodes are to be registered for.
LEMMA ListDatabasesInv ==
  ASSUME Inv, ListDatabases
  PROVE  Inv'
<1>1. Types /\ Control /\ Credentials /\ Registered /\ Notified /\ Items /\ Done
  BY DEF Inv
<1>2. UNCHANGED <<def, secret, sts, service, node, on, workers, rq, settled, pending,
                  good, broken, replays, changes, faults, restarts>>
  BY DEF ListDatabases
<1>3. At("list")  BY DEF ListDatabases
<1>0. PICK S \in SUBSET OwnDbs :
        wk' = [wk EXCEPT !.d = S, !.n = wk.sts.replicas, !.pc = IF S = {} THEN "done" ELSE "node"]
  BY Zenon DEF ListDatabases
<1>4. /\ wk'.pc = (IF S = {} THEN "done" ELSE "node")
      /\ wk'.def = wk.def /\ wk'.sts = wk.sts /\ wk'.new = wk.new
      /\ wk'.old = wk.old /\ wk'.n = wk.sts.replicas /\ wk'.d = S
  BY <1>0, <1>1, Fields DEF At
<1>5. S \subseteq Dbs  BY DbsAssumption
<1>6. wk' \in Wks
  <2>1. wk'.pc \in Pcs  BY <1>3, <1>4 DEF Pcs, At
  <2>2. wk' = [pc |-> wk'.pc, def |-> wk'.def, sts |-> wk'.sts, new |-> wk'.new,
               old |-> wk'.old, n |-> wk'.n, d |-> wk'.d]
    BY <1>0, <1>1, Fields DEF At
  <2> HIDE DEF Pcs
  <2> QED  BY <2>1, <2>2, <1>1, <1>4, Fields, BoundAssumption, <1>5 DEF Wks
<1>7. Types'  BY <1>1, <1>2, <1>6 DEF Types
<1>8. Control'  BY <1>1, <1>2, <1>3, <1>4, Fields DEF Control, At, Scaling
<1>9. Credentials'  BY <1>1, <1>2, <1>3, <1>4, Fields DEF Credentials, At
<1>10. Registered'  BY <1>1, <1>2, <1>3, <1>4, SameD, Fields DEF Registered, At
<1>11. Notified'  BY <1>1, <1>2, <1>3, <1>4, Fields DEF Notified, At, Control
<1>12. Items'  BY <1>1, <1>2, <1>3, <1>4, Fields DEF Items, At, Types, Control
<1>13. Done'  BY <1>1, <1>2, <1>3, <1>4, Fields DEF Done, At, Control
<1> QED  BY <1>7, <1>8, <1>9, <1>10, <1>11, <1>12, <1>13 DEF Inv

\* The statements on the new node.
LEMMA CreateOnNodeInv ==
  ASSUME Inv, CreateOnNode
  PROVE  Inv'
<1>1. Types /\ Control /\ Credentials /\ Registered /\ Notified /\ Items /\ Done
  BY DEF Inv
<1>2. UNCHANGED <<def, secret, sts, service, node, workers, rq, settled, pending,
                  good, broken, replays, changes, faults, restarts>>
  BY DEF CreateOnNode
<1>3. At("node")  BY DEF CreateOnNode
<1>4. /\ wk'.pc = "register" /\ wk'.def = wk.def /\ wk'.sts = wk.sts /\ wk'.new = wk.new
      /\ wk'.old = wk.old /\ wk'.n = wk.n /\ wk'.d = wk.d
  BY <1>1, Fields DEF CreateOnNode, Goto
<1>5. wk' \in Wks
  <2>1. wk'.pc \in Pcs  BY <1>3, <1>4 DEF Pcs, At
  <2>2. wk' = [pc |-> wk'.pc, def |-> wk'.def, sts |-> wk'.sts, new |-> wk'.new,
               old |-> wk'.old, n |-> wk'.n, d |-> wk'.d]
    BY <1>1, Fields DEF CreateOnNode, Goto
  <2> HIDE DEF Pcs
  <2> QED  BY <2>1, <2>2, <1>1, <1>4, Fields DEF Wks
<1>13. on' \in [DbNames -> SUBSET Nodes]
  <2>1. wk.n \in Nodes /\ D \in Dbs
    BY <1>1, <1>3, DIsOne, Fields, BoundAssumption DEF Control, At, Nodes, Scaling
  <2>2. PICK x \in DbNames : x = RawName[D]  BY <2>1 DEF DbNames
  <2>3. on' = [on EXCEPT ![x] = @ \cup {wk.n}]  BY <2>2 DEF CreateOnNode
  <2> QED  BY <1>1, <2>1, <2>3 DEF Types
<1>6. Types'  BY <1>1, <1>2, <1>5, <1>13 DEF Types
<1>7. Control'  BY <1>1, <1>2, <1>3, <1>4, Fields DEF Control, At, Scaling
<1>8. Credentials'  BY <1>1, <1>2, <1>3, <1>4, Fields DEF Credentials, At
<1>9. Registered'  BY <1>1, <1>2, <1>3, <1>4, SameD, Fields DEF Registered, At
<1>10. Notified'  BY <1>1, <1>2, <1>3, <1>4, Fields DEF Notified, At, Control
<1>11. Items'  BY <1>1, <1>2, <1>3, <1>4, Fields DEF Items, At, Types, Control
<1>12. Done'  BY <1>1, <1>2, <1>3, <1>4, Fields DEF Done, At, Control
<1> QED  BY <1>6, <1>7, <1>8, <1>9, <1>10, <1>11, <1>12 DEF Inv

\* One node more is registered for the database.
LEMMA AddWorkerNodeStep ==
  ASSUME Inv, AddWorkerNode, 0 \in on[RawName[D]]
  PROVE  Inv'
<1>1. Types /\ Control /\ Credentials /\ Registered /\ Notified /\ Items /\ Done
  BY DEF Inv
<1>2. UNCHANGED <<def, secret, sts, service, node, on, rq, settled, pending, good,
                  broken, replays, changes, faults, restarts>>
  BY DEF AddWorkerNode
<1>3. At("register")  BY DEF AddWorkerNode
<1>4. /\ wk'.pc = (IF wk.n + 1 < wk.def.replicas THEN "node" ELSE "rebalance")
      /\ wk'.def = wk.def /\ wk'.sts = wk.sts /\ wk'.new = wk.new
      /\ wk'.old = wk.old /\ wk'.n = wk.n + 1 /\ wk'.d = wk.d
  BY <1>1, Fields DEF AddWorkerNode, At
<1>5. wk.n \in Nodes /\ wk.n < wk.def.replicas /\ D \in wk.d /\ D \in Dbs
  BY <1>1, <1>3, DIsOne, Fields, BoundAssumption DEF Control, At, Nodes, Scaling
<1>6. PICK x \in DbNames : x = RawName[D]  BY <1>5 DEF DbNames
<1>8. workers' = [workers EXCEPT ![x] = @ \cup {wk.n}]  BY <1>6 DEF AddWorkerNode
<1>7. /\ workers' \in [DbNames -> SUBSET Nodes]
      /\ \A y \in DbNames : workers[y] \subseteq workers'[y]
  BY <1>1, <1>5, <1>8 DEF Types
<1>9. wk' \in Wks
  <2>1. wk'.pc \in Pcs  BY <1>3, <1>4 DEF Pcs, At
  <2>2. wk' = [pc |-> wk'.pc, def |-> wk'.def, sts |-> wk'.sts, new |-> wk'.new,
               old |-> wk'.old, n |-> wk'.n, d |-> wk'.d]
    BY <1>1, Fields DEF AddWorkerNode, At
  <2> HIDE DEF Pcs
  <2> QED  BY <2>1, <2>2, <1>1, <1>4, Fields, <1>5, BoundAssumption DEF Wks
<1>10. Types'  BY <1>1, <1>2, <1>9, <1>7 DEF Types
<1>11. Control'  BY <1>1, <1>2, <1>3, <1>4, <1>5, Fields DEF Control, At, Scaling
<1>12. Credentials'  BY <1>1, <1>2, <1>3, <1>4, <1>5, Fields DEF Credentials, At
<1>13. Registered'
  <2>1. settled \subseteq DbNames /\ rq.d \subseteq DbNames
    BY <1>1 DEF Types, Rqs, DbNames
  <2> QED  BY <1>1, <1>2, <1>7, <2>1 DEF Registered
<1>14. Notified'  BY <1>1, <1>2, <1>3, <1>4, <1>5, Fields DEF Notified, At, Control
<1>15. Items'  BY <1>1, <1>2, <1>3, <1>4, <1>5, Fields DEF Items, At, Types, Control
<1>16. Done'  BY <1>1, <1>2, <1>3, <1>4, <1>5, Fields DEF Done, At, Control
<1> QED  BY <1>10, <1>11, <1>12, <1>13, <1>14, <1>15, <1>16 DEF Inv

\* Without a database of that name on the master the call fails.
LEMMA AddWorkerNodeInv ==
  ASSUME Inv, AddWorkerNode
  PROVE  Inv'
<1>1. CASE 0 \notin on[RawName[D]]
  <2>1. Fail /\ UNCHANGED faults  BY <1>1 DEF AddWorkerNode
  <2>2. wk.pc # "idle" /\ faults \in 0..MaxFaults  BY DEF AddWorkerNode, At, Inv, Types
  <2> QED  BY <2>1, <2>2, FailInv
<1> QED  BY <1>1, AddWorkerNodeStep

\* The worker goes on to the next database.
LEMMA RebalanceStep ==
  ASSUME Inv, Rebalance, 0 \in on[RawName[D]]
  PROVE  Inv'
<1>1. Types /\ Control /\ Credentials /\ Registered /\ Notified /\ Items /\ Done
  BY DEF Inv
<1>2. UNCHANGED <<def, secret, sts, service, node, on, workers, rq, settled, pending,
                  good, broken, replays, changes, faults, restarts>>
  BY DEF Rebalance
<1>3. At("rebalance")  BY DEF Rebalance
<1>4. /\ wk'.pc = (IF Cardinality(wk.d) = 1 THEN "done" ELSE "node")
      /\ wk'.def = wk.def /\ wk'.sts = wk.sts /\ wk'.new = wk.new
      /\ wk'.old = wk.old /\ wk'.n = wk.sts.replicas /\ wk'.d = wk.d \ {D}
  BY <1>1, Fields DEF Rebalance, At
<1>5. D \in wk.d  BY <1>1, <1>3, DIsOne DEF Control, At
<1>6. Cardinality(wk.d) = 1 <=> wk.d = {D}
  <2>1. IsFiniteSet(wk.d)  BY <1>1, Fields, DbsAssumption, FS_Subset
  <2>2. Cardinality(wk.d) = 1 => \E x : wk.d = {x}  BY <2>1, FS_Singleton
  <2>3. Cardinality({D}) = 1  BY FS_Singleton
  <2> QED  BY <2>2, <2>3, <1>5
<1>7. wk' \in Wks
  <2>1. wk'.pc \in Pcs  BY <1>3, <1>4 DEF Pcs, At
  <2>2. wk' = [pc |-> wk'.pc, def |-> wk'.def, sts |-> wk'.sts, new |-> wk'.new,
               old |-> wk'.old, n |-> wk'.n, d |-> wk'.d]
    BY <1>1, Fields DEF Rebalance, At
  <2> HIDE DEF Pcs
  <2> QED  BY <2>1, <2>2, <1>1, <1>4, Fields, BoundAssumption DEF Wks
<1>8. Types'  BY <1>1, <1>2, <1>7 DEF Types
<1>9. Control'  BY <1>1, <1>2, <1>3, <1>4, <1>5, <1>6, Fields DEF Control, At, Scaling
<1>10. Credentials'  BY <1>1, <1>2, <1>3, <1>4, <1>5, <1>6, Fields DEF Credentials, At
<1>11. Registered'  BY <1>1, <1>2, <1>3, <1>4, <1>5, <1>6, SameD, Fields DEF Registered, At
<1>12. Notified'  BY <1>1, <1>2, <1>3, <1>4, <1>5, <1>6, Fields DEF Notified, At, Control
<1>13. Items'  BY <1>1, <1>2, <1>3, <1>4, <1>5, <1>6, Fields DEF Items, At, Types, Control
<1>14. Done'  BY <1>1, <1>2, <1>3, <1>4, <1>5, <1>6, Fields DEF Done, At, Control
<1> QED  BY <1>8, <1>9, <1>10, <1>11, <1>12, <1>13, <1>14 DEF Inv

LEMMA RebalanceInv ==
  ASSUME Inv, Rebalance
  PROVE  Inv'
<1>1. CASE 0 \notin on[RawName[D]]
  <2>1. Fail /\ UNCHANGED faults  BY <1>1 DEF Rebalance
  <2>2. wk.pc # "idle" /\ faults \in 0..MaxFaults  BY DEF Rebalance, At, Inv, Types
  <2> QED  BY <2>1, <2>2, FailInv
<1> QED  BY <1>1, RebalanceStep

\* handler() has succeeded.
LEMMA FinishInv ==
  ASSUME Inv, Finish
  PROVE  Inv'
<1>1. Types /\ Control /\ Credentials /\ Registered /\ Notified /\ Items /\ Done
  BY DEF Inv
<1>2. UNCHANGED <<def, secret, sts, service, node, on, workers, rq, settled, pending,
                  broken, replays, changes, faults, restarts>>
  BY DEF Finish
<1>3. At("done")  BY DEF Finish
<1>4. /\ wk'.pc = "idle" /\ wk'.def = NoDef /\ wk'.sts = NoSts /\ wk'.new = FALSE
      /\ wk'.old = 0 /\ wk'.n = 0 /\ wk'.d = {}
  BY <1>1, Fields DEF Finish, At, Idle
<1>5. good' = (wk.def = def) /\ good' \in BOOLEAN  BY DEF Finish
<1>6. wk' \in Wks  BY IdleType DEF Finish
<1>7. Types'  BY <1>1, <1>2, <1>6, <1>5 DEF Types
<1>8. Control'  BY <1>1, <1>2, <1>3, <1>4, <1>5, Fields DEF Control, At, Scaling
<1>9. Credentials'  BY <1>1, <1>2, <1>3, <1>4, <1>5, Fields DEF Credentials, At
<1>10. Registered'  BY <1>1, <1>2, <1>3, <1>4, <1>5, SameD, Fields DEF Registered, At
<1>11. Notified'  BY <1>1, <1>2, <1>3, <1>4, <1>5, Fields DEF Notified, At, Control
<1>12. Items'  BY <1>1, <1>2, <1>3, <1>4, <1>5, Fields DEF Items, At, Types, Control
<1>13. Done'  BY <1>1, <1>2, <1>3, <1>4, <1>5, Fields DEF Done, At, Control
<1> QED  BY <1>7, <1>8, <1>9, <1>10, <1>11, <1>12, <1>13 DEF Inv

----------------------------------------------------------------------------
(* The environment.                                                        *)

\* A change of the object brings an item: what the worker has read of it may be old.
LEMMA ChangeDefInv ==
  ASSUME Inv, NEW new \in Defs, ChangeDef(new), new.on \/ def.on
  PROVE  Inv'
<1>1. Types /\ Control /\ Credentials /\ Registered /\ Notified /\ Items /\ Done
  BY DEF Inv
<1>2. UNCHANGED <<secret, sts, service, node, on, workers, rq, settled, wk, broken, replays, faults, restarts>>
  BY DEF ChangeDef
<1>3. /\ def' = new /\ good' = FALSE /\ pending' = pending + 1 /\ pending \in Nat
      /\ changes' = changes + 1 /\ changes \in Nat /\ changes' \in 0..MaxChanges
  BY <1>1, BoundAssumption DEF ChangeDef, Types
<1>4. Types'
  <2>1. def' \in Defs  BY <1>3
  <2>2. good' \in BOOLEAN  BY <1>3
  <2>3. pending' \in Nat  BY <1>3
  <2> QED  BY <1>1, <1>2, <1>3, <2>1, <2>2, <2>3 DEF Types
<1>5. Control'  BY <1>1, <1>2 DEF Control, At, Scaling
<1>6. Credentials'  BY <1>1, <1>2 DEF Credentials
<1>7. Registered'  BY <1>1, <1>2, SameD DEF Registered, At
<1>8. Notified'  BY <1>1, <1>2 DEF Notified
<1>9. Items'  BY <1>1, <1>2, <1>3 DEF Items, At
<1>10. Done'  BY <1>3 DEF Done
<1> QED  BY <1>4, <1>5, <1>6, <1>7, <1>8, <1>9, <1>10 DEF Inv

\* The object is created, changed or deleted.
LEMMA PutDefInv ==
  ASSUME Inv, PutDef \/ DeleteDef
  PROVE  Inv'
<1>1. CASE PutDef
  <2>1. PICK a \in Admins \cup {0}, r \in 1..MaxReplicas :
          ChangeDef([on |-> TRUE, admin |-> a, replicas |-> r])
    BY <1>1 DEF PutDef
  <2>2. PICK new : new = [on |-> TRUE, admin |-> a, replicas |-> r]  OBVIOUS
  <2>3. new \in Defs /\ new.on  BY <2>2 DEF Defs
  <2> QED  BY <2>1, <2>2, <2>3, ChangeDefInv
<1>2. CASE DeleteDef
  <2>1. def.on /\ ChangeDef(NoDef) /\ NoDef \in Defs  BY <1>2, IdleType DEF DeleteDef
  <2> QED  BY <2>1, ChangeDefInv
<1> QED  BY <1>1, <1>2

\* A node that starts for the first time takes the credential of the StatefulSet.
LEMMA PodStartsInv ==
  ASSUME Inv, NEW n \in Nodes, PodStarts(n)
  PROVE  Inv'
<1>1. Types /\ Control /\ Credentials /\ Registered /\ Notified /\ Items /\ Done
  BY DEF Inv
<1>2. UNCHANGED <<def, secret, sts, service, on, workers, rq, settled, wk, pending, good, broken, replays,
                  changes, faults, restarts>>
  BY DEF PodStarts
<1>3. node' = [node EXCEPT ![n] = sts.cred]  BY DEF PodStarts
<1>4. /\ node' \in [Nodes -> Admins \cup {0, NoDb}]
      /\ \A m \in Nodes : node'[m] = sts.cred \/ node'[m] = node[m]
  BY <1>1, <1>3, Fields DEF Types
<1>5. Types'  BY <1>1, <1>2, <1>4 DEF Types
<1>6. Control'  BY <1>1, <1>2 DEF Control, At, Scaling
<1>7. Credentials'
  <2>1. \A m \in 0..sts.replicas - 1 : m \in Nodes
    BY <1>1, Fields, BoundAssumption DEF Nodes
  <2> QED  BY <1>1, <1>2, <1>4, <2>1 DEF Credentials
<1>8. Registered'  BY <1>1, <1>2, SameD DEF Registered, At
<1>9. Notified'  BY <1>1, <1>2 DEF Notified
<1>10. Items'  BY <1>1, <1>2 DEF Items, At
<1>11. Done'  BY <1>1, <1>2 DEF Done
<1> QED  BY <1>5, <1>6, <1>7, <1>8, <1>9, <1>10, <1>11 DEF Inv

\* What the request controller does concerns the databases and its own worker only.
LEMMA RequestKeeps ==
  ASSUME Inv, UNCHANGED others, on' \in [DbNames -> SUBSET Nodes],
         workers' \in [DbNames -> SUBSET Nodes], rq' \in Rqs, settled' \subseteq Dbs,
         Registered'
  PROVE  Inv'
<1>1. Types /\ Control /\ Credentials /\ Registered /\ Notified /\ Items /\ Done
  BY DEF Inv
<1>2. UNCHANGED <<def, secret, sts, service, node, wk, pending, good, broken, replays,
                  changes, faults, restarts>>
  BY DEF others
<1>3. Types'  BY <1>1, <1>2 DEF Types
<1>4. Control'  BY <1>1, <1>2 DEF Control, At, Scaling
<1>5. Credentials'  BY <1>1, <1>2 DEF Credentials
<1>6. Notified'  BY <1>1, <1>2 DEF Notified
<1>7. Items'  BY <1>1, <1>2 DEF Items, At
<1>8. Done'  BY <1>1, <1>2 DEF Done
<1> QED  BY <1>3, <1>4, <1>5, <1>6, <1>7, <1>8 DEF Inv

\* Creation and deletion of a database: no registration is under way.
LEMMA RequestDbInv ==
  ASSUME Inv, NEW d \in Dbs, createOrUpdatePGRequest(d) \/ deletePGAll(d)
  PROVE  Inv'
<1>1. Types /\ Registered /\ sts.replicas \in 1..MaxReplicas  BY Fields DEF Inv
<1>2. UNCHANGED others /\ sts' = sts /\ rq.pc = "idle" /\ d \in DbNames
  BY DEF createOrUpdatePGRequest, deletePGAll, others, DbNames
<1>3. CASE createOrUpdatePGRequest(d)
  <2>1. PICK k \in 1..sts.replicas :
          /\ on' = [on EXCEPT ![d] = @ \cup (0..k - 1)]
          /\ rq' = IF k < sts.replicas THEN NoRq
                   ELSE [pc |-> "read", d |-> {d}, n |-> 1, r |-> sts.replicas, late |-> FALSE]
    BY <1>3 DEF createOrUpdatePGRequest
  <2>2. UNCHANGED <<workers, settled>>  BY <1>3 DEF createOrUpdatePGRequest
  <2>3. 0..k - 1 \subseteq Nodes  BY <1>1, BoundAssumption DEF Nodes
  <2>4. on' \in [DbNames -> SUBSET Nodes]  BY <1>1, <2>1, <2>3 DEF Types
  <2>5. /\ rq' \in Rqs /\ rq'.pc # "register"
        /\ rq'.pc = "idle" \/ (rq'.d = {d} /\ rq'.n = 1)
    <3>1. CASE k < sts.replicas  BY <2>1, <3>1, BoundAssumption DEF Rqs, NoRq
    <3>2. CASE ~(k < sts.replicas)
      <4>1. PICK r \in 0..MaxReplicas : r = sts.replicas  BY <1>1
      <4>2. rq' = [pc |-> "read", d |-> {d}, n |-> 1, r |-> r, late |-> FALSE]
        BY <2>1, <3>2, <4>1
      <4> QED  BY <4>2, BoundAssumption DEF Rqs
    <3> QED  BY <3>1, <3>2
  <2>6. Registered'  BY <1>1, <1>2, <2>2, <2>5 DEF Registered
  <2> QED  BY <1>1, <1>2, <2>2, <2>4, <2>5, <2>6, RequestKeeps DEF Types
<1>4. CASE deletePGAll(d)
  <2>1. PICK k \in 1..sts.replicas : on' = [on EXCEPT ![d] = @ \ (0..k - 1)]
    BY <1>4 DEF deletePGAll
  <2>2. /\ workers' = [workers EXCEPT ![d] = {}] /\ settled' = settled \ {d} /\ rq' = rq
    BY <1>4 DEF deletePGAll
  <2>3. on' \in [DbNames -> SUBSET Nodes]  BY <1>1, <2>1 DEF Types
  <2>4. /\ workers' \in [DbNames -> SUBSET Nodes]
        /\ \A e \in DbNames : e # d => workers'[e] = workers[e]
    BY <1>1, <2>2 DEF Types
  <2>5. settled \subseteq DbNames  BY <1>1 DEF Types, DbNames
  <2>6. Registered'  BY <1>1, <1>2, <2>2, <2>4, <2>5 DEF Registered
  <2> QED  BY <1>1, <1>2, <2>2, <2>3, <2>4, <2>6, RequestKeeps DEF Types
<1> QED  BY <1>3, <1>4

\* The registration, from the size of the StatefulSet that addWorkerNode has read.
LEMMA RegistrationInv ==
  ASSUME Inv, addWorkerNode \/ RegisterNode \/ RequestDone
  PROVE  Inv'
<1>1. Types /\ Registered /\ sts.replicas \in 1..MaxReplicas /\ sts.replicas \in Nat
      /\ MaxReplicas \in Nat
  BY Fields, BoundAssumption DEF Inv
<1>2. UNCHANGED others /\ sts' = sts
  BY DEF addWorkerNode, RegisterNode, RequestDone, others
<1>3. /\ rq \in Rqs /\ rq.n \in 0..MaxReplicas /\ rq.r \in 0..MaxReplicas
      /\ rq.d \subseteq Dbs /\ rq.late \in BOOLEAN /\ rq.d \subseteq DbNames
      /\ settled \subseteq DbNames
  BY <1>1 DEF Types, Rqs, DbNames
<1>4. NoRq \in Rqs /\ NoRq.pc = "idle"  BY <1>1 DEF NoRq, Rqs
<1>5. CASE addWorkerNode
  <2>1. UNCHANGED <<on, workers, settled>> /\ rq.pc = "read"  BY <1>5 DEF addWorkerNode
  <2>2. CASE sts.on
    <3>1. rq' = [rq EXCEPT !.pc = "register", !.r = sts.replicas, !.late = FALSE]
      BY <1>5, <2>2 DEF addWorkerNode
    <3>2. rq' \in Rqs /\ rq'.r = sts.replicas /\ rq'.n = rq.n /\ rq'.d = rq.d
          /\ rq'.pc = "register"
      <4>1. PICK r \in 0..MaxReplicas : r = sts.replicas  BY <1>1
      <4>2. rq' = [rq EXCEPT !.pc = "register", !.r = r, !.late = FALSE]  BY <3>1, <4>1
      <4> QED  BY <1>3, <4>1, <4>2 DEF Rqs
    <3>3. Registered'
      <4>1. rq.n = 1 /\ 1..rq.n - 1 = {}  BY <1>1, <2>1 DEF Registered
      <4> QED  BY <1>1, <1>2, <2>1, <3>2, <4>1 DEF Registered
    <3> QED  BY <1>1, <1>2, <2>1, <3>2, <3>3, RequestKeeps DEF Types
  <2>3. CASE ~sts.on
    <3>1. rq' = NoRq  BY <1>5, <2>3 DEF addWorkerNode
    <3>2. Registered'  BY <1>2, <1>4, <2>3, <3>1 DEF Registered
    <3> QED  BY <1>1, <1>2, <1>4, <2>1, <3>1, <3>2, RequestKeeps DEF Types
  <2> QED  BY <2>2, <2>3
<1>6. CASE RegisterNode
  <2>1. UNCHANGED <<on, settled>> /\ rq.pc = "register" /\ rq.n < rq.r
    BY <1>6 DEF RegisterNode
  <2>2. CASE rq' = NoRq /\ UNCHANGED workers
    <3>1. Registered'  BY <1>1, <1>2, <1>4, <2>1, <2>2 DEF Registered
    <3> QED  BY <1>1, <1>2, <1>4, <2>1, <2>2, <3>1, RequestKeeps DEF Types
  <2>3. ASSUME NEW d \in rq.d, workers' = [workers EXCEPT ![d] = @ \cup {rq.n}],
               rq' = [rq EXCEPT !.n = @ + 1]
        PROVE  Inv'
    <3>1. rq.n \in Nodes  BY <1>1, <1>3, <2>1 DEF Nodes
    <3>2. /\ workers' \in [DbNames -> SUBSET Nodes] /\ rq.n \in workers'[d]
          /\ \A e \in DbNames : workers[e] \subseteq workers'[e]
      BY <1>1, <1>3, <2>3, <3>1 DEF Types
    <3>3. rq' \in Rqs /\ rq'.pc = rq.pc /\ rq'.n = rq.n + 1 /\ rq'.r = rq.r
          /\ rq'.d = rq.d /\ rq'.late = rq.late
      <4>1. PICK m \in 0..MaxReplicas : m = rq.n + 1  BY <1>1, <1>3, <2>1
      <4>2. rq' = [rq EXCEPT !.n = m]  BY <2>3, <4>1
      <4> QED  BY <1>3, <4>1, <4>2 DEF Rqs
    <3>4. Registered'
      <4> SUFFICES ASSUME sts.on  PROVE Registered'
        BY <1>1, <1>2, <2>1, <3>3 DEF Registered
      <4>1. \A e \in settled : 1..sts.replicas - 1 \subseteq workers'[e]
        BY <1>1, <1>3, <3>2 DEF Registered
      <4>2. ASSUME ~rq.late
            PROVE  rq.r = sts.replicas /\ \A e \in rq.d : 1..rq.n \subseteq workers'[e]
        <5>1. rq.d = {d}  BY <1>1, <2>1, <2>3 DEF Registered
        <5>2. rq.r = sts.replicas /\ 1..rq.n - 1 \subseteq workers[d]
          BY <1>1, <2>1, <4>2 DEF Registered
        <5>3. \A m \in 1..rq.n : m = rq.n \/ m \in 1..rq.n - 1  BY <1>3
        <5> QED  BY <1>3, <3>2, <5>1, <5>2, <5>3
      <4>3. rq'.n - 1 = rq.n  BY <1>3, <3>3
      <4> QED  BY <1>1, <1>2, <2>1, <3>3, <4>1, <4>2, <4>3 DEF Registered
    <3> QED  BY <1>1, <1>2, <2>1, <3>2, <3>3, <3>4, RequestKeeps DEF Types
  <2> QED  BY <1>6, <2>2, <2>3 DEF RegisterNode
<1>7. CASE RequestDone
  <2>1. /\ UNCHANGED <<on, workers>> /\ rq.pc = "register" /\ rq.n = rq.r /\ rq' = NoRq
        /\ settled' = IF rq.late THEN settled ELSE settled \cup rq.d
    BY <1>7 DEF RequestDone
  <2>2. settled' \subseteq Dbs  BY <1>1, <1>3, <2>1 DEF Types
  <2>3. Registered'  BY <1>1, <1>2, <1>3, <1>4, <2>1 DEF Registered
  <2> QED  BY <1>1, <1>2, <1>4, <2>1, <2>2, <2>3, RequestKeeps DEF Types
<1> QED  BY <1>5, <1>6, <1>7

\* A restart forgets the items and what the worker was at.
LEMMA RestartInv ==
  ASSUME Inv, Restart
  PROVE  Inv'
<1>1. Types /\ Control /\ Credentials /\ Registered /\ Notified /\ Items /\ Done
  BY DEF Inv
<1>2. UNCHANGED <<def, secret, sts, service, node, on, workers, settled, good, replays, changes, faults>>
  BY DEF Restart
<1>3. wk' = Idle /\ wk'.pc = "idle" /\ wk'.new = FALSE  BY DEF Restart, Idle
<1>4. pending' = (IF def.on THEN 1 ELSE 0) /\ pending' \in Nat  BY DEF Restart
<1>5. restarts' \in 0..MaxRestarts  BY <1>1, BoundAssumption DEF Restart, Types
<1>6. broken' = broken \cup Forgotten \cup (IF def.on THEN {} ELSE {"deletion"})
  BY DEF Restart
<1>7. /\ wk.pc = "change" => "admin" \in broken'
      /\ wk.pc \in Scaling => "scale" \in broken'
      /\ wk.new => "notify" \in broken'
      /\ ~def.on => "deletion" \in broken'
      /\ \A x : x \notin broken' => x \notin broken
      /\ broken' \subseteq {"admin", "scale", "notify", "deletion"}
  BY <1>1, <1>6 DEF Forgotten, Scaling, Types
<1>15. rq' \in Rqs /\ rq'.pc = "idle"  BY BoundAssumption DEF Restart, NoRq, Rqs
<1>8. Types'  BY <1>1, <1>2, <1>3, <1>4, <1>5, <1>7, <1>15, IdleType DEF Types
<1>9. Control'  BY <1>3 DEF Control, At, Scaling
<1>10. Credentials'  BY <1>1, <1>2, <1>7, Fields DEF Credentials, Scaling
<1>11. Registered'  BY <1>1, <1>2, <1>15 DEF Registered
<1>12. Notified'  BY <1>1, <1>2, <1>3, <1>7, Fields DEF Notified, Types
<1>13. Items'  BY <1>1, <1>2, <1>3, <1>4, <1>7, Fields DEF Items, At, Types
<1>14. Done'  BY <1>1, <1>2, <1>3 DEF Done
<1> QED  BY <1>8, <1>9, <1>10, <1>11, <1>12, <1>13, <1>14 DEF Inv

\* Every step keeps the inductive invariant.
LEMMA NextInv ==
  ASSUME Inv, [Next]_vars
  PROVE  Inv'
<1>1. CASE Handler
  <2>1. CASE Get \/ GetDef \/ GetSts \/ DeleteSts
    BY <2>1, GetInv, GetDefInv, GetStsInv, DeleteStsInv
  <2>2. CASE createSecretForPG \/ createPGCluster \/ createPGClusterService \/ Defaults

    BY <2>2, createSecretForPGInv, createPGClusterInv, createPGClusterServiceInv, DefaultsInv
  <2>3. CASE MustUpdateClusterAdminUser \/ PatchSts \/ ChangeAdminUser \/ Notify
    BY <2>3, MustUpdateClusterAdminUserInv, PatchStsInv, ChangeAdminUserInv, NotifyInv
  <2>4. CASE ScalePGClusterNodes \/ UpdateHba \/ ListDatabases \/ CreateOnNode
    BY <2>4, ScalePGClusterNodesInv, UpdateHbaInv, ListDatabasesInv, CreateOnNodeInv
  <2>5. CASE AddWorkerNode \/ Rebalance \/ Finish
    BY <2>5, AddWorkerNodeInv, RebalanceInv, FinishInv
  <2> QED  BY <1>1, <2>1, <2>2, <2>3, <2>4, <2>5 DEF Handler
<1>2. CASE CallFails  BY <1>2, CallFailsInv
<1>3. CASE PutDef \/ DeleteDef  BY <1>3, PutDefInv
<1>4. CASE \E n \in Nodes : PodStarts(n)  BY <1>4, PodStartsInv
<1>5. CASE RequestSteps  BY <1>5, RequestDbInv, RegistrationInv DEF RequestSteps
<1>6. CASE Restart  BY <1>6, RestartInv
<1>7. CASE UNCHANGED vars
  <2>1. Types /\ Control /\ Credentials /\ Registered /\ Notified /\ Items /\ Done
    BY DEF Inv
  <2>2. Types'  BY <1>7, <2>1 DEF Types, vars
  <2>3. Control'  BY <1>7, <2>1 DEF Control, At, Scaling, vars
  <2>4. Credentials'  BY <1>7, <2>1 DEF Credentials, vars
  <2>5. Registered'  BY <1>7, <2>1, SameD DEF Registered, At, vars
  <2>6. Notified' /\ Items' /\ Done'  BY <1>7, <2>1 DEF Notified, Items, Done, At, vars
  <2> QED  BY <2>2, <2>3, <2>4, <2>5, <2>6 DEF Inv
<1> QED  BY <1>1, <1>2, <1>3, <1>4, <1>5, <1>6, <1>7 DEF Next

\* The inductive invariant holds in every reachable state.
LEMMA InvHolds == Spec => []Inv
BY InitInv, NextInv, PTL DEF Spec

----------------------------------------------------------------------------
(* What it gives.                                                          *)

\* The inductive invariant implies the type invariant; the StatefulSet the worker has
\* read has no more replicas than the present one.
LEMMA InvTypeOK == Inv => TypeOK
<1> SUFFICES ASSUME Inv PROVE TypeOK  OBVIOUS
<1>1. Types /\ Control /\ Items  BY DEF Inv
<1>2. wk.pc \in {"change", "scale", "hba"} => wk.sts.replicas <= sts.replicas
  BY <1>1, Fields DEF Control, Scaling
<1>3. pending \in 0..MaxChanges + 1
  <2>1. pending \in Nat /\ changes \in 0..MaxChanges  BY <1>1 DEF Types
  <2>2. pending <= changes  BY <1>1, <2>1 DEF Items
  <2> QED  BY <2>1, <2>2, BoundAssumption
<1>4. /\ wk \in [pc : {"idle", "getDef", "getSts", "deleteSts", "secret", "createSts", "createSvc",
                  "defaults", "compare", "patch", "change", "notify", "scale", "hba", "list",
                  "node", "register", "rebalance", "done"},
                 def : Defs, sts : Stss, new : BOOLEAN, old : Admins \cup {0},
                 n : 0..MaxReplicas, d : SUBSET Dbs]
      /\ rq \in [pc : {"idle", "read", "register"}, d : SUBSET Dbs, n : 0..MaxReplicas,
                 r : 0..MaxReplicas, late : BOOLEAN]
  BY <1>1, Zenon DEF Types, Wks, Pcs, Rqs
<1> QED  BY <1>1, <1>2, <1>3, <1>4, Zenon DEF Types, TypeOK

\* When handler() has succeeded for the present object, every node that runs accepts its
\* administrator, whatever failed before (handler, changePGAdminUser).
THEOREM AdminWorksHolds == Spec => []AdminWorks
<1>1. Inv => AdminWorks
  <2> SUFFICES ASSUME Inv, good, def.on, broken \cap {"admin", "scale"} = {},
                      NEW n \in 0..sts.replicas - 1
               PROVE  node[n] \in {NoDb, def.admin}
    BY DEF AdminWorks
  <2>1. sts.on /\ sts.cred = def.admin /\ wk.pc \notin {"change", "hba"}  BY DEF Inv, Done
  <2> QED  BY <2>1 DEF Inv, Credentials
<1> QED  BY <1>1, InvHolds, PTL

\* When handler() has succeeded, the cluster has the nodes of the object and the request
\* controller knows of it; it is gone after a deletion; and the databases of requests that
\* were carried out since the cluster was last created or scaled have all its nodes
\* registered (ScalePGClusterNodes, handler, addWorkerNode).
THEOREM ClusterSoundHolds == Spec => []ClusterSound
<1>1. Inv => AllRegistered
  BY DEF Inv, Done, Registered, AllRegistered
<1>2. Inv => EveryClusterNotified
  <2> SUFFICES ASSUME Inv PROVE EveryClusterNotified  OBVIOUS
  <2>1. replays.told \in Nat /\ replays.made \in Nat  BY DEF Inv, Types
  <2>2. good => ~wk.new  BY DEF Inv, Done
  <2> QED  BY <2>1, <2>2 DEF Inv, Notified, EveryClusterNotified
<1>3. Inv => DeletedMeansGone
  <2> SUFFICES ASSUME Inv, ~def.on, pending = 0, wk = Idle, "deletion" \notin broken
               PROVE  ~sts.on
    BY DEF DeletedMeansGone
  <2>1. wk.pc = "idle"  BY DEF Idle
  <2> QED  BY <2>1 DEF Inv, Items
<1> QED  BY <1>1, <1>2, <1>3, InvTypeOK, InvHolds, PTL DEF ClusterSound

-----------------------------------------------------------------------------
(* The other middlewares: the inductive invariant.                         *)

Accounted == Policied \cup Sql \cup {"rabbitmq"}      \* one account for the app
Tasks == [act : Acts, item : Requests, begin : BOOLEAN, rest : Seq(Calls),
          clean : BOOLEAN, served : BOOLEAN, conf : Files]
AnyNames == Containers \cup OwnNames
Servers == [user : Pwds \cup {0}, att : BOOLEAN, pol : SUBSET AnyNames,
            cont : SUBSET AnyNames, acct : [Containers -> Accts]]
Objects == [act : {"OBJ"}, want : (SUBSET Containers) \ {{}}, pwd : Pwds, all : BOOLEAN,
            gen : 1..MaxGen]
Results == [act : Acts, item : Requests, clean : BOOLEAN, served : BOOLEAN]

MwTypes ==
  /\ kind \in Kinds /\ svc \in BOOLEAN /\ torn \in BOOLEAN
  /\ srv \in Servers /\ file \in Files
  /\ init \in {"stat", "open", "write", "done"}
  /\ obj = None \/ obj \in Objects
  /\ queue \in Seq(Requests)
  /\ task = None \/ task \in Tasks
  /\ last = None \/ last \in Results
  /\ errors \in 0..MaxErrors /\ upsets \in 0..MaxUpsets

\* The calls that the programs of this kind are made of.
CreateMenu ==
  CASE kind = "mongodb"       -> {"PutAccount", "Script"}
    [] kind = "kvrocks"       -> {"SetNamespace", "AddNamespace", "DelNamespace"}
    [] kind = "nats"          -> {"Load", "Truncate", "Write", "Stream"}
    [] kind = "minio"         -> {"PutUser", "Make", "PutPolicy", "Attach"}
    [] kind = "elasticsearch" -> {"PutUserNoRole", "Make", "PutPolicy", "Attach"}
    [] kind = "rabbitmq"      -> {"PutUser", "Make", "Grant"}
    [] kind \in Sql           -> {"NewUser", "Make", "Grant", "Flush"}
DeleteMenu ==
  CASE kind = "mongodb"       -> {"DelAccount", "Drop"}
    [] kind = "kvrocks"       -> {"DelNamespace"}
    [] kind = "nats"          -> {"Load", "Truncate", "Write", "Stream"}
    [] kind \in Policied      -> {"DelUser", "DelPolicy", "Drop", "DropListed"}
    [] kind = "rabbitmq"      -> {"Revoke", "Drop", "DelUser"}
    [] kind \in Sql           -> {"DelUser", "Drop"}

\* A call of the program of item i: whose error is only logged, and what it is about.
Fits(k, i) ==
  IF i.act = "DELETE"
  THEN /\ k.do \in DeleteMenu
       /\ k.must \/ k.do \in {"Drop", "DropListed", "DelPolicy"}
  ELSE /\ k.do \in CreateMenu
       /\ k.must \/ k.do = "DelNamespace"
       /\ k.do \in {"SetNamespace", "AddNamespace"} => k.on \in i.want

\* Call e never comes after call d.
Wrong(d, e) ==
  \/ d = "Attach" /\ e = "PutUserNoRole"
  \/ kind = "elasticsearch" /\ d \in {"Drop", "DropListed"} /\ e = "DelUser"
  \/ d \in {"SetNamespace", "AddNamespace"} /\ e = "DelNamespace"
  \/ d \in {"Load", "Truncate", "Write"} /\ e = "Load"
  \/ d \in {"Truncate", "Write"} /\ e = "Truncate"
  \/ d \in {"Write", "Stream"} /\ e = "Write"

Fit(r, i) == \A n \in DOMAIN r : Fits(r[n], i)
Ordered(r) == \A m, n \in DOMAIN r : m < n => ~Wrong(r[m].do, r[n].do)

\* Calls that are still to come.
Left(r, d) == \E n \in DOMAIN r : r[n].do = d
LeftOn(r, d, c) == \E n \in DOMAIN r : r[n].do = d /\ r[n].on = c

\* Every part of what a creation owes is there or still to come ...
Making(r, i, s) ==
  /\ kind \in Policied \cup {"rabbitmq"} =>
        Left(r, "PutUser") \/ Left(r, "PutUserNoRole") \/ s.user = i.pwd
  /\ kind \in Sql => Left(r, "NewUser") \/ s.user # 0
  /\ kind \in Accounted => \A c \in i.want : LeftOn(r, "Make", c) \/ c \in s.cont
  /\ kind \in Sql \cup {"rabbitmq"} => \A c \in i.want : LeftOn(r, "Grant", c) \/ c \in s.pol
  /\ kind \in Policied => Left(r, "PutPolicy") \/ s.pol = Granted(i)
  /\ kind \in Policied => Left(r, "Attach") \/ (s.att /\ ~Left(r, "PutUserNoRole"))
  /\ kind = "mongodb" => \A c \in i.want : LeftOn(r, "PutAccount", c)
                                           \/ s.acct[c] = [pwd |-> i.pwd, roles |-> i.want]
  /\ kind = "kvrocks" => \/ Left(r, "SetNamespace") \/ Left(r, "AddNamespace")
                         \/ /\ {c \in Containers : s.acct[c].pwd = i.pwd} = i.want
                            /\ ~Left(r, "DelNamespace")

\* ... and what a deletion removes is gone or still to be removed.
Removing(r, i, s, b) ==
  /\ kind \in Accounted => Left(r, "DelUser") \/ s.user = 0
  /\ kind = "mongodb" => \A c \in i.want : LeftOn(r, "DelAccount", c) \/ s.acct[c] = NoAcct
  /\ kind = "kvrocks" => \A c \in i.want : LeftOn(r, "DelNamespace", c) \/ s.acct[c] = NoAcct
  /\ kind \in {"mongodb", "rabbitmq"} \cup Sql =>
        \A c \in i.want : LeftOn(r, "Drop", c) \/ c \notin s.cont \/ ~b
  /\ kind = "elasticsearch" =>
        /\ \A c \in i.want : LeftOn(r, "Drop", c) \/ (s.user = 0 /\ (c \notin s.cont \/ ~b))
        /\ i.all => Left(r, "DropListed") \/ (s.user = 0 /\ (s.cont \cap OwnNames = {} \/ ~b))

\* What the kind of server cannot have.
KindOnly(s) ==
  /\ kind \notin {"mongodb", "kvrocks"} => \A c \in Containers : s.acct[c] = NoAcct
  /\ kind \in {"mongodb", "kvrocks", "nats"} => s.user = 0
  /\ kind \in {"kvrocks", "nats"} => s.cont = {}
  /\ kind # "elasticsearch" => s.pol \cup s.cont \subseteq Containers

MwControl ==
  /\ last = None \/ task = None
  /\ kind = "kvrocks" => /\ \A n \in DOMAIN queue : Cardinality(queue[n].want) = 1
                         /\ task # None => Cardinality(task.item.want) = 1
                         /\ obj # None => Cardinality(obj.want) = 1
  /\ task # None => task.act = task.item.act
  /\ last # None => last.act = last.item.act
  /\ task # None /\ task.begin => task.rest = <<>>
  /\ kind = "nats" => svc

Underway ==
  /\ KindOnly(srv)
  /\ task # None /\ ~task.begin =>
        /\ Fit(task.rest, task.item) /\ Ordered(task.rest)
        /\ task.served /\ task.act # "DELETE" => Making(task.rest, task.item, srv)
        /\ task.served /\ task.act = "DELETE" =>
              Removing(task.rest, task.item, srv, task.clean)

\* The configuration file of NATS.
Owner(i) == IF i.act = "DELETE" THEN 0 ELSE i.pwd
Writing(t) == t # None /\ ~t.begin /\ ~Left(t.rest, "Load") /\ Left(t.rest, "Write")
Settled == file.st # "absent" /\ init \notin {"open", "write"}
Good(f, i) == f.st = "full" /\ Config \subseteq f.base /\ f.user = Owner(i)
ConfigFile ==
  /\ init = "open" => file.st = "absent"
  /\ init = "write" => torn \/ file.st = "empty"
  /\ file.st = "garbled" => torn
  /\ file.st = "empty" => torn \/ init = "write" \/ Writing(task)
  /\ AdminKept
  /\ (kind = "nats" /\ task # None /\ ~task.begin) =>
        /\ Left(task.rest, "Load") => Left(task.rest, "Truncate")
        /\ Left(task.rest, "Truncate") => Left(task.rest, "Write")
        /\ \/ Left(task.rest, "Load")
           \/ /\ file.st # "absent" /\ task.conf.st = "full"
              /\ torn \/ (Settled /\ Good(task.conf, task.item))
        /\ Left(task.rest, "Write") \/ torn \/ Good(file, task.item)
  /\ kind = "nats" /\ last # None => torn \/ (Settled /\ Good(file, last.item))
  /\ kind # "nats" => init = "done" /\ file.st = "absent"

MwInv == /\ MwTypes /\ MwControl /\ Underway /\ ConfigFile
         /\ DoneMeansServed /\ DoneMeansGone

-----------------------------------------------------------------------------
(* Programs: sequences of calls.                                           *)

\* The elements of a finite set, one after the other.
LEMMA Enumerated ==
  ASSUME NEW S, IsFiniteSet(S)
  PROVE  /\ Cardinality(S) \in Nat
         /\ \A j \in 1..Cardinality(S) : SetToSeq(S)[j] \in S
         /\ \A x \in S : \E j \in 1..Cardinality(S) : SetToSeq(S)[j] = x
<1> DEFINE n == Cardinality(S)
           f == SetToSeq(S)
<1>1. n \in Nat /\ ExistsBijection(1..n, S)  BY FS_CardinalityType
<1>2. PICK g : g \in Bijection(1..n, S)  BY <1>1 DEF ExistsBijection
<1>3. g \in [1..n -> S] /\ IsInjective(g)
  BY <1>2 DEF Bijection, Injection, IsInjective
<1>4. f \in [1..n -> S] /\ IsInjective(f)  BY <1>3 DEF SetToSeq
<1> HIDE DEF f
<1>5. f \in Injection(1..n, S)  BY <1>4 DEF Injection, IsInjective
<1>6. IsFiniteSet(1..n) /\ Cardinality(1..n) = n  BY <1>1, FS_Interval
<1>7. f \in Surjection(1..n, S)  BY <1>5, <1>6, FS_Injection
<1> QED  BY <1>1, <1>4, <1>7 DEF Surjection, f

\* A call is a call.
LEMMA CallParts ==
  ASSUME NEW d, NEW c
  PROVE  /\ Must(d, c).do = d /\ Must(d, c).on = c /\ Must(d, c).must
         /\ Warn(d, c).do = d /\ Warn(d, c).on = c
BY DEF Must, Warn

Names == {"PutUser", "PutUserNoRole", "NewUser", "Attach", "DelUser", "PutPolicy",
          "DelPolicy", "Grant", "Revoke", "Make", "Drop", "DropListed", "PutAccount",
          "DelAccount", "SetNamespace", "AddNamespace", "DelNamespace", "Load",
          "Truncate", "Write", "Stream", "Script", "Flush"}

\* A call with a name of the list, about a container, is a call.
LEMMA CallType ==
  ASSUME NEW d \in Names, NEW c \in Containers
  PROVE  Must(d, c) \in Calls /\ Warn(d, c) \in Calls
BY DEF Must, Warn, Calls, Names

\* A program for item i of calls that are named in Ds.
Made(p, Ds, i) ==
  /\ p \in Seq(Calls) /\ \A n \in DOMAIN p : p[n].do \in Ds
  /\ Fit(p, i) /\ Ordered(p)

\* One call, and a few of them.
LEMMA MadeOne ==
  ASSUME NEW i, NEW k \in Calls, Fits(k, i)
  PROVE  Made(<<k>>, {k.do}, i) /\ Left(<<k>>, k.do)
<1>1. PICK p : p = <<k>>  OBVIOUS
<1>2. p \in Seq(Calls) /\ DOMAIN p = {1} /\ p[1] = k  BY <1>1
<1>3. ~(1 < 1)  OBVIOUS
<1>4. Made(p, {k.do}, i) /\ Left(p, k.do)  BY <1>2, <1>3 DEF Made, Left, Fit, Ordered
<1> QED  BY <1>1, <1>4

\* Two calls in an order that is not wrong are a program.
LEMMA MadeTwo ==
  ASSUME NEW i, NEW k \in Calls, NEW l \in Calls, Fits(k, i), Fits(l, i), ~Wrong(k.do, l.do)
  PROVE  Made(<<k, l>>, {k.do, l.do}, i) /\ Left(<<k, l>>, k.do) /\ Left(<<k, l>>, l.do)
<1>1. PICK p : p = <<k, l>>  OBVIOUS
<1>2. p \in Seq(Calls) /\ DOMAIN p = {1, 2} /\ p[1] = k /\ p[2] = l  BY <1>1
<1>3. ~(1 < 1) /\ ~(2 < 1) /\ ~(2 < 2)  OBVIOUS
<1>4. Made(p, {k.do, l.do}, i) /\ Left(p, k.do) /\ Left(p, l.do)
  BY <1>2, <1>3 DEF Made, Left, Fit, Ordered
<1> QED  BY <1>1, <1>4

\* Three calls in an order that is not wrong are a program.
LEMMA MadeThree ==
  ASSUME NEW i, NEW k \in Calls, NEW l \in Calls, NEW m \in Calls,
         Fits(k, i), Fits(l, i), Fits(m, i),
         ~Wrong(k.do, l.do), ~Wrong(k.do, m.do), ~Wrong(l.do, m.do)
  PROVE  /\ Made(<<k, l, m>>, {k.do, l.do, m.do}, i)
         /\ \A d \in {k.do, l.do, m.do} : Left(<<k, l, m>>, d)
<1>1. PICK p : p = <<k, l, m>>  OBVIOUS
<1>2. p \in Seq(Calls) /\ DOMAIN p = {1, 2, 3} /\ p[1] = k /\ p[2] = l /\ p[3] = m  BY <1>1
<1>3. ~(1 < 1) /\ ~(2 < 1) /\ ~(2 < 2) /\ ~(3 < 1) /\ ~(3 < 2) /\ ~(3 < 3)  OBVIOUS
<1>4. Made(p, {k.do, l.do, m.do}, i) /\ \A d \in {k.do, l.do, m.do} : Left(p, d)
  BY <1>2, <1>3 DEF Made, Left, Fit, Ordered
<1> QED  BY <1>1, <1>4

\* Four calls in an order that is not wrong are a program.
LEMMA MadeFour ==
  ASSUME NEW i, NEW k \in Calls, NEW l \in Calls, NEW m \in Calls, NEW o \in Calls,
         Fits(k, i), Fits(l, i), Fits(m, i), Fits(o, i),
         ~Wrong(k.do, l.do), ~Wrong(k.do, m.do), ~Wrong(l.do, m.do),
         ~Wrong(k.do, o.do), ~Wrong(l.do, o.do), ~Wrong(m.do, o.do)
  PROVE  /\ Made(<<k, l, m, o>>, {k.do, l.do, m.do, o.do}, i)
         /\ \A d \in {k.do, l.do, m.do, o.do} : Left(<<k, l, m, o>>, d)
<1>1. PICK p : p = <<k, l, m, o>>  OBVIOUS
<1>2. /\ p \in Seq(Calls) /\ DOMAIN p = {1, 2, 3, 4}
      /\ p[1] = k /\ p[2] = l /\ p[3] = m /\ p[4] = o
  BY <1>1
<1>3. /\ ~(1 < 1) /\ ~(2 < 1) /\ ~(2 < 2) /\ ~(3 < 1) /\ ~(3 < 2) /\ ~(3 < 3)
      /\ ~(4 < 1) /\ ~(4 < 2) /\ ~(4 < 3) /\ ~(4 < 4)
  OBVIOUS
<1>4. Made(p, {k.do, l.do, m.do, o.do}, i) /\ \A d \in {k.do, l.do, m.do, o.do} : Left(p, d)
  BY <1>2, <1>3 DEF Made, Left, Fit, Ordered
<1> QED  BY <1>1, <1>4

\* One call for each container of a set.
LEMMA MadeEach ==
  ASSUME NEW i, NEW S \in SUBSET Containers, NEW d \in Names, ~Wrong(d, d)
  PROVE  /\ (\A c \in S : Fits(Must(d, c), i)) =>
               Made(Each(S, d), {d}, i) /\ \A c \in S : LeftOn(Each(S, d), d, c)
         /\ (\A c \in S : Fits(Warn(d, c), i)) =>
               Made(EachWarn(S, d), {d}, i) /\ \A c \in S : LeftOn(EachWarn(S, d), d, c)
<1>0. IsFiniteSet(S)  BY ContainersAssumption, FS_Subset
<1> DEFINE n == Cardinality(S)
<1>1. /\ n \in Nat /\ \A j \in 1..n : SetToSeq(S)[j] \in S
      /\ \A x \in S : \E j \in 1..n : SetToSeq(S)[j] = x
  BY <1>0, Enumerated
<1>2. PICK p : p = Each(S, d)  OBVIOUS
<1>3. PICK q : q = EachWarn(S, d)  OBVIOUS
<1>4. DOMAIN p = 1..n /\ \A j \in 1..n : p[j] = Must(d, SetToSeq(S)[j])  BY <1>2 DEF Each
<1>5. DOMAIN q = 1..n /\ \A j \in 1..n : q[j] = Warn(d, SetToSeq(S)[j])  BY <1>3 DEF EachWarn
<1>6. \A j \in 1..n : Must(d, SetToSeq(S)[j]) \in Calls /\ Warn(d, SetToSeq(S)[j]) \in Calls
  BY <1>1, CallType
<1>7. p \in Seq(Calls) /\ q \in Seq(Calls)
  <2>1. p = [j \in 1..n |-> Must(d, SetToSeq(S)[j])]  BY <1>2 DEF Each
  <2>2. q = [j \in 1..n |-> Warn(d, SetToSeq(S)[j])]  BY <1>3 DEF EachWarn
  <2> QED  BY <1>1, <1>6, <2>1, <2>2
<1>8. (\A n1 \in DOMAIN p : p[n1].do = d) /\ (\A n1 \in DOMAIN q : q[n1].do = d)
  BY <1>4, <1>5, CallParts
<1>9. \A c \in S : LeftOn(p, d, c) /\ LeftOn(q, d, c)
  BY <1>1, <1>4, <1>5, CallParts DEF LeftOn
<1>10. Ordered(p) /\ Ordered(q)  BY <1>8 DEF Ordered
<1>11. (\A c \in S : Fits(Must(d, c), i)) => Fit(p, i)  BY <1>1, <1>4 DEF Fit
<1>12. (\A c \in S : Fits(Warn(d, c), i)) => Fit(q, i)  BY <1>1, <1>5 DEF Fit
<1> QED  BY <1>2, <1>3, <1>7, <1>8, <1>9, <1>10, <1>11, <1>12 DEF Made

\* The numbers up to 2n, taken in pairs, count to n.
LEMMA Halves ==
  ASSUME NEW n \in Nat
  PROVE  /\ \A k \in 1..2 * n : (k + 1) \div 2 \in 1..n
         /\ \A j \in 1..n : /\ 2 * j - 1 \in 1..2 * n /\ 2 * j \in 1..2 * n
                            /\ (2 * j - 1) % 2 = 1 /\ (2 * j) % 2 = 0
                            /\ ((2 * j - 1) + 1) \div 2 = j /\ (2 * j + 1) \div 2 = j
OBVIOUS

\* Two calls for each container of a set, the pairs one after the other.
LEMMA MadeEachPair ==
  ASSUME NEW i, NEW S \in SUBSET Containers, NEW d \in Names, NEW e \in Names,
         \A x, y \in {d, e} : ~Wrong(x, y),
         \A c \in S : Fits(Must(d, c), i) /\ Fits(Must(e, c), i)
  PROVE  /\ Made(EachPair(S, d, e), {d, e}, i)
         /\ \A c \in S : LeftOn(EachPair(S, d, e), d, c) /\ LeftOn(EachPair(S, d, e), e, c)
<1>0. IsFiniteSet(S)  BY ContainersAssumption, FS_Subset
<1> DEFINE n == Cardinality(S)
           f(k) == Must(IF k % 2 = 1 THEN d ELSE e, SetToSeq(S)[(k + 1) \div 2])
<1>1. /\ n \in Nat /\ \A j \in 1..n : SetToSeq(S)[j] \in S
      /\ \A x \in S : \E j \in 1..n : SetToSeq(S)[j] = x
  BY <1>0, Enumerated
<1>2. PICK p : p = EachPair(S, d, e)  OBVIOUS
<1>3. p = [k \in 1..2 * n |-> f(k)]  BY <1>2 DEF EachPair
<1>4. \A k \in 1..2 * n : SetToSeq(S)[(k + 1) \div 2] \in S  BY <1>1, Halves
<1>5. \A k \in 1..2 * n : f(k) \in Calls /\ Fits(f(k), i)
  <2> TAKE k \in 1..2 * n
  <2>1. SetToSeq(S)[(k + 1) \div 2] \in S  BY <1>4
  <2>2. (IF k % 2 = 1 THEN d ELSE e) \in Names  OBVIOUS
  <2>3. (IF k % 2 = 1 THEN d ELSE e) = d \/ (IF k % 2 = 1 THEN d ELSE e) = e  OBVIOUS
  <2> QED  BY <2>1, <2>2, <2>3, CallType
<1>6. /\ \A k \in 1..2 * n : /\ f(k).do \in {d, e}
                             /\ f(k).do = IF k % 2 = 1 THEN d ELSE e
                             /\ f(k).on = SetToSeq(S)[(k + 1) \div 2]
  BY <1>4, CallParts
<1> HIDE DEF f
<1>7. DOMAIN p = 1..2 * n /\ \A k \in 1..2 * n : p[k] = f(k)  BY <1>3
<1>8. p \in Seq(Calls)  BY <1>1, <1>3, <1>5
<1>9. Fit(p, i) /\ \A k \in DOMAIN p : p[k].do \in {d, e}  BY <1>5, <1>6, <1>7 DEF Fit
<1>10. ASSUME NEW c \in S  PROVE LeftOn(p, d, c) /\ LeftOn(p, e, c)
  <2>1. PICK j \in 1..n : SetToSeq(S)[j] = c  BY <1>1
  <2>2. /\ 2 * j - 1 \in 1..2 * n /\ 2 * j \in 1..2 * n
        /\ (2 * j - 1) % 2 = 1 /\ (2 * j) % 2 = 0
        /\ ((2 * j - 1) + 1) \div 2 = j /\ (2 * j + 1) \div 2 = j
    BY <1>1, Halves
  <2>3. f(2 * j - 1).do = d /\ f(2 * j - 1).on = c  BY <1>6, <2>1, <2>2
  <2>4. f(2 * j).do = e /\ f(2 * j).on = c  BY <1>6, <2>1, <2>2
  <2> QED  BY <1>7, <2>2, <2>3, <2>4 DEF LeftOn
<1>11. Ordered(p)  BY <1>9 DEF Ordered
<1> QED  BY <1>2, <1>8, <1>9, <1>10, <1>11 DEF Made

\* One program after the other.
LEMMA MadeJoin ==
  ASSUME NEW i, NEW p, NEW q, NEW Ds, NEW Es, Made(p, Ds, i), Made(q, Es, i),
         \A d \in Ds, e \in Es : ~Wrong(d, e)
  PROVE  /\ Made(p \o q, Ds \cup Es, i)
         /\ \A d : Left(p, d) \/ Left(q, d) => Left(p \o q, d)
         /\ \A d, c : LeftOn(p, d, c) \/ LeftOn(q, d, c) => LeftOn(p \o q, d, c)
<1>1. p \in Seq(Calls) /\ q \in Seq(Calls)  BY DEF Made
<1>2. PICK r : r = p \o q  OBVIOUS
<1> DEFINE First(n) == n \in DOMAIN p /\ r[n] = p[n]
           Then(n) == n > Len(p) /\ n - Len(p) \in DOMAIN q /\ r[n] = q[n - Len(p)]
<1>3. /\ r \in Seq(Calls) /\ Len(p) \in Nat
      /\ \A n \in DOMAIN r : n \in Nat /\ (First(n) \/ Then(n))
      /\ \A n \in DOMAIN p : n \in DOMAIN r /\ r[n] = p[n] /\ n <= Len(p) /\ n \in Nat
      /\ \A n \in DOMAIN q : Len(p) + n \in DOMAIN r /\ r[Len(p) + n] = q[n] /\ n \in Nat
  BY <1>1, <1>2
<1>4. Fit(r, i) /\ \A n \in DOMAIN r : r[n].do \in Ds \cup Es  BY <1>3 DEF Made, Fit
<1>5. \A d : Left(p, d) \/ Left(q, d) => Left(r, d)  BY <1>3 DEF Left
<1>6. \A d, c : LeftOn(p, d, c) \/ LeftOn(q, d, c) => LeftOn(r, d, c)  BY <1>3 DEF LeftOn
<1>7. Ordered(r)
  <2> SUFFICES ASSUME NEW m \in DOMAIN r, NEW n \in DOMAIN r, m < n
               PROVE  ~Wrong(r[m].do, r[n].do)
    BY DEF Ordered
  <2>1. CASE First(m) /\ First(n)  BY <2>1 DEF Made, Ordered
  <2>2. CASE First(m) /\ Then(n)  BY <2>2 DEF Made
  <2>3. CASE Then(m) /\ Then(n)
    <3>1. m - Len(p) < n - Len(p)  BY <1>3
    <3> QED  BY <2>3, <3>1 DEF Made, Ordered
  <2>4. CASE Then(m) /\ First(n)  BY <1>3, <2>4
  <2> QED  BY <1>3, <2>1, <2>2, <2>3, <2>4
<1> QED  BY <1>2, <1>3, <1>4, <1>5, <1>6, <1>7 DEF Made

\* The first call and what is left.
LEMMA HeadAndTail ==
  ASSUME NEW r \in Seq(Calls), r # <<>>
  PROVE  /\ Head(r) \in Calls /\ Tail(r) \in Seq(Calls)
         /\ \A i : Fit(r, i) => Fits(Head(r), i) /\ Fit(Tail(r), i)
         /\ Ordered(r) => Ordered(Tail(r)) /\ \A e : Left(Tail(r), e) => ~Wrong(Head(r).do, e)
         /\ \A d : Left(r, d) <=> Head(r).do = d \/ Left(Tail(r), d)
         /\ \A d, c : LeftOn(r, d, c) <=>
              (Head(r).do = d /\ Head(r).on = c) \/ LeftOn(Tail(r), d, c)
<1>1. PICK t : t = Tail(r)  OBVIOUS
<1>2. PICK h : h = Head(r)  OBVIOUS
<1>3. /\ t \in Seq(Calls) /\ h \in Calls /\ 1 \in DOMAIN r /\ h = r[1]
      /\ \A n \in DOMAIN t : n \in Nat /\ n + 1 \in DOMAIN r /\ r[n + 1] = t[n] /\ 1 < n + 1
      /\ \A n \in DOMAIN r : n \in Nat /\ (n = 1 \/ (n - 1 \in DOMAIN t /\ t[n - 1] = r[n]))
  BY <1>1, <1>2
<1>4. \A i : Fit(r, i) => Fits(h, i) /\ Fit(t, i)  BY <1>3 DEF Fit
<1>5. ASSUME Ordered(r)  PROVE Ordered(t) /\ \A e : Left(t, e) => ~Wrong(h.do, e)
  <2>1. \A m, n \in DOMAIN t : m < n => m + 1 < n + 1  BY <1>3
  <2>2. Ordered(t)  BY <1>3, <1>5, <2>1 DEF Ordered
  <2>3. \A e : Left(t, e) => ~Wrong(h.do, e)  BY <1>3, <1>5 DEF Ordered, Left
  <2> QED  BY <2>2, <2>3
<1>6. \A d : Left(r, d) <=> h.do = d \/ Left(t, d)  BY <1>3 DEF Left
<1>7. \A d, c : LeftOn(r, d, c) <=> (h.do = d /\ h.on = c) \/ LeftOn(t, d, c)  BY <1>3 DEF LeftOn
<1> QED  BY <1>1, <1>2, <1>3, <1>4, <1>5, <1>6, <1>7

\* Nothing is left of the empty program.
LEMMA NothingLeft ==
  /\ <<>> \in Seq(Calls) /\ \A i : Fit(<<>>, i)
  /\ Ordered(<<>>) /\ \A d : ~Left(<<>>, d) /\ \A c : ~LeftOn(<<>>, d, c)
BY DEF Fit, Ordered, Left, LeftOn

\* Calls of the menu fit the item.
LEMMA FitsCalls ==
  ASSUME NEW i, NEW d, NEW c
  PROVE  /\ i.act = "DELETE" /\ d \in DeleteMenu => Fits(Must(d, c), i)
         /\ i.act = "DELETE" /\ d \in DeleteMenu /\ d \in {"Drop", "DropListed", "DelPolicy"} =>
               Fits(Warn(d, c), i)
         /\ (/\ i.act # "DELETE" /\ d \in CreateMenu
             /\ d \in {"SetNamespace", "AddNamespace"} => c \in i.want) => Fits(Must(d, c), i)
         /\ i.act # "DELETE" /\ d = "DelNamespace" /\ d \in CreateMenu => Fits(Warn(d, c), i)
BY CallParts DEF Fits

\* The fields of an item, and a container for calls that are about none.
LEMMA RequestParts ==
  ASSUME NEW i \in Requests
  PROVE  /\ i.want \subseteq Containers /\ i.want # {} /\ i.pwd \in Pwds /\ i.pwd \in Nat
         /\ i.pwd # 0
         /\ NoneOf \in Containers /\ i.act \in Acts /\ Acts = {"ADD", "UPDATE", "DELETE"}
<1>0. /\ i.want \in (SUBSET Containers) \ {{}} /\ i.pwd \in Pwds
      /\ i.act \in {"ADD", "UPDATE", "DELETE"}
  BY DEF Requests
<1>1. i.want \subseteq Containers /\ i.want # {} /\ i.pwd \in Pwds /\ i.act \in Acts
  BY <1>0 DEF Acts
<1>2. PICK c : c \in Containers  BY <1>1
<1>3. NoneOf \in Containers  BY <1>2 DEF NoneOf
<1> QED  BY <1>1, <1>3, PwdsAssumption DEF Acts

\* A program that is as it should be.
Proper(p, i) == p \in Seq(Calls) /\ Fit(p, i) /\ Ordered(p)

\* Two programs in a row are proper and owe what each of them owes.
LEMMA JoinTwo ==
  ASSUME NEW i, NEW p, NEW q, NEW Ds, NEW Es, Made(p, Ds, i), Made(q, Es, i),
         \A d \in Ds, e \in Es : ~Wrong(d, e)
  PROVE  /\ Proper(p \o q, i)
         /\ \A d : Left(p, d) => Left(p \o q, d)
         /\ \A d : Left(q, d) => Left(p \o q, d)
         /\ \A d, c : LeftOn(p, d, c) => LeftOn(p \o q, d, c)
         /\ \A d, c : LeftOn(q, d, c) => LeftOn(p \o q, d, c)
<1>1. /\ Made(p \o q, Ds \cup Es, i)
      /\ \A d : Left(p, d) \/ Left(q, d) => Left(p \o q, d)
      /\ \A d, c : LeftOn(p, d, c) \/ LeftOn(q, d, c) => LeftOn(p \o q, d, c)
  BY MadeJoin
<1>2. Proper(p \o q, i)  BY <1>1 DEF Made, Proper
<1> QED  BY <1>1, <1>2

\* Three programs in a row are proper and owe what each of them owes.
LEMMA JoinThree ==
  ASSUME NEW i, NEW p, NEW q, NEW r, NEW Ds, NEW Es, NEW Fs,
         Made(p, Ds, i), Made(q, Es, i), Made(r, Fs, i),
         \A d \in Ds, e \in Es : ~Wrong(d, e),
         \A d \in Ds, e \in Fs : ~Wrong(d, e),
         \A d \in Es, e \in Fs : ~Wrong(d, e)
  PROVE  /\ Proper(p \o q \o r, i)
         /\ \A d : Left(p, d) => Left(p \o q \o r, d)
         /\ \A d : Left(q, d) => Left(p \o q \o r, d)
         /\ \A d : Left(r, d) => Left(p \o q \o r, d)
         /\ \A d, c : LeftOn(p, d, c) => LeftOn(p \o q \o r, d, c)
         /\ \A d, c : LeftOn(q, d, c) => LeftOn(p \o q \o r, d, c)
<1>1. PICK a : a = p \o q  OBVIOUS
<1>2. /\ Made(p \o q, Ds \cup Es, i)
      /\ \A d : Left(p, d) \/ Left(q, d) => Left(p \o q, d)
      /\ \A d, c : LeftOn(p, d, c) \/ LeftOn(q, d, c) => LeftOn(p \o q, d, c)
  BY MadeJoin
<1>3. PICK G : G = Ds \cup Es  OBVIOUS
<1>4. \A d \in G, e \in Fs : ~Wrong(d, e)  BY <1>3
<1>5. Made(a, G, i)  BY <1>1, <1>2, <1>3
<1>6. /\ Proper(a \o r, i)
      /\ \A d : Left(a, d) => Left(a \o r, d)
      /\ \A d : Left(r, d) => Left(a \o r, d)
      /\ \A d, c : LeftOn(a, d, c) => LeftOn(a \o r, d, c)
  BY <1>4, <1>5, JoinTwo
<1> QED  BY <1>1, <1>2, <1>6

\* MinIO and Elasticsearch.
LEMMA MadePolicied ==
  ASSUME NEW i \in Requests, i.act # "DELETE", NEW a \in {"PutUser", "PutUserNoRole"},
         kind \in Policied, a \in CreateMenu
  PROVE  LET p == <<Must(a, NoneOf)>> \o Each(i.want, "Make")
                    \o <<Must("PutPolicy", NoneOf), Must("Attach", NoneOf)>> IN
         /\ Proper(p, i) /\ Left(p, a)
         /\ \A c \in i.want : LeftOn(p, "Make", c)
         /\ Left(p, "PutPolicy") /\ Left(p, "Attach")
<1>1. {"Make", "PutPolicy", "Attach"} \subseteq CreateMenu  BY DEF CreateMenu, Policied, Sql
<1> DEFINE k == Must(a, NoneOf)
           l == Must("PutPolicy", NoneOf)
           m == Must("Attach", NoneOf)
<1>2. i.want \in SUBSET Containers /\ NoneOf \in Containers  BY RequestParts
<1>3. k \in Calls /\ l \in Calls /\ m \in Calls  BY <1>2, CallType DEF Names
<1>4. Fits(k, i) /\ Fits(l, i) /\ Fits(m, i) /\ \A c \in i.want : Fits(Must("Make", c), i)
  BY <1>1, FitsCalls
<1>5. k.do = a /\ l.do = "PutPolicy" /\ m.do = "Attach"  BY CallParts
<1> HIDE DEF k, l, m
<1>6. PICK A : A = <<k>>  OBVIOUS
<1>7. PICK B : B = Each(i.want, "Make")  OBVIOUS
<1>8. PICK C : C = <<l, m>>  OBVIOUS
<1>9. PICK Ds : Ds = {a}  OBVIOUS
<1>10. PICK Es : Es = {"Make"}  OBVIOUS
<1>11. PICK Fs : Fs = {"PutPolicy", "Attach"}  OBVIOUS
<1>12. Made(A, Ds, i) /\ Left(A, a)  BY <1>3, <1>4, <1>5, <1>6, <1>9, MadeOne
<1>13. Made(B, Es, i) /\ \A c \in i.want : LeftOn(B, "Make", c)
  <2>1. ~Wrong("Make", "Make")  BY DEF Wrong
  <2> QED  BY <1>2, <1>4, <1>7, <1>10, <2>1, MadeEach DEF Names
<1>14. Made(C, Fs, i) /\ Left(C, "PutPolicy") /\ Left(C, "Attach")
  <2>1. ~Wrong("PutPolicy", "Attach")  BY DEF Wrong
  <2> QED  BY <1>3, <1>4, <1>5, <1>8, <1>11, <2>1, MadeTwo
<1>15. /\ \A d \in Ds, e \in Es : ~Wrong(d, e)
       /\ \A d \in Ds, e \in Fs : ~Wrong(d, e)
       /\ \A d \in Es, e \in Fs : ~Wrong(d, e)
  BY <1>9, <1>10, <1>11 DEF Wrong
<1>16. /\ Proper(A \o B \o C, i) /\ Left(A \o B \o C, a)
       /\ \A c \in i.want : LeftOn(A \o B \o C, "Make", c)
       /\ Left(A \o B \o C, "PutPolicy") /\ Left(A \o B \o C, "Attach")
  BY <1>12, <1>13, <1>14, <1>15, JoinThree
<1> QED  BY <1>6, <1>7, <1>8, <1>16 DEF k, l, m
\* The empty program.
LEMMA EmptyMade ==
  ASSUME NEW i
  PROVE  Made(<<>>, {}, i)
<1>1. PICK p : p = <<>>  OBVIOUS
<1>2. p \in Seq(Calls) /\ DOMAIN p = {}  BY <1>1
<1>3. Made(p, {}, i)  BY <1>2 DEF Made, Fit, Ordered
<1> QED  BY <1>1, <1>3

\* What is listed is removed where the request allows it.
LEMMA OnlyMade ==
  ASSUME NEW i \in Requests, i.act = "DELETE", kind \in Policied
  PROVE  LET p == Only(i.all, <<Warn("DropListed", NoneOf)>>) IN
         Made(p, {"DropListed"}, i) /\ (i.all => Left(p, "DropListed"))
<1>1. "DropListed" \in DeleteMenu  BY DEF DeleteMenu, Policied, Sql
<1> DEFINE m == Warn("DropListed", NoneOf)
<1>2. NoneOf \in Containers  BY RequestParts
<1>3. m \in Calls /\ Fits(m, i) /\ m.do = "DropListed"
  BY <1>1, <1>2, CallType, FitsCalls, CallParts DEF Names
<1> HIDE DEF m
<1>4. PICK q : q = <<m>>  OBVIOUS
<1>5. PICK Fs : Fs = {"DropListed"}  OBVIOUS
<1>6. Made(q, Fs, i) /\ Left(q, "DropListed")  BY <1>3, <1>4, <1>5, MadeOne
<1>7. PICK e : e = <<>>  OBVIOUS
<1>8. Made(e, Fs, i)
  <2>1. e \in Seq(Calls) /\ DOMAIN e = {}  BY <1>7
  <2> QED  BY <2>1 DEF Made, Fit, Ordered
<1>9. PICK p : p = Only(i.all, q)  OBVIOUS
<1>10. Made(p, Fs, i) /\ (i.all => Left(p, "DropListed"))
  BY <1>6, <1>7, <1>8, <1>9 DEF Only
<1> QED  BY <1>4, <1>5, <1>9, <1>10 DEF m

\* Elasticsearch: the account first.
LEMMA ElasticDeletion ==
  ASSUME NEW i \in Requests, i.act = "DELETE", kind = "elasticsearch"
  PROVE  LET p == <<Must("DelUser", NoneOf), Must("DelPolicy", NoneOf)>> \o Each(i.want, "Drop")
                    \o Only(i.all, <<Warn("DropListed", NoneOf)>>) IN
         /\ Proper(p, i) /\ Left(p, "DelUser") /\ Left(p, "DelPolicy")
         /\ i.all => Left(p, "DropListed")
         /\ \A c \in i.want : LeftOn(p, "Drop", c)
<1>1. {"DelUser", "DelPolicy", "Drop", "DropListed"} \subseteq DeleteMenu
  BY DEF DeleteMenu, Policied, Sql
<1> DEFINE k == Must("DelUser", NoneOf)
           l == Must("DelPolicy", NoneOf)
<1>2. i.want \in SUBSET Containers /\ NoneOf \in Containers  BY RequestParts
<1>3. k \in Calls /\ l \in Calls  BY <1>2, CallType DEF Names
<1>4. /\ Fits(k, i)
      /\ Fits(l, i)
      /\ (\A c \in i.want : Fits(Must("Drop", c), i))
  BY <1>1, FitsCalls
<1>5. k.do = "DelUser" /\ l.do = "DelPolicy"  BY CallParts
<1> HIDE DEF k, l
<1>6. PICK A : A = <<k, l>>  OBVIOUS
<1>7. PICK Ds : Ds = {"DelUser", "DelPolicy"}  OBVIOUS
<1>8. PICK B : B = Each(i.want, "Drop")  OBVIOUS
<1>9. PICK Es : Es = {"Drop"}  OBVIOUS
<1>10. PICK C : C = Only(i.all, <<Warn("DropListed", NoneOf)>>)  OBVIOUS
<1>11. PICK Fs : Fs = {"DropListed"}  OBVIOUS
<1>12. Made(A, Ds, i) /\ Left(A, "DelUser") /\ Left(A, "DelPolicy")
  <2>1. ~Wrong("DelUser", "DelPolicy")  BY DEF Wrong
  <2> QED  BY <1>3, <1>4, <1>5, <1>6, <1>7, <2>1, MadeTwo
<1>13. Made(B, Es, i) /\ \A c \in i.want : LeftOn(B, "Drop", c)
  <2>1. ~Wrong("Drop", "Drop")  BY DEF Wrong
  <2> QED  BY <1>2, <1>4, <1>8, <1>9, <2>1, MadeEach DEF Names
<1>14. Made(C, Fs, i) /\ (i.all => Left(C, "DropListed"))
  BY <1>10, <1>11, OnlyMade DEF Policied
<1>15. /\ \A d \in Ds, e \in Es : ~Wrong(d, e)
       /\ \A d \in Ds, e \in Fs : ~Wrong(d, e)
       /\ \A d \in Es, e \in Fs : ~Wrong(d, e)
  BY <1>7, <1>9, <1>11 DEF Wrong
<1>16. /\ Proper(A \o B \o C, i) /\ Left(A \o B \o C, "DelUser")
       /\ Left(A \o B \o C, "DelPolicy") /\ (i.all => Left(A \o B \o C, "DropListed"))
       /\ \A c \in i.want : LeftOn(A \o B \o C, "Drop", c)
  <2>0. Made(A, Ds, i) /\ Made(B, Es, i) /\ Made(C, Fs, i)  BY <1>12, <1>13, <1>14
  <2>1. /\ Proper(A \o B \o C, i)
        /\ \A d : Left(A, d) => Left(A \o B \o C, d)
        /\ \A d : Left(B, d) => Left(A \o B \o C, d)
        /\ \A d : Left(C, d) => Left(A \o B \o C, d)
        /\ \A d, c : LeftOn(B, d, c) => LeftOn(A \o B \o C, d, c)
    BY <2>0, <1>15, JoinThree
  <2> QED  BY <1>12, <1>13, <1>14, <2>1
<1> QED  BY <1>6, <1>8, <1>10, <1>16 DEF k, l

\* MinIO: the buckets first.
LEMMA MinioDeletion ==
  ASSUME NEW i \in Requests, i.act = "DELETE", kind = "minio"
  PROVE  LET p == EachWarn(i.want, "Drop") \o Only(i.all, <<Warn("DropListed", NoneOf)>>)
                      \o <<Must("DelUser", NoneOf), Warn("DelPolicy", NoneOf)>> IN
         Proper(p, i) /\ Left(p, "DelUser")
<1>1. {"Drop", "DelUser", "DelPolicy"} \subseteq DeleteMenu
  BY DEF DeleteMenu, Policied, Sql
<1> DEFINE l == Must("DelUser", NoneOf)
           m == Warn("DelPolicy", NoneOf)
<1>2. i.want \in SUBSET Containers /\ NoneOf \in Containers  BY RequestParts
<1>3. l \in Calls /\ m \in Calls  BY <1>2, CallType DEF Names
<1>4. /\ Fits(l, i)
      /\ Fits(m, i)
      /\ (\A c \in i.want : Fits(Warn("Drop", c), i))
  BY <1>1, FitsCalls
<1>5. l.do = "DelUser" /\ m.do = "DelPolicy"  BY CallParts
<1> HIDE DEF l, m
<1>6. PICK A : A = EachWarn(i.want, "Drop")  OBVIOUS
<1>7. PICK Ds : Ds = {"Drop"}  OBVIOUS
<1>8. PICK B : B = Only(i.all, <<Warn("DropListed", NoneOf)>>)  OBVIOUS
<1>9. PICK Es : Es = {"DropListed"}  OBVIOUS
<1>10. PICK C : C = <<l, m>>  OBVIOUS
<1>11. PICK Fs : Fs = {"DelUser", "DelPolicy"}  OBVIOUS
<1>12. Made(A, Ds, i)
  <2>1. ~Wrong("Drop", "Drop")  BY DEF Wrong
  <2> QED  BY <1>2, <1>4, <1>6, <1>7, <2>1, MadeEach DEF Names
<1>13. Made(B, Es, i)  BY <1>8, <1>9, OnlyMade DEF Policied
<1>14. Made(C, Fs, i) /\ Left(C, "DelUser")
  <2>1. ~Wrong("DelUser", "DelPolicy")  BY DEF Wrong
  <2> QED  BY <1>3, <1>4, <1>5, <1>10, <1>11, <2>1, MadeTwo
<1>15. /\ \A d \in Ds, e \in Es : ~Wrong(d, e)
       /\ \A d \in Ds, e \in Fs : ~Wrong(d, e)
       /\ \A d \in Es, e \in Fs : ~Wrong(d, e)
  BY <1>7, <1>9, <1>11 DEF Wrong
<1>16. Proper(A \o B \o C, i) /\ Left(A \o B \o C, "DelUser")
  BY <1>12, <1>13, <1>14, <1>15, JoinThree
<1> QED  BY <1>6, <1>8, <1>10, <1>16 DEF l, m

\* RabbitMQ.
LEMMA RabbitCreation ==
  ASSUME NEW i \in Requests, i.act # "DELETE", kind = "rabbitmq"
  PROVE  LET p == <<Must("PutUser", NoneOf)>> \o EachPair(i.want, "Make", "Grant") IN
         /\ Proper(p, i) /\ Left(p, "PutUser")
         /\ \A c \in i.want : LeftOn(p, "Make", c) /\ LeftOn(p, "Grant", c)
<1>1. {"PutUser", "Make", "Grant"} \subseteq CreateMenu  BY DEF CreateMenu, Policied, Sql
<1> DEFINE k == Must("PutUser", NoneOf)
<1>2. i.want \in SUBSET Containers /\ NoneOf \in Containers  BY RequestParts
<1>3. k \in Calls  BY <1>2, CallType DEF Names
<1>4. /\ Fits(k, i)
      /\ (\A c \in i.want : Fits(Must("Make", c), i))
      /\ (\A c \in i.want : Fits(Must("Grant", c), i))
  BY <1>1, FitsCalls
<1>5. k.do = "PutUser"  BY CallParts
<1> HIDE DEF k
<1>6. PICK A : A = <<k>>  OBVIOUS
<1>7. PICK Ds : Ds = {"PutUser"}  OBVIOUS
<1>8. PICK B : B = EachPair(i.want, "Make", "Grant")  OBVIOUS
<1>9. PICK Es : Es = {"Make", "Grant"}  OBVIOUS
<1>10. Made(A, Ds, i) /\ Left(A, "PutUser")
  BY <1>3, <1>4, <1>5, <1>6, <1>7, MadeOne
<1>11. Made(B, Es, i) /\ \A c \in i.want : LeftOn(B, "Make", c) /\ LeftOn(B, "Grant", c)
  <2>1. \A x, y \in {"Make", "Grant"} : ~Wrong(x, y)  BY DEF Wrong
  <2>2. "Make" \in Names /\ "Grant" \in Names  BY DEF Names
  <2> QED  BY <1>2, <1>4, <1>8, <1>9, <2>1, <2>2, MadeEachPair
<1>12. /\ \A d \in Ds, e \in Es : ~Wrong(d, e)
  BY <1>7, <1>9 DEF Wrong
<1>13. /\ Proper(A \o B, i) /\ Left(A \o B, "PutUser")
       /\ \A c \in i.want : LeftOn(A \o B, "Make", c) /\ LeftOn(A \o B, "Grant", c)
  BY <1>10, <1>11, <1>12, JoinTwo
<1> QED  BY <1>6, <1>8, <1>13 DEF k

\* RabbitMQ: the permissions and hosts first.
LEMMA RabbitDeletion ==
  ASSUME NEW i \in Requests, i.act = "DELETE", kind = "rabbitmq"
  PROVE  LET p == EachPair(i.want, "Revoke", "Drop") \o <<Must("DelUser", NoneOf)>> IN
         /\ Proper(p, i) /\ Left(p, "DelUser")
         /\ \A c \in i.want : LeftOn(p, "Revoke", c) /\ LeftOn(p, "Drop", c)
<1>1. {"Revoke", "Drop", "DelUser"} \subseteq DeleteMenu  BY DEF DeleteMenu, Policied, Sql
<1> DEFINE k == Must("DelUser", NoneOf)
<1>2. i.want \in SUBSET Containers /\ NoneOf \in Containers  BY RequestParts
<1>3. k \in Calls  BY <1>2, CallType DEF Names
<1>4. /\ Fits(k, i)
      /\ (\A c \in i.want : Fits(Must("Revoke", c), i))
      /\ (\A c \in i.want : Fits(Must("Drop", c), i))
  BY <1>1, FitsCalls
<1>5. k.do = "DelUser"  BY CallParts
<1> HIDE DEF k
<1>6. PICK A : A = EachPair(i.want, "Revoke", "Drop")  OBVIOUS
<1>7. PICK Ds : Ds = {"Revoke", "Drop"}  OBVIOUS
<1>8. PICK B : B = <<k>>  OBVIOUS
<1>9. PICK Es : Es = {"DelUser"}  OBVIOUS
<1>10. Made(A, Ds, i) /\ \A c \in i.want : LeftOn(A, "Revoke", c) /\ LeftOn(A, "Drop", c)
  <2>1. \A x, y \in {"Revoke", "Drop"} : ~Wrong(x, y)  BY DEF Wrong
  <2>2. "Revoke" \in Names /\ "Drop" \in Names  BY DEF Names
  <2> QED  BY <1>2, <1>4, <1>6, <1>7, <2>1, <2>2, MadeEachPair
<1>11. Made(B, Es, i) /\ Left(B, "DelUser")
  BY <1>3, <1>4, <1>5, <1>8, <1>9, MadeOne
<1>12. /\ \A d \in Ds, e \in Es : ~Wrong(d, e)
  BY <1>7, <1>9 DEF Wrong
<1>13. /\ Proper(A \o B, i) /\ Left(A \o B, "DelUser")
       /\ \A c \in i.want : LeftOn(A \o B, "Revoke", c) /\ LeftOn(A \o B, "Drop", c)
  BY <1>10, <1>11, <1>12, JoinTwo
<1> QED  BY <1>6, <1>8, <1>13 DEF k

\* MariaDB and MySQL.
LEMMA SqlCreation ==
  ASSUME NEW i \in Requests, i.act # "DELETE", kind \in Sql
  PROVE  LET p == <<Must("NewUser", NoneOf)>> \o EachPair(i.want, "Make", "Grant")
                    \o <<Must("Flush", NoneOf)>> IN
         /\ Proper(p, i) /\ Left(p, "NewUser") /\ Left(p, "Flush")
         /\ \A c \in i.want : LeftOn(p, "Make", c) /\ LeftOn(p, "Grant", c)
<1>1. {"NewUser", "Make", "Grant", "Flush"} \subseteq CreateMenu  BY DEF CreateMenu, Policied, Sql
<1> DEFINE k == Must("NewUser", NoneOf)
           l == Must("Flush", NoneOf)
<1>2. i.want \in SUBSET Containers /\ NoneOf \in Containers  BY RequestParts
<1>3. k \in Calls /\ l \in Calls  BY <1>2, CallType DEF Names
<1>4. /\ Fits(k, i)
      /\ Fits(l, i)
      /\ (\A c \in i.want : Fits(Must("Make", c), i))
      /\ (\A c \in i.want : Fits(Must("Grant", c), i))
  BY <1>1, FitsCalls
<1>5. k.do = "NewUser" /\ l.do = "Flush"  BY CallParts
<1> HIDE DEF k, l
<1>6. PICK A : A = <<k>>  OBVIOUS
<1>7. PICK Ds : Ds = {"NewUser"}  OBVIOUS
<1>8. PICK B : B = EachPair(i.want, "Make", "Grant")  OBVIOUS
<1>9. PICK Es : Es = {"Make", "Grant"}  OBVIOUS
<1>10. PICK C : C = <<l>>  OBVIOUS
<1>11. PICK Fs : Fs = {"Flush"}  OBVIOUS
<1>12. Made(A, Ds, i) /\ Left(A, "NewUser")
  BY <1>3, <1>4, <1>5, <1>6, <1>7, MadeOne
<1>13. Made(B, Es, i) /\ \A c \in i.want : LeftOn(B, "Make", c) /\ LeftOn(B, "Grant", c)
  <2>1. \A x, y \in {"Make", "Grant"} : ~Wrong(x, y)  BY DEF Wrong
  <2>2. "Make" \in Names /\ "Grant" \in Names  BY DEF Names
  <2> QED  BY <1>2, <1>4, <1>8, <1>9, <2>1, <2>2, MadeEachPair
<1>14. Made(C, Fs, i) /\ Left(C, "Flush")
  BY <1>3, <1>4, <1>5, <1>10, <1>11, MadeOne
<1>15. /\ \A d \in Ds, e \in Es : ~Wrong(d, e)
       /\ \A d \in Ds, e \in Fs : ~Wrong(d, e)
       /\ \A d \in Es, e \in Fs : ~Wrong(d, e)
  BY <1>7, <1>9, <1>11 DEF Wrong
<1>16. /\ Proper(A \o B \o C, i) /\ Left(A \o B \o C, "NewUser") /\ Left(A \o B \o C, "Flush")
       /\ \A c \in i.want : LeftOn(A \o B \o C, "Make", c) /\ LeftOn(A \o B \o C, "Grant", c)
  <2>0. Made(A, Ds, i) /\ Made(B, Es, i) /\ Made(C, Fs, i)  BY <1>12, <1>13, <1>14
  <2>1. /\ Proper(A \o B \o C, i)
        /\ \A d : Left(A, d) => Left(A \o B \o C, d)
        /\ \A d : Left(B, d) => Left(A \o B \o C, d)
        /\ \A d : Left(C, d) => Left(A \o B \o C, d)
        /\ \A d, c : LeftOn(B, d, c) => LeftOn(A \o B \o C, d, c)
    BY <2>0, <1>15, JoinThree
  <2> QED  BY <1>12, <1>13, <1>14, <2>1
<1> QED  BY <1>6, <1>8, <1>10, <1>16 DEF k, l

\* MariaDB and MySQL: the account first.
LEMMA SqlDeletion ==
  ASSUME NEW i \in Requests, i.act = "DELETE", kind \in Sql
  PROVE  LET p == <<Must("DelUser", NoneOf)>> \o Each(i.want, "Drop") IN
         /\ Proper(p, i) /\ Left(p, "DelUser")
         /\ \A c \in i.want : LeftOn(p, "Drop", c)
<1>1. {"DelUser", "Drop"} \subseteq DeleteMenu  BY DEF DeleteMenu, Policied, Sql
<1> DEFINE k == Must("DelUser", NoneOf)
<1>2. i.want \in SUBSET Containers /\ NoneOf \in Containers  BY RequestParts
<1>3. k \in Calls  BY <1>2, CallType DEF Names
<1>4. /\ Fits(k, i)
      /\ (\A c \in i.want : Fits(Must("Drop", c), i))
  BY <1>1, FitsCalls
<1>5. k.do = "DelUser"  BY CallParts
<1> HIDE DEF k
<1>6. PICK A : A = <<k>>  OBVIOUS
<1>7. PICK Ds : Ds = {"DelUser"}  OBVIOUS
<1>8. PICK B : B = Each(i.want, "Drop")  OBVIOUS
<1>9. PICK Es : Es = {"Drop"}  OBVIOUS
<1>10. Made(A, Ds, i) /\ Left(A, "DelUser")
  BY <1>3, <1>4, <1>5, <1>6, <1>7, MadeOne
<1>11. Made(B, Es, i) /\ \A c \in i.want : LeftOn(B, "Drop", c)
  <2>1. ~Wrong("Drop", "Drop")  BY DEF Wrong
  <2> QED  BY <1>2, <1>4, <1>8, <1>9, <2>1, MadeEach DEF Names
<1>12. /\ \A d \in Ds, e \in Es : ~Wrong(d, e)
  BY <1>7, <1>9 DEF Wrong
<1>13. /\ Proper(A \o B, i) /\ Left(A \o B, "DelUser")
       /\ \A c \in i.want : LeftOn(A \o B, "Drop", c)
  BY <1>10, <1>11, <1>12, JoinTwo
<1> QED  BY <1>6, <1>8, <1>13 DEF k

\* MongoDB.
LEMMA MongoCreation ==
  ASSUME NEW i \in Requests, i.act # "DELETE", kind = "mongodb"
  PROVE  LET p == EachPair(i.want, "PutAccount", "Script") IN
         /\ Proper(p, i)
         /\ \A c \in i.want : LeftOn(p, "PutAccount", c) /\ LeftOn(p, "Script", c)
<1>1. {"PutAccount", "Script"} \subseteq CreateMenu  BY DEF CreateMenu, Policied, Sql
<1>2. i.want \in SUBSET Containers /\ NoneOf \in Containers  BY RequestParts
<1>4. /\ (\A c \in i.want : Fits(Must("PutAccount", c), i))
      /\ (\A c \in i.want : Fits(Must("Script", c), i))
  BY <1>1, FitsCalls
<1>6. PICK A : A = EachPair(i.want, "PutAccount", "Script")  OBVIOUS
<1>7. PICK Ds : Ds = {"PutAccount", "Script"}  OBVIOUS
<1>8. Made(A, Ds, i) /\ \A c \in i.want : LeftOn(A, "PutAccount", c) /\ LeftOn(A, "Script", c)
  <2>1. \A x, y \in {"PutAccount", "Script"} : ~Wrong(x, y)  BY DEF Wrong
  <2>2. "PutAccount" \in Names /\ "Script" \in Names  BY DEF Names
  <2> QED  BY <1>2, <1>4, <1>6, <1>7, <2>1, <2>2, MadeEachPair
<1>9. Proper(A, i)  BY <1>8 DEF Made, Proper
<1> QED  BY <1>6, <1>8, <1>9

\* MongoDB, where an account is found.
LEMMA MongoDeletion ==
  ASSUME NEW i \in Requests, i.act = "DELETE", kind = "mongodb"
  PROVE  LET p == Each(i.want, "DelAccount") \o Each(i.want, "Drop") IN
         /\ Proper(p, i)
         /\ \A c \in i.want : LeftOn(p, "DelAccount", c) /\ LeftOn(p, "Drop", c)
<1>1. {"DelAccount", "Drop"} \subseteq DeleteMenu  BY DEF DeleteMenu, Policied, Sql
<1>2. i.want \in SUBSET Containers /\ NoneOf \in Containers  BY RequestParts
<1>4. /\ (\A c \in i.want : Fits(Must("DelAccount", c), i))
      /\ (\A c \in i.want : Fits(Must("Drop", c), i))
  BY <1>1, FitsCalls
<1>6. PICK A : A = Each(i.want, "DelAccount")  OBVIOUS
<1>7. PICK Ds : Ds = {"DelAccount"}  OBVIOUS
<1>8. PICK B : B = Each(i.want, "Drop")  OBVIOUS
<1>9. PICK Es : Es = {"Drop"}  OBVIOUS
<1>10. Made(A, Ds, i) /\ \A c \in i.want : LeftOn(A, "DelAccount", c)
  <2>1. ~Wrong("DelAccount", "DelAccount")  BY DEF Wrong
  <2> QED  BY <1>2, <1>4, <1>6, <1>7, <2>1, MadeEach DEF Names
<1>11. Made(B, Es, i) /\ \A c \in i.want : LeftOn(B, "Drop", c)
  <2>1. ~Wrong("Drop", "Drop")  BY DEF Wrong
  <2> QED  BY <1>2, <1>4, <1>8, <1>9, <2>1, MadeEach DEF Names
<1>12. /\ \A d \in Ds, e \in Es : ~Wrong(d, e)
  BY <1>7, <1>9 DEF Wrong
<1>13. /\ Proper(A \o B, i)
       /\ \A c \in i.want : LeftOn(A \o B, "DelAccount", c) /\ LeftOn(A \o B, "Drop", c)
  BY <1>10, <1>11, <1>12, JoinTwo
<1> QED  BY <1>6, <1>8, <1>13

\* NATS: the file is read, emptied and written.
LEMMA NatsCreation ==
  ASSUME NEW i \in Requests, i.act # "DELETE", kind = "nats"
  PROVE  LET p == <<Must("Load", NoneOf), Must("Truncate", NoneOf),
                    Must("Write", NoneOf), Must("Stream", NoneOf)>> IN
         /\ Proper(p, i) /\ Left(p, "Load") /\ Left(p, "Truncate") /\ Left(p, "Write")
         /\ Left(p, "Stream")
<1>1. {"Load", "Truncate", "Write", "Stream"} \subseteq CreateMenu
  BY DEF CreateMenu, Policied, Sql
<1> DEFINE k == Must("Load", NoneOf)
           l == Must("Truncate", NoneOf)
           m == Must("Write", NoneOf)
           o == Must("Stream", NoneOf)
<1>2. i.want \in SUBSET Containers /\ NoneOf \in Containers  BY RequestParts
<1>3. k \in Calls /\ l \in Calls /\ m \in Calls /\ o \in Calls  BY <1>2, CallType DEF Names
<1>4. /\ Fits(k, i)
      /\ Fits(l, i)
      /\ Fits(m, i)
      /\ Fits(o, i)
  BY <1>1, FitsCalls
<1>5. k.do = "Load" /\ l.do = "Truncate" /\ m.do = "Write" /\ o.do = "Stream"  BY CallParts
<1> HIDE DEF k, l, m, o
<1>6. PICK A : A = <<k, l, m, o>>  OBVIOUS
<1>7. PICK Ds : Ds = {"Load", "Truncate", "Write", "Stream"}  OBVIOUS
<1>8. /\ Made(A, Ds, i) /\ Left(A, "Load") /\ Left(A, "Truncate") /\ Left(A, "Write")
      /\ Left(A, "Stream")
  <2>1. /\ ~Wrong("Load", "Truncate") /\ ~Wrong("Load", "Write") /\ ~Wrong("Load", "Stream")
        /\ ~Wrong("Truncate", "Write") /\ ~Wrong("Truncate", "Stream")
        /\ ~Wrong("Write", "Stream")
    BY DEF Wrong
  <2> QED  BY <1>3, <1>4, <1>5, <1>6, <1>7, <2>1, MadeFour
<1>9. Proper(A, i)  BY <1>8 DEF Made, Proper
<1> QED  BY <1>6, <1>8, <1>9 DEF k, l, m, o

\* NATS: the file is read, emptied and written.
LEMMA NatsDeletion ==
  ASSUME NEW i \in Requests, i.act = "DELETE", kind = "nats"
  PROVE  LET p == <<Must("Load", NoneOf), Must("Truncate", NoneOf),
                    Must("Write", NoneOf), Must("Stream", NoneOf)>> IN
         /\ Proper(p, i) /\ Left(p, "Load") /\ Left(p, "Truncate") /\ Left(p, "Write")
         /\ Left(p, "Stream")
<1>1. {"Load", "Truncate", "Write", "Stream"} \subseteq DeleteMenu
  BY DEF DeleteMenu, Policied, Sql
<1> DEFINE k == Must("Load", NoneOf)
           l == Must("Truncate", NoneOf)
           m == Must("Write", NoneOf)
           o == Must("Stream", NoneOf)
<1>2. i.want \in SUBSET Containers /\ NoneOf \in Containers  BY RequestParts
<1>3. k \in Calls /\ l \in Calls /\ m \in Calls /\ o \in Calls  BY <1>2, CallType DEF Names
<1>4. /\ Fits(k, i)
      /\ Fits(l, i)
      /\ Fits(m, i)
      /\ Fits(o, i)
  BY <1>1, FitsCalls
<1>5. k.do = "Load" /\ l.do = "Truncate" /\ m.do = "Write" /\ o.do = "Stream"  BY CallParts
<1> HIDE DEF k, l, m, o
<1>6. PICK A : A = <<k, l, m, o>>  OBVIOUS
<1>7. PICK Ds : Ds = {"Load", "Truncate", "Write", "Stream"}  OBVIOUS
<1>8. /\ Made(A, Ds, i) /\ Left(A, "Load") /\ Left(A, "Truncate") /\ Left(A, "Write")
      /\ Left(A, "Stream")
  <2>1. /\ ~Wrong("Load", "Truncate") /\ ~Wrong("Load", "Write") /\ ~Wrong("Load", "Stream")
        /\ ~Wrong("Truncate", "Write") /\ ~Wrong("Truncate", "Stream")
        /\ ~Wrong("Write", "Stream")
    BY DEF Wrong
  <2> QED  BY <1>3, <1>4, <1>5, <1>6, <1>7, <2>1, MadeFour
<1>9. Proper(A, i)  BY <1>8 DEF Made, Proper
<1> QED  BY <1>6, <1>8, <1>9 DEF k, l, m, o

\* A call owed for every container of a non-empty set is owed.
LEMMA SomeLeft ==
  ASSUME NEW p, NEW d, NEW S, S # {}, \A c \in S : LeftOn(p, d, c)
  PROVE  Left(p, d)
BY DEF Left, LeftOn

\* MongoDB, where no account is found.
LEMMA MongoDeletionRest ==
  ASSUME NEW i \in Requests, i.act = "DELETE", kind = "mongodb"
  PROVE  LET p == <<>> \o Each(i.want, "Drop") IN
         /\ Proper(p, i)
         /\ \A c \in i.want : LeftOn(p, "Drop", c)
<1>1. "Drop" \in DeleteMenu  BY DEF DeleteMenu, Policied, Sql
<1>2. i.want \in SUBSET Containers  BY RequestParts
<1>3. \A c \in i.want : Fits(Must("Drop", c), i)  BY <1>1, FitsCalls
<1>4. PICK A : A = <<>>  OBVIOUS
<1>5. PICK B : B = Each(i.want, "Drop")  OBVIOUS
<1>6. PICK Ds : Ds = {}  OBVIOUS
<1>7. PICK Es : Es = {"Drop"}  OBVIOUS
<1>8. Made(A, Ds, i)  BY <1>4, <1>6, EmptyMade
<1>9. Made(B, Es, i) /\ \A c \in i.want : LeftOn(B, "Drop", c)
  <2>1. ~Wrong("Drop", "Drop")  BY DEF Wrong
  <2> QED  BY <1>2, <1>3, <1>5, <1>7, <2>1, MadeEach DEF Names
<1>10. \A d \in Ds, e \in Es : ~Wrong(d, e)  BY <1>6
<1>11. Proper(A \o B, i) /\ \A c \in i.want : LeftOn(A \o B, "Drop", c)
  BY <1>8, <1>9, <1>10, JoinTwo
<1> QED  BY <1>4, <1>5, <1>11

\* KVRocks: the namespace is there, ...
LEMMA NamespaceSet ==
  ASSUME NEW i \in Requests, i.act # "DELETE", kind = "kvrocks"
  PROVE  /\ Proper(Each(i.want, "SetNamespace"), i)
         /\ Left(Each(i.want, "SetNamespace"), "SetNamespace")
<1>1. "SetNamespace" \in CreateMenu  BY DEF CreateMenu, Policied, Sql
<1>2. i.want \in SUBSET Containers /\ i.want # {}  BY RequestParts
<1>3. \A c \in i.want : Fits(Must("SetNamespace", c), i)  BY <1>1, FitsCalls
<1>4. PICK A : A = Each(i.want, "SetNamespace")  OBVIOUS
<1>5. Made(A, {"SetNamespace"}, i) /\ \A c \in i.want : LeftOn(A, "SetNamespace", c)
  <2>1. ~Wrong("SetNamespace", "SetNamespace")  BY DEF Wrong
  <2> QED  BY <1>2, <1>3, <1>4, <2>1, MadeEach DEF Names
<1>6. Proper(A, i)  BY <1>5 DEF Made, Proper
<1>7. Left(A, "SetNamespace")  BY <1>2, <1>5, SomeLeft
<1> QED  BY <1>4, <1>6, <1>7

\* ... or it is added, perhaps after those that have its token.
LEMMA NamespaceAdded ==
  ASSUME NEW i \in Requests, i.act # "DELETE", kind = "kvrocks", NEW S \in SUBSET Containers,
         NEW u, u = <<>> \/ u = EachWarn(S, "DelNamespace")
  PROVE  Proper(u \o Each(i.want, "AddNamespace"), i)
         /\ Left(u \o Each(i.want, "AddNamespace"), "AddNamespace")
<1>1. "AddNamespace" \in CreateMenu /\ "DelNamespace" \in CreateMenu
  BY DEF CreateMenu, Policied, Sql
<1>2. i.want \in SUBSET Containers /\ i.want # {}  BY RequestParts
<1>3. \A c \in i.want : Fits(Must("AddNamespace", c), i)  BY <1>1, FitsCalls
<1>4. PICK A : A = Each(i.want, "AddNamespace")  OBVIOUS
<1>5. PICK Es : Es = {"AddNamespace"}  OBVIOUS
<1>6. Made(A, Es, i) /\ \A c \in i.want : LeftOn(A, "AddNamespace", c)
  <2>1. ~Wrong("AddNamespace", "AddNamespace")  BY DEF Wrong
  <2> QED  BY <1>2, <1>3, <1>4, <1>5, <2>1, MadeEach DEF Names
<1>7. Left(A, "AddNamespace")  BY <1>2, <1>6, SomeLeft
<1>8. PICK Ds : Made(u, Ds, i) /\ Ds \subseteq {"DelNamespace"}
  <2>1. CASE u = <<>>  BY <2>1, EmptyMade
  <2>2. CASE u = EachWarn(S, "DelNamespace")
    <3>1. \A c \in S : Fits(Warn("DelNamespace", c), i)  BY <1>1, FitsCalls
    <3>2. ~Wrong("DelNamespace", "DelNamespace")  BY DEF Wrong
    <3> QED  BY <2>2, <3>1, <3>2, MadeEach DEF Names
  <2> QED  BY <2>1, <2>2
<1>9. \A d \in Ds, e \in Es : ~Wrong(d, e)  BY <1>5, <1>8 DEF Wrong
<1>10. Proper(u \o A, i) /\ Left(u \o A, "AddNamespace")  BY <1>6, <1>7, <1>8, <1>9, JoinTwo
<1> QED  BY <1>4, <1>10

\* KVRocks: the namespaces of the item that are there are deleted.
LEMMA NamespaceDeleted ==
  ASSUME NEW i \in Requests, i.act = "DELETE", kind = "kvrocks", NEW S \in SUBSET Containers
  PROVE  /\ Proper(Each(S, "DelNamespace"), i)
         /\ \A c \in S : LeftOn(Each(S, "DelNamespace"), "DelNamespace", c)
<1>1. "DelNamespace" \in DeleteMenu  BY DEF DeleteMenu, Policied, Sql
<1>3. \A c \in S : Fits(Must("DelNamespace", c), i)  BY <1>1, FitsCalls
<1>4. PICK A : A = Each(S, "DelNamespace")  OBVIOUS
<1>5. Made(A, {"DelNamespace"}, i) /\ \A c \in S : LeftOn(A, "DelNamespace", c)
  <2>1. ~Wrong("DelNamespace", "DelNamespace")  BY DEF Wrong
  <2> QED  BY <1>3, <1>4, <2>1, MadeEach DEF Names
<1>6. Proper(A, i)  BY <1>5 DEF Made, Proper
<1> QED  BY <1>4, <1>5, <1>6

\* The kinds, one by one.
LEMMA KindCases ==
  ASSUME MwTypes
  PROVE  kind \in {"mongodb", "kvrocks", "nats", "minio", "rabbitmq", "elasticsearch",
                   "mariadb", "mysql"}
BY KindsAssumption DEF MwTypes

\* Every program starts with all that it owes still to come.
Starts(p, i) ==
  /\ Proper(p, i)
  /\ i.act # "DELETE" => Making(p, i, srv)
  /\ i.act = "DELETE" => \A b : Removing(p, i, srv, b)
  /\ kind = "nats" => Left(p, "Load") /\ Left(p, "Truncate") /\ Left(p, "Write")

\* Program(i) is proper and owes all of the creation, or of the deletion, of i.
LEMMA ProgramStarts ==
  ASSUME MwTypes, NEW i \in Requests
  PROVE  Starts(Program(i), i)
<1>0. i.want \in SUBSET Containers /\ i.want # {}  BY RequestParts
<1>1. CASE kind = "mongodb"
  <2>1. CASE i.act = "DELETE"
    <3>1. PICK p : p = DropUserAndDatabase(i)  OBVIOUS
    <3>2. Program(i) = p  BY <1>1, <2>1, <3>1 DEF Program, Deletion
    <3>3. CASE \E c \in Containers : srv.acct[c] # NoAcct
      <4>1. p = Each(i.want, "DelAccount") \o Each(i.want, "Drop")
        BY <3>1, <3>3 DEF DropUserAndDatabase
      <4>2. /\ Proper(p, i)
            /\ \A c \in i.want : LeftOn(p, "DelAccount", c) /\ LeftOn(p, "Drop", c)
        BY <1>1, <2>1, <4>1, MongoDeletion
      <4> QED  BY <1>1, <2>1, <3>2, <4>2 DEF Starts, Removing, Accounted, Policied, Sql
    <3>4. CASE ~\E c \in Containers : srv.acct[c] # NoAcct
      <4>1. p = <<>> \o Each(i.want, "Drop")
        BY <3>1, <3>4 DEF DropUserAndDatabase
      <4>2. Proper(p, i) /\ \A c \in i.want : LeftOn(p, "Drop", c)
        BY <1>1, <2>1, <4>1, MongoDeletionRest
      <4>3. \A c \in i.want : srv.acct[c] = NoAcct  BY <1>0, <3>4
      <4> QED  BY <1>1, <2>1, <3>2, <4>2, <4>3 DEF Starts, Removing, Accounted, Policied, Sql
    <3> QED  BY <3>3, <3>4
  <2>2. CASE i.act # "DELETE"
    <3>1. PICK p : p = EachPair(i.want, "PutAccount", "Script")  OBVIOUS
    <3>2. Program(i) = p
      BY <1>1, <2>2, <3>1 DEF Program, Creation, CreateOrUpdateUserWithDatabase
    <3>3. Proper(p, i) /\ \A c \in i.want : LeftOn(p, "PutAccount", c)
      BY <1>1, <2>2, <3>1, MongoCreation
    <3> QED  BY <1>1, <2>2, <3>2, <3>3 DEF Starts, Making, Accounted, Policied, Sql
  <2> QED  BY <2>1, <2>2
<1>2. CASE kind = "kvrocks"
  <2>1. CASE i.act = "DELETE"
    <3>1. PICK S : S = {c \in i.want : srv.acct[c] # NoAcct}  OBVIOUS
    <3>2. PICK p : p = Each(S, "DelNamespace")  OBVIOUS
    <3>3. Program(i) = p
      BY <1>2, <2>1, <3>1, <3>2 DEF Program, Deletion, deleteKVRocksRequest
    <3>4. S \in SUBSET Containers /\ \A c \in i.want : c \in S \/ srv.acct[c] = NoAcct
      BY <1>0, <3>1
    <3>5. Proper(p, i) /\ \A c \in S : LeftOn(p, "DelNamespace", c)
      BY <1>2, <2>1, <3>2, <3>4, NamespaceDeleted
    <3> QED  BY <1>2, <2>1, <3>3, <3>4, <3>5 DEF Starts, Removing, Accounted, Policied, Sql
  <2>2. CASE i.act # "DELETE"
    <3>1. PICK p : p = createOrUpdateKVRocksRequest(i)  OBVIOUS
    <3>2. Program(i) = p  BY <1>2, <2>2, <3>1 DEF Program, Creation
    <3>3. Proper(p, i) /\ (Left(p, "SetNamespace") \/ Left(p, "AddNamespace"))
      <4>1. CASE \E c \in i.want : srv.acct[c] # NoAcct
        <5>1. p = Each(i.want, "SetNamespace")
          BY <3>1, <4>1 DEF createOrUpdateKVRocksRequest
        <5> QED  BY <1>2, <2>2, <5>1, NamespaceSet
      <4>2. CASE ~\E c \in i.want : srv.acct[c] # NoAcct
        <5>1. PICK S : S = {c \in Containers : srv.acct[c].pwd = i.pwd}  OBVIOUS
        <5>2. S \in SUBSET Containers  BY <5>1
        <5>3. PICK u : u = IF i.act = "UPDATE" THEN EachWarn(S, "DelNamespace") ELSE <<>>
          OBVIOUS
        <5>4. p = u \o Each(i.want, "AddNamespace")
          BY <3>1, <4>2, <5>1, <5>3 DEF createOrUpdateKVRocksRequest
        <5>5. u = <<>> \/ u = EachWarn(S, "DelNamespace")  BY <5>3
        <5> QED  BY <1>2, <2>2, <5>2, <5>4, <5>5, NamespaceAdded
      <4> QED  BY <4>1, <4>2
    <3> QED  BY <1>2, <2>2, <3>2, <3>3 DEF Starts, Making, Accounted, Policied, Sql
  <2> QED  BY <2>1, <2>2
<1>3. CASE kind = "nats"
  <2>1. PICK p : p = <<Must("Load", NoneOf), Must("Truncate", NoneOf), Must("Write", NoneOf),
                       Must("Stream", NoneOf)>>
    OBVIOUS
  <2>2. Program(i) = p
    BY <1>3, <2>1 DEF Program, Creation, Deletion, createOrUpdateNatsUser, deleteNatsUserAndStream
  <2>3. Proper(p, i) /\ Left(p, "Load") /\ Left(p, "Truncate") /\ Left(p, "Write")
    BY <1>3, <2>1, NatsCreation, NatsDeletion
  <2> QED  BY <1>3, <2>2, <2>3 DEF Starts, Making, Removing, Accounted, Policied, Sql
<1>4. CASE kind = "rabbitmq"
  <2>1. CASE i.act = "DELETE"
    <3>1. PICK p : p = EachPair(i.want, "Revoke", "Drop") \o <<Must("DelUser", NoneOf)>>
      OBVIOUS
    <3>2. Program(i) = p  BY <1>4, <2>1, <3>1 DEF Program, Deletion, deleteRabbitMQRequest
    <3>3. Proper(p, i) /\ Left(p, "DelUser") /\ \A c \in i.want : LeftOn(p, "Drop", c)
      BY <1>4, <2>1, <3>1, RabbitDeletion
    <3> QED  BY <1>4, <2>1, <3>2, <3>3 DEF Starts, Removing, Accounted, Policied, Sql
  <2>2. CASE i.act # "DELETE"
    <3>1. PICK p : p = <<Must("PutUser", NoneOf)>> \o EachPair(i.want, "Make", "Grant")
      OBVIOUS
    <3>2. Program(i) = p
      BY <1>4, <2>2, <3>1 DEF Program, Creation, createOrUpdateRabbitMQRequest
    <3>3. /\ Proper(p, i) /\ Left(p, "PutUser")
          /\ \A c \in i.want : LeftOn(p, "Make", c) /\ LeftOn(p, "Grant", c)
      BY <1>4, <2>2, <3>1, RabbitCreation
    <3> QED  BY <1>4, <2>2, <3>2, <3>3 DEF Starts, Making, Accounted, Policied, Sql
  <2> QED  BY <2>1, <2>2
<1>5. CASE kind \in Sql
  <2>0. kind = "mariadb" \/ kind = "mysql"  BY <1>5 DEF Sql
  <2>1. CASE i.act = "DELETE"
    <3>1. PICK p : p = <<Must("DelUser", NoneOf)>> \o Each(i.want, "Drop")
      OBVIOUS
    <3>2. Program(i) = p
      BY <2>0, <2>1, <3>1 DEF Program, Deletion, deleteMariaDBRequest, deleteMysqlRequest
    <3>3. Proper(p, i) /\ Left(p, "DelUser") /\ \A c \in i.want : LeftOn(p, "Drop", c)
      BY <1>5, <2>1, <3>1, SqlDeletion
    <3> QED  BY <2>0, <2>1, <3>2, <3>3 DEF Starts, Removing, Accounted, Policied, Sql
  <2>2. CASE i.act # "DELETE"
    <3>1. PICK p : p = <<Must("NewUser", NoneOf)>> \o EachPair(i.want, "Make", "Grant")
                         \o <<Must("Flush", NoneOf)>>
      OBVIOUS
    <3>2. Program(i) = p
      BY <2>0, <2>2, <3>1
      DEF Program, Creation, createOrUpdateMariaDBRequest, createOrUpdateMysqlRequest
    <3>3. /\ Proper(p, i) /\ Left(p, "NewUser")
          /\ \A c \in i.want : LeftOn(p, "Make", c) /\ LeftOn(p, "Grant", c)
      BY <1>5, <2>2, <3>1, SqlCreation
    <3> QED  BY <2>0, <2>2, <3>2, <3>3 DEF Starts, Making, Accounted, Policied, Sql
  <2> QED  BY <2>1, <2>2
<1>6. CASE kind = "minio"
  <2>1. CASE i.act = "DELETE"
    <3>1. PICK p : p = EachWarn(i.want, "Drop") \o Only(i.all, <<Warn("DropListed", NoneOf)>>)
                         \o <<Must("DelUser", NoneOf), Warn("DelPolicy", NoneOf)>>
      OBVIOUS
    <3>2. Program(i) = p  BY <1>6, <2>1, <3>1 DEF Program, Deletion, deleteMinioRequest
    <3>3. Proper(p, i) /\ Left(p, "DelUser")
      BY <1>6, <2>1, <3>1, MinioDeletion
    <3> QED  BY <1>6, <2>1, <3>2, <3>3 DEF Starts, Removing, Accounted, Policied, Sql
  <2>2. CASE i.act # "DELETE"
    <3>1. PICK p : p = <<Must("PutUser", NoneOf)>> \o Each(i.want, "Make")
                         \o <<Must("PutPolicy", NoneOf), Must("Attach", NoneOf)>>
      OBVIOUS
    <3>2. Program(i) = p
      BY <1>6, <2>2, <3>1 DEF Program, Creation, createOrUpdateMinioRequest
    <3>3. kind \in Policied /\ "PutUser" \in CreateMenu  BY <1>6 DEF Policied, CreateMenu, Sql
    <3>4. /\ Proper(p, i) /\ Left(p, "PutUser") /\ Left(p, "PutPolicy") /\ Left(p, "Attach")
          /\ \A c \in i.want : LeftOn(p, "Make", c)
      BY <3>3, <2>2, <3>1, MadePolicied
    <3> QED  BY <1>6, <2>2, <3>2, <3>4 DEF Starts, Making, Accounted, Policied, Sql
  <2> QED  BY <2>1, <2>2
<1>7. CASE kind = "elasticsearch"
  <2>1. CASE i.act = "DELETE"
    <3>1. PICK p : p = <<Must("DelUser", NoneOf), Must("DelPolicy", NoneOf)>>
                         \o Each(i.want, "Drop")
                         \o Only(i.all, <<Warn("DropListed", NoneOf)>>)
      OBVIOUS
    <3>2. Program(i) = p  BY <1>7, <2>1, <3>1 DEF Program, Deletion, deleteElasticsearchRequest
    <3>3. /\ Proper(p, i) /\ Left(p, "DelUser") /\ (i.all => Left(p, "DropListed"))
          /\ \A c \in i.want : LeftOn(p, "Drop", c)
      BY <1>7, <2>1, <3>1, ElasticDeletion
    <3> QED  BY <1>7, <2>1, <3>2, <3>3 DEF Starts, Removing, Accounted, Policied, Sql
  <2>2. CASE i.act # "DELETE"
    <3>1. PICK p : p = <<Must("PutUserNoRole", NoneOf)>> \o Each(i.want, "Make")
                         \o <<Must("PutPolicy", NoneOf), Must("Attach", NoneOf)>>
      OBVIOUS
    <3>2. Program(i) = p
      BY <1>7, <2>2, <3>1 DEF Program, Creation, createOrUpdateElasticsearchRequest
    <3>3. kind \in Policied /\ "PutUserNoRole" \in CreateMenu
      BY <1>7 DEF Policied, CreateMenu, Sql
    <3>4. /\ Proper(p, i) /\ Left(p, "PutUserNoRole") /\ Left(p, "PutPolicy")
          /\ Left(p, "Attach") /\ \A c \in i.want : LeftOn(p, "Make", c)
      BY <3>3, <2>2, <3>1, MadePolicied
    <3> QED  BY <1>7, <2>2, <3>2, <3>4 DEF Starts, Making, Accounted, Policied, Sql
  <2> QED  BY <2>1, <2>2
<1> QED  BY <1>1, <1>2, <1>3, <1>4, <1>5, <1>6, <1>7, KindCases DEF Sql

-----------------------------------------------------------------------------
(* What a call does, field by field.                                       *)

UserAfter(k, i, s) ==
  IF k.do \in {"PutUser", "PutUserNoRole"} \/ (k.do = "NewUser" /\ s.user = 0) THEN i.pwd
  ELSE IF k.do = "DelUser" THEN 0 ELSE s.user
PolAfter(k, i, s) ==
  CASE k.do = "PutPolicy" -> Granted(i)
    [] k.do = "DelPolicy" -> {}
    [] k.do = "Grant"     -> s.pol \cup {k.on}
    [] k.do = "Revoke"    -> s.pol \ {k.on}
    [] k.do = "DelUser"   -> IF kind \in Policied THEN s.pol ELSE {}
    [] OTHER              -> s.pol
ContAfter(k, s) ==
  CASE k.do \in {"Make", "PutAccount"} -> s.cont \cup {k.on}
    [] k.do = "Drop"                   -> s.cont \ {k.on}
    [] k.do = "DropListed"             -> s.cont \ Prefixed
    [] OTHER                           -> s.cont
AcctAfter(k, i, s) ==
  CASE k.do = "PutAccount"                        -> [pwd |-> i.pwd, roles |-> i.want]
    [] k.do \in {"DelAccount", "DelNamespace"}    -> NoAcct
    [] k.do \in {"SetNamespace", "AddNamespace"}  -> [pwd |-> i.pwd, roles |-> {}]

Accounts == {"PutAccount", "DelAccount", "DelNamespace", "SetNamespace", "AddNamespace"}

\* The fields of a server.
LEMMA ServerType ==
  ASSUME NEW s
  PROVE  s \in Servers =>
         /\ s.user \in Pwds \cup {0} /\ s.att \in BOOLEAN /\ s.pol \in SUBSET AnyNames
         /\ s.cont \in SUBSET AnyNames /\ s.acct \in [Containers -> Accts]
BY DEF Servers

\* The fields of a call.
LEMMA CallTypes ==
  ASSUME NEW k \in Calls
  PROVE  k.do \in Names /\ k.on \in Containers /\ k.must \in BOOLEAN
BY DEF Calls, Names

\* What a call writes to an account is an account.
LEMMA AcctTypes ==
  ASSUME NEW i \in Requests, NEW k \in Calls, NEW s
  PROVE  /\ NoAcct \in Accts /\ NoAcct.pwd = 0
         /\ k.do \in Accounts => AcctAfter(k, i, s) \in Accts
<1>1. i.want \in SUBSET Containers /\ i.pwd \in Pwds  BY RequestParts
<1>2. NoAcct \in Accts /\ NoAcct.pwd = 0  BY DEF NoAcct, Accts
<1>3. [pwd |-> i.pwd, roles |-> i.want] \in Accts  BY <1>1 DEF Accts
<1>4. [pwd |-> i.pwd, roles |-> {}] \in Accts  BY <1>1 DEF Accts
<1> QED  BY <1>2, <1>3, <1>4 DEF Accounts, AcctAfter

\* After(k, i, s), field by field.
LEMMA AfterParts ==
  ASSUME NEW k \in Calls, NEW i \in Requests, NEW s \in Servers, NEW z, z = After(k, i, s)
  PROVE  /\ z \in Servers
         /\ z.user = UserAfter(k, i, s)
         /\ z.att <=> (k.do = "Attach" \/ (s.att /\ k.do \notin {"PutUserNoRole", "DelUser"}))
         /\ z.pol = PolAfter(k, i, s)
         /\ z.cont = ContAfter(k, s)
         /\ z.acct = IF k.do \in Accounts THEN [s.acct EXCEPT ![k.on] = AcctAfter(k, i, s)]
                     ELSE s.acct
<1>1. i.want \in SUBSET Containers /\ i.pwd \in Pwds  BY RequestParts
<1>2. k.do \in Names /\ k.on \in Containers /\ k.on \in AnyNames  BY CallTypes DEF AnyNames
<1>3. CASE k.do \in {"PutUser", "PutUserNoRole", "NewUser", "Attach", "DelUser"}
  <2>1. z = AccountAfter(k, i, s)  BY <1>3 DEF After
  <2>2. CASE k.do = "PutUser"
    <3>1. z = [s EXCEPT !.user = i.pwd]  BY <2>1, <2>2 DEF AccountAfter
    <3> QED  BY <1>1, <2>2, <3>1 DEF Servers, UserAfter, PolAfter, ContAfter, Accounts
  <2>3. CASE k.do = "PutUserNoRole"
    <3>1. z = [s EXCEPT !.user = i.pwd, !.att = FALSE]  BY <2>1, <2>3 DEF AccountAfter
    <3> QED  BY <1>1, <2>3, <3>1 DEF Servers, UserAfter, PolAfter, ContAfter, Accounts
  <2>4. CASE k.do = "NewUser"
    <3>1. z = IF s.user = 0 THEN [s EXCEPT !.user = i.pwd] ELSE s  BY <2>1, <2>4 DEF AccountAfter
    <3> QED  BY <1>1, <2>4, <3>1 DEF Servers, UserAfter, PolAfter, ContAfter, Accounts
  <2>5. CASE k.do = "Attach"
    <3>1. z = [s EXCEPT !.att = TRUE]  BY <2>1, <2>5 DEF AccountAfter
    <3> QED  BY <1>1, <2>5, <3>1 DEF Servers, UserAfter, PolAfter, ContAfter, Accounts
  <2>6. CASE k.do = "DelUser"
    <3>1. z = [s EXCEPT !.user = 0, !.att = FALSE, !.pol = IF kind \in Policied THEN @ ELSE {}]
      BY <2>1, <2>6 DEF AccountAfter
    <3> QED  BY <1>1, <2>6, <3>1 DEF Servers, UserAfter, PolAfter, ContAfter, Accounts
  <2> QED  BY <1>3, <2>2, <2>3, <2>4, <2>5, <2>6
<1>4. CASE k.do \in {"PutPolicy", "DelPolicy"}
  <2>1. z = [s EXCEPT !.pol = IF k.do = "PutPolicy" THEN Granted(i) ELSE {}]
    BY <1>4 DEF After, PolicyAfter
  <2>2. Granted(i) \in SUBSET AnyNames  BY <1>1 DEF Granted, Prefixed, AnyNames
  <2> QED  BY <2>2, <1>4, <2>1 DEF Servers, UserAfter, PolAfter, ContAfter, Accounts
<1>5. CASE k.do \in {"Grant", "Revoke"}
  <2>1. z = [s EXCEPT !.pol = IF k.do = "Grant" THEN @ \cup {k.on} ELSE @ \ {k.on}]
    BY <1>5 DEF After, PermissionsAfter
  <2> QED  BY <1>2, <1>5, <2>1 DEF Servers, UserAfter, PolAfter, ContAfter, Accounts
<1>6. CASE k.do \in {"Make", "Drop", "DropListed"}
  <2>1. z = ContainersAfter(k, i, s)  BY <1>6 DEF After
  <2>2. CASE k.do = "Make"
    <3>1. z = [s EXCEPT !.cont = @ \cup {k.on}]  BY <2>1, <2>2 DEF ContainersAfter
    <3> QED  BY <1>2, <2>2, <3>1 DEF Servers, UserAfter, PolAfter, ContAfter, Accounts
  <2>3. CASE k.do = "Drop"
    <3>1. z = [s EXCEPT !.cont = @ \ {k.on}]  BY <2>1, <2>3 DEF ContainersAfter
    <3> QED  BY <1>2, <2>3, <3>1 DEF Servers, UserAfter, PolAfter, ContAfter, Accounts
  <2>4. CASE k.do = "DropListed"
    <3>1. z = [s EXCEPT !.cont = @ \ Prefixed]  BY <2>1, <2>4 DEF ContainersAfter
    <3> QED  BY <1>2, <2>4, <3>1 DEF Servers, UserAfter, PolAfter, ContAfter, Accounts
  <2> QED  BY <1>6, <2>2, <2>3, <2>4
<1>7. CASE k.do \in Accounts
  <2>1. PICK x : x = AcctAfter(k, i, s)  OBVIOUS
  <2>2. x \in Accts  BY <1>7, <2>1, AcctTypes
  <2>3. PICK a : a = [s.acct EXCEPT ![k.on] = x]  OBVIOUS
  <2>4. a \in [Containers -> Accts]  BY <2>2, <2>3, ServerType
  <2>5. z = [s EXCEPT !.acct = a, !.cont = ContAfter(k, s)]
    <3>1. CASE k.do = "PutAccount"
      <4>1. z = [s EXCEPT !.acct[k.on] = x, !.cont = @ \cup {k.on}]
        BY <2>1, <3>1 DEF After, MongoAfter, AcctAfter
      <4> QED  BY <2>3, <3>1, <4>1 DEF Servers, ContAfter
    <3>2. CASE k.do = "DelAccount"
      <4>1. z = [s EXCEPT !.acct[k.on] = x]
        BY <2>1, <3>2 DEF After, MongoAfter, AcctAfter
      <4> QED  BY <2>3, <3>2, <4>1 DEF Servers, ContAfter
    <3>3. CASE k.do \in {"SetNamespace", "AddNamespace", "DelNamespace"}
      <4>1. z = [s EXCEPT !.acct[k.on] = x]
        BY <2>1, <3>3 DEF After, NamespaceAfter, AcctAfter
      <4> QED  BY <2>3, <3>3, <4>1 DEF Servers, ContAfter
    <3> QED  BY <1>7, <3>1, <3>2, <3>3 DEF Accounts
  <2>6. ContAfter(k, s) \in SUBSET AnyNames  BY <1>2, ServerType DEF ContAfter
  <2>7. /\ z \in Servers /\ z.acct = a /\ z.cont = ContAfter(k, s)
        /\ z.user = s.user /\ (z.att <=> s.att) /\ z.pol = s.pol
    BY <2>4, <2>5, <2>6 DEF Servers
  <2> QED  BY <1>7, <2>1, <2>3, <2>7 DEF Accounts, UserAfter, PolAfter
<1>8. CASE k.do \in {"Load", "Truncate", "Write", "Stream", "Script", "Flush"}
  <2>1. z = s  BY <1>8 DEF After
  <2> QED  BY <1>8, <2>1 DEF UserAfter, PolAfter, ContAfter, Accounts
<1> QED  BY <1>2, <1>3, <1>4, <1>5, <1>6, <1>7, <1>8 DEF Names, Accounts

-----------------------------------------------------------------------------
(* A call, and what is owed after it.                                      *)

\* The calls of a creation, kind by kind.
LEMMA CreateMenus ==
  ASSUME NEW k, NEW i, Fits(k, i), i.act # "DELETE"
  PROVE  /\ kind = "mongodb" => k.do \in {"PutAccount", "Script"}
         /\ kind = "kvrocks" => k.do \in {"SetNamespace", "AddNamespace", "DelNamespace"}
         /\ kind = "nats" => k.do \in {"Load", "Truncate", "Write", "Stream"}
         /\ kind \in Policied =>
              k.do \in {"PutUser", "PutUserNoRole", "Make", "PutPolicy", "Attach"}
         /\ kind = "rabbitmq" => k.do \in {"PutUser", "Make", "Grant"}
         /\ kind \in Sql => k.do \in {"NewUser", "Make", "Grant", "Flush"}
BY DEF Fits, CreateMenu, Policied, Sql

\* The calls of a deletion, kind by kind.
LEMMA DeleteMenus ==
  ASSUME NEW k, NEW i, Fits(k, i), i.act = "DELETE"
  PROVE  /\ kind = "mongodb" => k.do \in {"DelAccount", "Drop"}
         /\ kind = "kvrocks" => k.do = "DelNamespace"
         /\ kind = "nats" => k.do \in {"Load", "Truncate", "Write", "Stream"}
         /\ kind \in Policied => k.do \in {"DelUser", "DelPolicy", "Drop", "DropListed"}
         /\ kind = "rabbitmq" => k.do \in {"Revoke", "Drop", "DelUser"}
         /\ kind \in Sql => k.do \in {"DelUser", "Drop"}
BY DEF Fits, DeleteMenu, Policied, Sql

\* No call gives a server what its kind cannot have.
LEMMA KindStep ==
  ASSUME MwTypes, NEW k \in Calls, NEW i \in Requests, NEW s \in Servers, Fits(k, i),
         KindOnly(s), NEW z, z = After(k, i, s)
  PROVE  KindOnly(z) /\ z \in Servers
<1>1. /\ z \in Servers
      /\ z.user = UserAfter(k, i, s) /\ z.cont = ContAfter(k, s) /\ z.pol = PolAfter(k, i, s)
      /\ k.do \notin Accounts => z.acct = s.acct
  <2>1. /\ z \in Servers
        /\ z.user = UserAfter(k, i, s)
        /\ z.pol = PolAfter(k, i, s)
        /\ z.cont = ContAfter(k, s)
        /\ z.acct = IF k.do \in Accounts THEN [s.acct EXCEPT ![k.on] = AcctAfter(k, i, s)]
                    ELSE s.acct
    BY AfterParts
  <2> QED  BY <2>1
<1>2. kind \notin {"mongodb", "kvrocks"} => k.do \notin Accounts
  BY KindCases, CreateMenus, DeleteMenus DEF Accounts, Policied, Sql
<1>3. kind \in {"mongodb", "kvrocks", "nats"} => z.user = s.user
  BY <1>1, CreateMenus, DeleteMenus DEF UserAfter
<1>4. kind \in {"kvrocks", "nats"} => z.cont = s.cont
  BY <1>1, CreateMenus, DeleteMenus DEF ContAfter
<1>5. ASSUME kind # "elasticsearch"  PROVE z.pol \cup z.cont \subseteq Containers
  <2>1. s.pol \subseteq Containers /\ s.cont \subseteq Containers  BY <1>5 DEF KindOnly
  <2>2. k.on \in Containers /\ i.want \subseteq Containers  BY CallTypes, RequestParts
  <2>3. z.cont \subseteq Containers  BY <1>1, <2>1, <2>2 DEF ContAfter
  <2>4. k.do = "PutPolicy" => kind = "minio"
    BY <1>5, KindCases, CreateMenus, DeleteMenus DEF Policied, Sql
  <2>5. kind = "minio" => Granted(i) \subseteq Containers  BY <2>2 DEF Granted, Prefixed
  <2>6. z.pol \subseteq Containers  BY <1>1, <2>1, <2>2, <2>4, <2>5 DEF PolAfter
  <2> QED  BY <2>3, <2>6
<1> QED  BY <1>1, <1>2, <1>3, <1>4, <1>5 DEF KindOnly

\* A call that is carried out.
LEMMA MakingStep ==
  ASSUME MwTypes, NEW r \in Seq(Calls), r # <<>>, NEW i \in Requests, i.act # "DELETE",
         NEW s \in Servers, Fit(r, i), Ordered(r), Making(r, i, s),
         NEW z, z = After(Head(r), i, s),
         kind = "kvrocks" => Cardinality(i.want) = 1,
         Head(r).do \in {"SetNamespace", "AddNamespace"} =>
           \A c \in Containers \ {Head(r).on} : s.acct[c].pwd # i.pwd
  PROVE  Making(Tail(r), i, z)
<1>1. PICK k : k = Head(r)  OBVIOUS
<1>2. PICK t : t = Tail(r)  OBVIOUS
<1>3. /\ k \in Calls /\ t \in Seq(Calls) /\ Fits(k, i)
      /\ \A e : Left(t, e) => ~Wrong(k.do, e)
      /\ \A d : Left(r, d) <=> k.do = d \/ Left(t, d)
      /\ \A d, c : LeftOn(r, d, c) <=> (k.do = d /\ k.on = c) \/ LeftOn(t, d, c)
  BY <1>1, <1>2, HeadAndTail
<1>4. /\ z \in Servers
      /\ z.user = UserAfter(k, i, s)
      /\ z.att <=> (k.do = "Attach" \/ (s.att /\ k.do \notin {"PutUserNoRole", "DelUser"}))
      /\ z.pol = PolAfter(k, i, s)
      /\ z.cont = ContAfter(k, s)
      /\ z.acct = IF k.do \in Accounts THEN [s.acct EXCEPT ![k.on] = AcctAfter(k, i, s)]
                  ELSE s.acct
  BY <1>1, <1>3, AfterParts
<1>5. i.want \subseteq Containers /\ i.want # {} /\ i.pwd \in Pwds /\ i.pwd \in Nat /\ i.pwd # 0
  BY RequestParts
<1>6. k.on \in Containers  BY <1>3, CallTypes
<1>7. ASSUME kind \in Policied \cup {"rabbitmq"}
      PROVE  Left(t, "PutUser") \/ Left(t, "PutUserNoRole") \/ z.user = i.pwd
  <2>1. Left(r, "PutUser") \/ Left(r, "PutUserNoRole") \/ s.user = i.pwd  BY <1>7 DEF Making
  <2>2. k.do \in {"PutUser", "PutUserNoRole", "Make", "PutPolicy", "Attach", "Grant"}
    BY <1>3, <1>7, CreateMenus
  <2> QED  BY <1>3, <1>4, <2>1, <2>2 DEF UserAfter
<1>8. ASSUME kind \in Sql  PROVE Left(t, "NewUser") \/ z.user # 0
  <2>1. Left(r, "NewUser") \/ s.user # 0  BY <1>8 DEF Making
  <2>2. k.do \in {"NewUser", "Make", "Grant", "Flush"}  BY <1>3, <1>8, CreateMenus
  <2> QED  BY <1>3, <1>4, <1>5, <2>1, <2>2 DEF UserAfter
<1>9. ASSUME kind \in Accounted, NEW c \in i.want
      PROVE  LeftOn(t, "Make", c) \/ c \in z.cont
  <2>1. LeftOn(r, "Make", c) \/ c \in s.cont  BY <1>9 DEF Making
  <2>2. k.do \notin {"Drop", "DropListed"}
    BY <1>3, <1>9, CreateMenus DEF Accounted, Policied, Sql
  <2> QED  BY <1>3, <1>4, <2>1, <2>2 DEF ContAfter
<1>10. ASSUME kind \in Sql \cup {"rabbitmq"}, NEW c \in i.want
       PROVE  LeftOn(t, "Grant", c) \/ c \in z.pol
  <2>1. LeftOn(r, "Grant", c) \/ c \in s.pol  BY <1>10 DEF Making
  <2>2. k.do \in {"PutUser", "NewUser", "Make", "Grant", "Flush"}
    BY <1>3, <1>10, CreateMenus
  <2> QED  BY <1>3, <1>4, <2>1, <2>2 DEF PolAfter
<1>11. ASSUME kind \in Policied  PROVE Left(t, "PutPolicy") \/ z.pol = Granted(i)
  <2>1. Left(r, "PutPolicy") \/ s.pol = Granted(i)  BY <1>11 DEF Making
  <2>2. k.do \in {"PutUser", "PutUserNoRole", "Make", "PutPolicy", "Attach"}
    BY <1>3, <1>11, CreateMenus
  <2> QED  BY <1>3, <1>4, <2>1, <2>2 DEF PolAfter
<1>12. ASSUME kind \in Policied
       PROVE  Left(t, "Attach") \/ (z.att /\ ~Left(t, "PutUserNoRole"))
  <2>1. Left(r, "Attach") \/ (s.att /\ ~Left(r, "PutUserNoRole"))  BY <1>12 DEF Making
  <2>2. k.do \in {"PutUser", "PutUserNoRole", "Make", "PutPolicy", "Attach"}
    BY <1>3, <1>12, CreateMenus
  <2>3. k.do = "Attach" => ~Left(t, "PutUserNoRole")
    <3>1. Wrong("Attach", "PutUserNoRole")  BY DEF Wrong
    <3> QED  BY <1>3, <3>1
  <2> QED  BY <1>3, <1>4, <2>1, <2>2, <2>3
<1>13. ASSUME kind = "mongodb", NEW c \in i.want
       PROVE  LeftOn(t, "PutAccount", c) \/ z.acct[c] = [pwd |-> i.pwd, roles |-> i.want]
  <2>1. LeftOn(r, "PutAccount", c) \/ s.acct[c] = [pwd |-> i.pwd, roles |-> i.want]
    BY <1>13 DEF Making
  <2>2. k.do \in {"PutAccount", "Script"}  BY <1>3, <1>13, CreateMenus
  <2>3. s.acct \in [Containers -> Accts] /\ c \in Containers  BY <1>5, ServerType
  <2>4. CASE k.do = "PutAccount"
    <3>1. PICK x : x = [pwd |-> i.pwd, roles |-> i.want]  OBVIOUS
    <3>2. z.acct = [s.acct EXCEPT ![k.on] = x]  BY <1>4, <2>4, <3>1 DEF Accounts, AcctAfter
    <3>3. z.acct[c] = IF c = k.on THEN x ELSE s.acct[c]  BY <1>6, <2>3, <3>2
    <3> QED  BY <1>3, <2>1, <3>1, <3>3
  <2>5. CASE k.do = "Script"  BY <1>3, <1>4, <2>1, <2>5 DEF Accounts
  <2> QED  BY <2>2, <2>4, <2>5
<1>14. ASSUME kind = "kvrocks"
       PROVE  \/ Left(t, "SetNamespace") \/ Left(t, "AddNamespace")
              \/ /\ {c \in Containers : z.acct[c].pwd = i.pwd} = i.want
                 /\ ~Left(t, "DelNamespace")
  <2>1. \/ Left(r, "SetNamespace") \/ Left(r, "AddNamespace")
        \/ /\ {c \in Containers : s.acct[c].pwd = i.pwd} = i.want
           /\ ~Left(r, "DelNamespace")
    BY <1>14 DEF Making
  <2>2. k.do \in {"SetNamespace", "AddNamespace", "DelNamespace"}  BY <1>3, <1>14, CreateMenus
  <2>3. CASE k.do = "DelNamespace"  BY <1>3, <2>1, <2>3
  <2>4. CASE k.do \in {"SetNamespace", "AddNamespace"}
    <3>1. Wrong(k.do, "DelNamespace")  BY <2>4 DEF Wrong
    <3>2. ~Left(t, "DelNamespace")  BY <1>3, <3>1
    <3>3. k.on \in i.want  BY <1>3, <2>4 DEF Fits
    <3>4. i.want = {k.on}
      <4>1. IsFiniteSet(i.want)  BY <1>5, ContainersAssumption, FS_Subset
      <4>2. PICK x : i.want = {x}  BY <1>14, <4>1, FS_Singleton
      <4> QED  BY <3>3, <4>2
    <3>5. PICK x : x = [pwd |-> i.pwd, roles |-> {}]  OBVIOUS
    <3>6. x.pwd = i.pwd  BY <3>5
    <3>7. z.acct = [s.acct EXCEPT ![k.on] = x]  BY <1>4, <2>4, <3>5 DEF Accounts, AcctAfter
    <3>8. s.acct \in [Containers -> Accts]  BY ServerType
    <3>9. \A c \in Containers : z.acct[c] = IF c = k.on THEN x ELSE s.acct[c]
      BY <1>6, <3>7, <3>8
    <3>10. \A c \in Containers : z.acct[c].pwd = i.pwd <=> c = k.on
      BY <1>1, <2>4, <3>6, <3>9
    <3>11. {c \in Containers : z.acct[c].pwd = i.pwd} = i.want  BY <1>6, <3>4, <3>10
    <3> QED  BY <3>2, <3>11
  <2> QED  BY <2>2, <2>3, <2>4
<1> QED
  BY <1>2, <1>7, <1>8, <1>9, <1>10, <1>11, <1>12, <1>13, <1>14 DEF Making

\* A creation goes on after an error that is only logged, or of a bucket that exists.
LEMMA MakingSkip ==
  ASSUME MwTypes, NEW r \in Seq(Calls), r # <<>>, NEW i \in Requests, i.act # "DELETE",
         NEW s \in Servers, Fit(r, i), Making(r, i, s),
         \/ Head(r).do = "DelNamespace"
         \/ kind = "minio" /\ Head(r).do = "Make" /\ Head(r).on \in s.cont
  PROVE  Making(Tail(r), i, s)
<1>1. PICK k : k = Head(r)  OBVIOUS
<1>2. PICK t : t = Tail(r)  OBVIOUS
<1>3. /\ k \in Calls /\ t \in Seq(Calls) /\ Fits(k, i)
      /\ \A d : Left(r, d) <=> k.do = d \/ Left(t, d)
      /\ \A d, c : LeftOn(r, d, c) <=> (k.do = d /\ k.on = c) \/ LeftOn(t, d, c)
  BY <1>1, <1>2, HeadAndTail
<1>4. CASE k.do = "DelNamespace"
  <2>1. kind = "kvrocks"
    BY <1>3, <1>4, KindCases, CreateMenus DEF Policied, Sql
  <2> QED  BY <1>2, <1>3, <1>4, <2>1 DEF Making, Accounted, Policied, Sql
<1>5. CASE kind = "minio" /\ k.do = "Make" /\ k.on \in s.cont
  <2>1. /\ Left(t, "PutUser") \/ Left(t, "PutUserNoRole") \/ s.user = i.pwd
        /\ \A c \in i.want : LeftOn(t, "Make", c) \/ c \in s.cont
        /\ Left(t, "PutPolicy") \/ s.pol = Granted(i)
        /\ Left(t, "Attach") \/ (s.att /\ ~Left(t, "PutUserNoRole"))
    BY <1>3, <1>5 DEF Making, Accounted, Policied, Sql
  <2> QED  BY <1>2, <1>5, <2>1 DEF Making, Accounted, Policied, Sql
<1> QED  BY <1>1, <1>4, <1>5

\* A deletion: a call that is carried out (b2: no error so far), or one whose
\* error is only logged.
LEMMA RemovingStep ==
  ASSUME MwTypes, NEW r \in Seq(Calls), r # <<>>, NEW i \in Requests, i.act = "DELETE",
         NEW s \in Servers, Fit(r, i), Ordered(r), NEW b, Removing(r, i, s, b), KindOnly(s),
         NEW z, NEW b2 \in BOOLEAN, b2 => b,
         \/ z = After(Head(r), i, s)
         \/ z = s /\ ~b2 /\ ~Head(r).must
  PROVE  Removing(Tail(r), i, z, b2)
<1>1. PICK k : k = Head(r)  OBVIOUS
<1>2. PICK t : t = Tail(r)  OBVIOUS
<1>3. /\ k \in Calls /\ t \in Seq(Calls) /\ Fits(k, i)
      /\ \A e : Left(t, e) => ~Wrong(k.do, e)
      /\ \A d : Left(r, d) <=> k.do = d \/ Left(t, d)
      /\ \A d, c : LeftOn(r, d, c) <=> (k.do = d /\ k.on = c) \/ LeftOn(t, d, c)
  BY <1>1, <1>2, HeadAndTail
<1>5. i.want \subseteq Containers  BY RequestParts
<1>6. k.on \in Containers /\ s.acct \in [Containers -> Accts]  BY <1>3, CallTypes, ServerType
<1>7. CASE z = s /\ ~b2 /\ ~k.must
  <2>1. k.do \in {"Drop", "DropListed", "DelPolicy"}  BY <1>3, <1>7 DEF Fits
  <2>2. kind \in Accounted => Left(t, "DelUser") \/ s.user = 0
    BY <1>3, <2>1 DEF Removing
  <2>3. kind = "mongodb" => \A c \in i.want : LeftOn(t, "DelAccount", c) \/ s.acct[c] = NoAcct
    BY <1>3, <2>1 DEF Removing
  <2>4. kind # "kvrocks"  BY <1>3, <2>1, DeleteMenus
  <2>5. ASSUME kind = "elasticsearch", NEW c \in i.want
        PROVE  LeftOn(t, "Drop", c) \/ s.user = 0
    <3>1. LeftOn(r, "Drop", c) \/ s.user = 0  BY <2>5 DEF Removing
    <3>2. k.do = "Drop" => ~Left(t, "DelUser")
      <4>1. Wrong("Drop", "DelUser")  BY <2>5 DEF Wrong
      <4> QED  BY <1>3, <4>1
    <3> QED  BY <1>3, <2>2, <2>5, <3>1, <3>2 DEF Accounted, Policied
  <2>6. ASSUME kind = "elasticsearch", i.all
        PROVE  Left(t, "DropListed") \/ s.user = 0
    <3>1. Left(r, "DropListed") \/ s.user = 0  BY <2>6 DEF Removing
    <3>2. k.do = "DropListed" => ~Left(t, "DelUser")
      <4>1. Wrong("DropListed", "DelUser")  BY <2>6 DEF Wrong
      <4> QED  BY <1>3, <4>1
    <3> QED  BY <1>3, <2>2, <2>6, <3>1, <3>2 DEF Accounted, Policied
  <2> QED  BY <1>2, <1>7, <2>2, <2>3, <2>4, <2>5, <2>6 DEF Removing
<1>8. CASE z = After(k, i, s)
  <2>1. /\ z \in Servers
        /\ z.user = UserAfter(k, i, s)
        /\ z.cont = ContAfter(k, s)
        /\ z.acct = IF k.do \in Accounts THEN [s.acct EXCEPT ![k.on] = AcctAfter(k, i, s)]
                    ELSE s.acct
    BY <1>3, <1>8, AfterParts
  <2>2. k.do \in {"Load", "Truncate", "Write", "Stream", "DelAccount", "Drop", "DelNamespace",
                  "DelUser", "DelPolicy", "DropListed", "Revoke"}
    BY <1>3, KindCases, DeleteMenus DEF Policied, Sql
  <2>3. /\ z.user = IF k.do = "DelUser" THEN 0 ELSE s.user
        /\ z.cont = IF k.do = "Drop" THEN s.cont \ {k.on}
                    ELSE IF k.do = "DropListed" THEN s.cont \ Prefixed ELSE s.cont
    BY <2>1, <2>2 DEF UserAfter, ContAfter
  <2>4. \A c \in Containers : z.acct[c] = IF k.do \in {"DelAccount", "DelNamespace"} /\ c = k.on
                                          THEN NoAcct ELSE s.acct[c]
    <3>1. CASE k.do \in {"DelAccount", "DelNamespace"}
      <4>1. z.acct = [s.acct EXCEPT ![k.on] = NoAcct]
        BY <2>1, <3>1 DEF Accounts, AcctAfter
      <4> QED  BY <1>6, <3>1, <4>1
    <3>2. CASE k.do \notin {"DelAccount", "DelNamespace"}
      <4>1. z.acct = s.acct  BY <2>1, <2>2, <3>2 DEF Accounts
      <4> QED  BY <3>2, <4>1
    <3> QED  BY <3>1, <3>2
  <2>5. kind \in Accounted => Left(t, "DelUser") \/ z.user = 0
    BY <1>3, <2>3 DEF Removing
  <2>6. ASSUME kind = "mongodb", NEW c \in i.want
        PROVE  LeftOn(t, "DelAccount", c) \/ z.acct[c] = NoAcct
    <3>1. LeftOn(r, "DelAccount", c) \/ s.acct[c] = NoAcct  BY <2>6 DEF Removing
    <3> QED  BY <1>3, <1>5, <2>4, <3>1
  <2>7. ASSUME kind = "kvrocks", NEW c \in i.want
        PROVE  LeftOn(t, "DelNamespace", c) \/ z.acct[c] = NoAcct
    <3>1. LeftOn(r, "DelNamespace", c) \/ s.acct[c] = NoAcct  BY <2>7 DEF Removing
    <3> QED  BY <1>3, <1>5, <2>4, <3>1
  <2>8. ASSUME kind \in {"mongodb", "rabbitmq"} \cup Sql, NEW c \in i.want
        PROVE  LeftOn(t, "Drop", c) \/ c \notin z.cont \/ ~b2
    <3>1. LeftOn(r, "Drop", c) \/ c \notin s.cont \/ ~b  BY <2>8 DEF Removing
    <3> QED  BY <1>3, <2>3, <3>1
  <2>9. ASSUME kind = "elasticsearch", NEW c \in i.want
        PROVE  LeftOn(t, "Drop", c) \/ (z.user = 0 /\ (c \notin z.cont \/ ~b2))
    <3>1. LeftOn(r, "Drop", c) \/ (s.user = 0 /\ (c \notin s.cont \/ ~b))
      BY <2>9 DEF Removing
    <3>2. k.do = "Drop" => ~Left(t, "DelUser")
      <4>1. Wrong("Drop", "DelUser")  BY <2>9 DEF Wrong
      <4> QED  BY <1>3, <4>1
    <3> QED  BY <1>3, <2>3, <2>5, <2>9, <3>1, <3>2 DEF Accounted, Policied
  <2>10. ASSUME kind = "elasticsearch", i.all
         PROVE  Left(t, "DropListed") \/ (z.user = 0 /\ (z.cont \cap OwnNames = {} \/ ~b2))
    <3>0. Prefixed = OwnNames  BY <2>10 DEF Prefixed
    <3>1. Left(r, "DropListed") \/ (s.user = 0 /\ (s.cont \cap OwnNames = {} \/ ~b))
      BY <2>10 DEF Removing
    <3>2. k.do = "DropListed" => ~Left(t, "DelUser")
      <4>1. Wrong("DropListed", "DelUser")  BY <2>10 DEF Wrong
      <4> QED  BY <1>3, <4>1
    <3> QED  BY <1>3, <2>3, <2>5, <2>10, <3>0, <3>1, <3>2 DEF Accounted, Policied
  <2> QED  BY <1>2, <2>5, <2>6, <2>7, <2>8, <2>9, <2>10 DEF Removing
<1> QED  BY <1>1, <1>7, <1>8

-----------------------------------------------------------------------------
(* The actions.                                                            *)

\* What is said of a state depends on the kind, which never changes.
LEMMA PrimedFit ==
  ASSUME kind' = kind
  PROVE  /\ Fit(task.rest, task.item)' <=> Fit(task'.rest, task'.item)
         /\ Ordered(task.rest)' <=> Ordered(task'.rest)
         /\ KindOnly(srv)' <=> KindOnly(srv')
<1>1. Fit(task.rest, task.item)' <=> Fit(task'.rest, task'.item)
  BY DEF Fit, Fits, CreateMenu, DeleteMenu
<1>2. Ordered(task.rest)' <=> Ordered(task'.rest)  BY DEF Ordered, Wrong
<1>3. KindOnly(srv)' <=> KindOnly(srv')  BY DEF KindOnly
<1> QED  BY <1>1, <1>2, <1>3

\* What is owed in the next state, in terms of the present kind.
LEMMA PrimedOwed ==
  ASSUME kind' = kind
  PROVE  /\ Making(task.rest, task.item, srv)' <=> Making(task'.rest, task'.item, srv')
         /\ Removing(task.rest, task.item, srv, task.clean)' <=>
              Removing(task'.rest, task'.item, srv', task'.clean)
<1>1. Making(task.rest, task.item, srv)' <=> Making(task'.rest, task'.item, srv')
  BY DEF Making, Granted, Prefixed
<1>2. Removing(task.rest, task.item, srv, task.clean)' <=>
              Removing(task'.rest, task'.item, srv', task'.clean)
  BY DEF Removing
<1> QED  BY <1>1, <1>2

Owes(t, s) ==
  t # None /\ ~t.begin =>
     /\ Fit(t.rest, t.item) /\ Ordered(t.rest)
     /\ t.served /\ t.act # "DELETE" => Making(t.rest, t.item, s)
     /\ t.served /\ t.act = "DELETE" => Removing(t.rest, t.item, s, t.clean)

\* To keep Underway it is enough to look at the next task and server.
LEMMA NextUnderway ==
  ASSUME kind' = kind, KindOnly(srv'), Owes(task', srv')
  PROVE  Underway'
BY PrimedFit, PrimedOwed DEF Underway, Owes

\* The parts of a task, and of one that has gone on.
LEMMA TaskParts ==
  ASSUME NEW t \in Tasks
  PROVE  /\ t.act \in Acts /\ t.item \in Requests /\ t.begin \in BOOLEAN /\ t.rest \in Seq(Calls)
         /\ t.clean \in BOOLEAN /\ t.served \in BOOLEAN /\ t.conf \in Files /\ t # None
<1>1. /\ t.act \in Acts /\ t.item \in Requests /\ t.begin \in BOOLEAN /\ t.rest \in Seq(Calls)
      /\ t.clean \in BOOLEAN /\ t.served \in BOOLEAN /\ t.conf \in Files
  BY DEF Tasks
<1>2. t.act # "NONE"  BY <1>1 DEF Acts
<1>3. t # None  BY <1>2 DEF None
<1> QED  BY <1>1, <1>3

\* The parts of a result.
LEMMA ResultParts ==
  ASSUME NEW t \in Results
  PROVE  /\ t.act \in Acts /\ t.item \in Requests /\ t.clean \in BOOLEAN /\ t.served \in BOOLEAN
         /\ t # None
<1>1. t.act \in Acts /\ t.item \in Requests /\ t.clean \in BOOLEAN /\ t.served \in BOOLEAN
  BY DEF Results
<1>2. t.act # "NONE"  BY <1>1 DEF Acts
<1>3. t # None  BY <1>2 DEF None
<1> QED  BY <1>1, <1>3

\* The parts of an object.
LEMMA ObjectParts ==
  ASSUME NEW t \in Objects
  PROVE  /\ t.want \in (SUBSET Containers) \ {{}} /\ t.pwd \in Pwds /\ t.gen \in 1..MaxGen
         /\ t.all \in BOOLEAN /\ t.act = "OBJ" /\ t # None
<1>1. /\ t.want \in (SUBSET Containers) \ {{}} /\ t.pwd \in Pwds /\ t.gen \in 1..MaxGen
      /\ t.all \in BOOLEAN /\ t.act = "OBJ"
  BY DEF Objects
<1>2. t # None  BY <1>1 DEF None
<1> QED  BY <1>1, <1>2

\* The parts of a file.
LEMMA FileParts ==
  /\ NoConf \in Files /\ NoConf.st = "absent"
  /\ \A f \in Files : /\ f.st \in {"absent", "empty", "full", "garbled"}
                      /\ f.base \in SUBSET Parts /\ f.user \in Pwds \cup {0}
BY DEF NoConf, Files

\* The parts of a task that begins.
LEMMA BeginParts ==
  ASSUME NEW i \in Requests, NEW t, t = Begin(i)
  PROVE  /\ t \in Tasks /\ t # None /\ t.begin /\ t.item = i /\ t.act = i.act /\ t.rest = <<>>
<1>1. i.act \in Acts  BY RequestParts
<1>2. <<>> \in Seq(Calls)  OBVIOUS
<1>3. t \in Tasks  BY <1>1, <1>2, FileParts DEF Begin, Tasks
<1>4. t.begin /\ t.item = i /\ t.act = i.act /\ t.rest = <<>>  BY DEF Begin
<1> QED  BY <1>3, <1>4, TaskParts

\* The queue, with one item more.
LEMMA Queued ==
  ASSUME NEW q \in Seq(Requests), NEW i \in Requests, NEW p, p = Append(q, i)
  PROVE  /\ p \in Seq(Requests)
         /\ \A n \in DOMAIN p : p[n] = i \/ (n \in DOMAIN q /\ p[n] = q[n])
BY DEF Requests

\* The queue, with its first item taken.
LEMMA Taken ==
  ASSUME NEW q \in Seq(Requests), q # <<>>
  PROVE  /\ Head(q) \in Requests /\ Tail(q) \in Seq(Requests)
         /\ 1 \in DOMAIN q /\ Head(q) = q[1]
         /\ \A n \in DOMAIN Tail(q) : n + 1 \in DOMAIN q /\ Tail(q)[n] = q[n + 1]
OBVIOUS

\* The action and the spec of an object make an item.
LEMMA Request ==
  ASSUME NEW a \in Acts, NEW w \in (SUBSET Containers) \ {{}}, NEW p \in Pwds, NEW i,
         NEW b \in BOOLEAN, i = [act |-> a, want |-> w, pwd |-> p, all |-> b]
  PROVE  i \in Requests /\ i.act = a /\ i.want = w /\ i.pwd = p
BY DEF Requests, Acts

\* A failed item is tried again.
LEMMA Again ==
  ASSUME MwTypes, MwControl, task # None, TryAgain
  PROVE  /\ queue' \in Seq(Requests)
         /\ kind = "kvrocks" => \A n \in DOMAIN queue' : Cardinality(queue'[n].want) = 1
         /\ \/ task' = None
            \/ /\ task' \in Tasks /\ task'.begin /\ task'.rest = <<>>
               /\ task'.item = task.item /\ task'.act = task'.item.act
<1>1. task \in Tasks /\ task.item \in Requests /\ queue \in Seq(Requests)
  BY TaskParts DEF MwTypes
<1>2. kind = "kvrocks" => /\ \A n \in DOMAIN queue : Cardinality(queue[n].want) = 1
                          /\ Cardinality(task.item.want) = 1
  BY DEF MwControl
<1>3. CASE task.act = "DELETE"
  <2>1. task' = Begin(task.item) /\ queue' = queue  BY <1>3 DEF TryAgain
  <2> QED  BY <1>1, <1>2, <2>1, BeginParts
<1>4. CASE task.act # "DELETE"
  <2>1. task' = None /\ queue' = Append(queue, task.item)  BY <1>4 DEF TryAgain
  <2> QED  BY <1>1, <1>2, <2>1, Queued
<1> QED  BY <1>3, <1>4

\* What was reported as done stays so as long as nothing of it changes.
LEMMA DoneKept ==
  ASSUME kind' = kind, srv' = srv, file' = file, last' = last, torn' = torn,
         DoneMeansServed, DoneMeansGone
  PROVE  DoneMeansServed' /\ DoneMeansGone'
BY DEF DoneMeansServed, DoneMeansGone, Serves, Access, Granted, Prefixed

\* Nothing is claimed of no result, nor of one without a server.
LEMMA DoneNone ==
  ASSUME last' = None \/ ~last'.served
  PROVE  DoneMeansServed' /\ DoneMeansGone'
<1>1. None.act \notin {"ADD", "UPDATE", "DELETE"}  BY DEF None
<1> QED  BY <1>1 DEF DoneMeansServed, DoneMeansGone

\* A task has no result yet.
LEMMA NoResult ==
  ASSUME MwControl, task # None
  PROVE  last = None
BY DEF MwControl

\* What the configuration file needs when it is left alone.
FileTask(t, f, torn1, ok) ==
  /\ Left(t.rest, "Load") => Left(t.rest, "Truncate")
  /\ Left(t.rest, "Truncate") => Left(t.rest, "Write")
  /\ \/ Left(t.rest, "Load")
     \/ /\ f.st # "absent" /\ t.conf.st = "full"
        /\ torn1 \/ (ok /\ Good(t.conf, t.item))
  /\ Left(t.rest, "Write") \/ torn1 \/ Good(f, t.item)

\* A step that leaves the file alone keeps ConfigFile when its task and result fit.
LEMMA ConfigKept ==
  ASSUME ConfigFile, kind' = kind, file' = file, init' = init, torn' = torn,
         task' = None \/ task'.begin \/ (kind = "nats" => FileTask(task', file, torn, Settled)),
         \/ last' = None \/ last' = last
         \/ kind = "nats" => torn \/ (Settled /\ Good(file, last'.item)),
         kind # "nats" \/ ~Writing(task) \/ Writing(task')
  PROVE  ConfigFile'
<1>1. Settled' <=> Settled  BY DEF Settled
<1>2. AdminKept'  BY DEF ConfigFile, AdminKept
<1>3. (kind' = "nats" /\ task' # None /\ ~task'.begin) => FileTask(task', file', torn', Settled')
  BY <1>1 DEF FileTask
<1>4. kind' = "nats" /\ last' # None => torn' \/ (Settled' /\ Good(file', last'.item))
  BY <1>1 DEF ConfigFile
<1>5. /\ init' = "open" => file'.st = "absent"
      /\ init' = "write" => torn' \/ file'.st = "empty"
      /\ file'.st = "garbled" => torn'
      /\ kind' # "nats" => init' = "done" /\ file'.st = "absent"
  BY DEF ConfigFile
<1>6. file'.st = "empty" => torn' \/ init' = "write" \/ Writing(task')
  BY DEF ConfigFile
<1> QED  BY <1>2, <1>3, <1>4, <1>5, <1>6 DEF ConfigFile, FileTask

\* What ConfigFile says of the task.
LEMMA ConfigTask ==
  ASSUME ConfigFile, kind = "nats", task # None, ~task.begin
  PROVE  FileTask(task, file, torn, Settled)
BY DEF ConfigFile, FileTask

\* After a restart the object is delivered again, and nothing else is left.
LEMMA RebornParts ==
  ASSUME MwTypes, MwControl, Reborn
  PROVE  /\ queue' \in Seq(Requests) /\ task' = None /\ last' = None
         /\ init' = IF kind = "nats" THEN "stat" ELSE "done"
         /\ kind = "kvrocks" => \A n \in DOMAIN queue' : Cardinality(queue'[n].want) = 1
<1>1. task' = None /\ last' = None /\ init' = IF kind = "nats" THEN "stat" ELSE "done"
  BY DEF Reborn
<1>2. CASE obj = None
  <2>1. queue' = <<>>  BY <1>2 DEF Reborn
  <2> QED  BY <1>1, <2>1
<1>3. CASE obj # None
  <2>1. PICK i : i = [act |-> "ADD", want |-> obj.want, pwd |-> obj.pwd, all |-> obj.all]
    OBVIOUS
  <2>2. obj \in Objects  BY <1>3 DEF MwTypes
  <2>3. i \in Requests /\ i.want = obj.want  BY <2>1, <2>2, ObjectParts, Request DEF Acts
  <2>4. queue' = <<i>>  BY <1>3, <2>1 DEF Reborn
  <2>5. queue' \in Seq(Requests) /\ DOMAIN queue' = {1} /\ queue'[1] = i  BY <2>3, <2>4
  <2>6. kind = "kvrocks" => Cardinality(i.want) = 1  BY <1>3, <2>3 DEF MwControl
  <2> QED  BY <1>1, <2>5, <2>6
<1> QED  BY <1>2, <1>3

\* A creation that owes nothing has served the app, ...
LEMMA ServedAtEnd ==
  ASSUME MwTypes, NEW i \in Requests, Making(<<>>, i, srv), kind # "nats"
  PROVE  Serves(i)
<1>1. \A d : ~Left(<<>>, d) /\ \A c : ~LeftOn(<<>>, d, c)  BY NothingLeft
<1>2. PICK e : e = <<>>  OBVIOUS
<1>3. Making(e, i, srv) /\ \A d : ~Left(e, d) /\ \A c : ~LeftOn(e, d, c)  BY <1>1, <1>2
<1>4. i.pwd # 0 /\ i.want # {}  BY RequestParts
<1>5. CASE kind = "mongodb"  BY <1>3, <1>5 DEF Making, Serves, Sql
<1>6. CASE kind = "kvrocks"  BY <1>3, <1>6 DEF Making, Serves, Sql
<1>7. CASE kind \in Sql
  <2>1. srv.user # 0 /\ \A c \in i.want : c \in srv.cont /\ c \in srv.pol
    BY <1>3, <1>7 DEF Making, Accounted
  <2>2. Access(srv) = srv.pol  BY <1>7, <2>1 DEF Access, Policied, Sql
  <2> QED  BY <1>7, <2>1, <2>2 DEF Serves, Sql
<1>8. CASE kind = "rabbitmq"
  <2>1. srv.user = i.pwd /\ \A c \in i.want : c \in srv.cont /\ c \in srv.pol
    BY <1>3, <1>8 DEF Making, Accounted
  <2>2. Access(srv) = srv.pol  BY <1>4, <1>8, <2>1 DEF Access, Policied
  <2> QED  BY <1>8, <2>1, <2>2 DEF Serves, Sql
<1>9. CASE kind \in Policied
  <2>1. /\ srv.user = i.pwd /\ \A c \in i.want : c \in srv.cont
        /\ srv.pol = Granted(i) /\ srv.att
    BY <1>3, <1>9 DEF Making, Accounted
  <2>2. Access(srv) = srv.pol  BY <1>4, <1>9, <2>1 DEF Access
  <2> QED  BY <1>9, <2>1, <2>2 DEF Serves, Sql, Policied
<1> QED  BY <1>5, <1>6, <1>7, <1>8, <1>9, KindCases DEF Sql, Policied

\* ... and a deletion that has nothing left to remove has removed everything.
LEMMA GoneAtEnd ==
  ASSUME MwTypes, KindOnly(srv), NEW i \in Requests, NEW b \in BOOLEAN, Removing(<<>>, i, srv, b)
  PROVE  /\ srv.user = 0 /\ Access(srv) = {}
         /\ \A c \in i.want : srv.acct[c] = NoAcct
         /\ (b /\ kind # "minio") => Granted(i) \cap srv.cont = {}
<1>1. \A d : ~Left(<<>>, d) /\ \A c : ~LeftOn(<<>>, d, c)  BY NothingLeft
<1>2. PICK e : e = <<>>  OBVIOUS
<1>3. Removing(e, i, srv, b) /\ \A d : ~Left(e, d) /\ \A c : ~LeftOn(e, d, c)  BY <1>1, <1>2
<1>4. i.want \subseteq Containers  BY RequestParts
<1>5. srv.user = 0
  BY <1>3, KindCases DEF Removing, KindOnly, Accounted, Policied, Sql
<1>6. Access(srv) = {}  BY <1>5 DEF Access
<1>7. \A c \in i.want : srv.acct[c] = NoAcct  BY <1>3, <1>4 DEF Removing, KindOnly
<1>8. (b /\ kind # "minio") => i.want \cap srv.cont = {}
  <2>1. CASE kind \in {"mongodb", "rabbitmq"} \cup Sql
    BY <1>3, <2>1 DEF Removing
  <2>2. CASE kind \in {"kvrocks", "nats"}  BY <2>2 DEF KindOnly
  <2>3. CASE kind = "elasticsearch"  BY <1>3, <2>3 DEF Removing
  <2> QED  BY <2>1, <2>2, <2>3, KindCases DEF Sql
<1>9. (b /\ kind # "minio" /\ i.all) => OwnNames \cap srv.cont = {}
  <2>1. CASE kind = "elasticsearch"  BY <1>3, <2>1 DEF Removing
  <2>2. CASE kind # "elasticsearch"  BY <2>2, ContainersAssumption DEF KindOnly
  <2> QED  BY <2>1, <2>2
<1>10. (b /\ kind # "minio") => Granted(i) \cap srv.cont = {}
  BY <1>8, <1>9 DEF Granted, Prefixed
<1> QED  BY <1>5, <1>6, <1>7, <1>10

\* The worker takes an item.
LEMMA TakeKeeps ==
  ASSUME MwInv, Take
  PROVE  MwInv'
<1> USE DEF MwInv
<1>1. /\ task' = Begin(Head(queue)) /\ queue' = Tail(queue) /\ last' = None /\ queue # <<>>
      /\ kind' = kind /\ svc' = svc /\ srv' = srv /\ file' = file /\ init' = init /\ obj' = obj
      /\ torn' = torn /\ errors' = errors /\ upsets' = upsets
  BY DEF Take
<1>2. queue \in Seq(Requests)  BY DEF MwTypes
<1>3. /\ Head(queue) \in Requests /\ Tail(queue) \in Seq(Requests)
      /\ 1 \in DOMAIN queue /\ Head(queue) = queue[1]
      /\ \A n \in DOMAIN Tail(queue) : n + 1 \in DOMAIN queue /\ Tail(queue)[n] = queue[n + 1]
  BY <1>1, <1>2, Taken
<1>4. /\ task' \in Tasks /\ task' # None /\ task'.begin /\ task'.item = Head(queue)
      /\ task'.act = task'.item.act /\ task'.rest = <<>>
  BY <1>1, <1>3, BeginParts
<1>5. MwTypes'  BY <1>1, <1>3, <1>4 DEF MwTypes
<1>6. MwControl'
  <2>1. kind = "kvrocks" => /\ \A n \in DOMAIN queue' : Cardinality(queue'[n].want) = 1
                            /\ Cardinality(task'.item.want) = 1
    BY <1>1, <1>3, <1>4 DEF MwControl
  <2> QED  BY <1>1, <1>4, <2>1 DEF MwControl
<1>7. Underway'
  <2>1. KindOnly(srv') /\ Owes(task', srv')  BY <1>1, <1>4 DEF Underway, Owes
  <2> QED  BY <1>1, <2>1, NextUnderway
<1>8. ConfigFile'
  <2>1. ~Writing(task)  BY DEF Take, Writing
  <2> QED  BY <1>1, <1>4, <2>1, ConfigKept
<1>9. DoneMeansServed' /\ DoneMeansGone'  BY <1>1, DoneNone
<1> QED  BY <1>5, <1>6, <1>7, <1>8, <1>9

\* The worker sets out on the program of its item ...
LEMMA OpenKeeps ==
  ASSUME MwInv, Open, svc
  PROVE  MwInv'
<1> USE DEF MwInv
<1>1. /\ task # None /\ task.begin
      /\ task' = [task EXCEPT !.begin = FALSE, !.rest = Program(task.item)]
      /\ queue' = queue /\ last' = last
      /\ kind' = kind /\ svc' = svc /\ srv' = srv /\ file' = file /\ init' = init /\ obj' = obj
      /\ torn' = torn /\ errors' = errors /\ upsets' = upsets
  BY DEF Open
<1>2. task \in Tasks /\ task.item \in Requests  BY <1>1, TaskParts DEF MwTypes
<1>3. PICK p : p = Program(task.item)  OBVIOUS
<1>4. Starts(p, task.item)  BY <1>2, <1>3, ProgramStarts
<1>5. p \in Seq(Calls) /\ Fit(p, task.item) /\ Ordered(p)  BY <1>4 DEF Starts, Proper
<1>6. task' = [task EXCEPT !.begin = FALSE, !.rest = p]  BY <1>1, <1>3
<1>7. /\ task' \in Tasks /\ task' # None /\ ~task'.begin /\ task'.item = task.item
      /\ task'.act = task.act /\ task'.rest = p
  <2>1. PICK t : t = task  OBVIOUS
  <2>2. PICK u : u = task'  OBVIOUS
  <2>3. t \in Tasks /\ u = [t EXCEPT !.begin = FALSE, !.rest = p]  BY <1>2, <1>6, <2>1, <2>2
  <2>4. u \in Tasks /\ ~u.begin /\ u.item = t.item /\ u.act = t.act /\ u.rest = p
    BY <1>5, <2>3 DEF Tasks
  <2> QED  BY <2>1, <2>2, <2>4, TaskParts
<1>8. last = None  BY <1>1, NoResult
<1>9. task.act = task.item.act  BY <1>1 DEF MwControl
<1>10. MwTypes'  BY <1>1, <1>7 DEF MwTypes
<1>11. MwControl'  BY <1>1, <1>7, <1>8, <1>9 DEF MwControl
<1>12. Underway'
  <2>1. KindOnly(srv')  BY <1>1 DEF Underway
  <2>2. task'.act # "DELETE" => Making(task'.rest, task'.item, srv')
    BY <1>1, <1>4, <1>7, <1>9 DEF Starts
  <2>3. task'.act = "DELETE" => Removing(task'.rest, task'.item, srv', task'.clean)
    BY <1>1, <1>4, <1>7, <1>9 DEF Starts
  <2>4. Owes(task', srv')  BY <1>5, <1>7, <2>2, <2>3 DEF Owes
  <2> QED  BY <1>1, <2>1, <2>4, NextUnderway
<1>13. ConfigFile'
  <2>1. kind = "nats" => FileTask(task', file, torn, Settled)
    BY <1>4, <1>7 DEF Starts, FileTask
  <2>2. ~Writing(task)  BY <1>1 DEF Writing
  <2> QED  BY <1>1, <2>1, <2>2, ConfigKept
<1>14. DoneMeansServed' /\ DoneMeansGone'  BY <1>1, DoneKept
<1> QED  BY <1>10, <1>11, <1>12, <1>13, <1>14

\* ... or has no server to do it on.
LEMMA UnservedKeeps ==
  ASSUME MwInv, Open, ~svc
  PROVE  MwInv'
<1> USE DEF MwInv
<1>1. /\ task # None /\ Unserved(task.item)
      /\ kind' = kind /\ svc' = svc /\ srv' = srv /\ file' = file /\ init' = init /\ obj' = obj
      /\ torn' = torn /\ errors' = errors /\ upsets' = upsets
  BY DEF Open
<1>2. task \in Tasks  BY <1>1 DEF MwTypes
<1>3. /\ task.act \in Acts /\ task.item \in Requests /\ task.clean \in BOOLEAN
  BY <1>2, TaskParts
<1>4. kind # "nats" /\ task.act = task.item.act  BY <1>1 DEF MwControl
<1>5. CASE Returned(FALSE)
  <2>1. /\ task' = None /\ queue' = queue
        /\ last' = [act |-> task.act, item |-> task.item, clean |-> task.clean,
                    served |-> FALSE /\ task.served]
    BY <1>5 DEF Returned
  <2>2. last' \in Results /\ ~last'.served /\ last'.act = task.act /\ last'.item = task.item
    BY <1>3, <2>1 DEF Results
  <2>3. MwTypes'  BY <1>1, <2>1, <2>2 DEF MwTypes
  <2>4. MwControl'  BY <1>1, <1>4, <2>1, <2>2 DEF MwControl
  <2>5. Underway'
    <3>1. KindOnly(srv') /\ Owes(task', srv')  BY <1>1, <2>1 DEF Underway, Owes
    <3> QED  BY <1>1, <3>1, NextUnderway
  <2>6. ConfigFile'  BY <1>1, <1>4, <2>1, ConfigKept
  <2>7. DoneMeansServed' /\ DoneMeansGone'  BY <2>2, DoneNone
  <2> QED  BY <2>3, <2>4, <2>5, <2>6, <2>7
<1>6. CASE TryAgain /\ last' = None
  <2>1. /\ queue' \in Seq(Requests)
        /\ kind = "kvrocks" => \A n \in DOMAIN queue' : Cardinality(queue'[n].want) = 1
        /\ \/ task' = None
           \/ /\ task' \in Tasks /\ task'.begin /\ task'.rest = <<>>
              /\ task'.item = task.item /\ task'.act = task'.item.act
    BY <1>1, <1>6, Again
  <2>3. MwTypes'  BY <1>1, <1>6, <2>1 DEF MwTypes
  <2>4. MwControl'  BY <1>1, <1>6, <2>1 DEF MwControl
  <2>5. Underway'
    <3>1. KindOnly(srv') /\ Owes(task', srv')  BY <1>1, <2>1 DEF Underway, Owes
    <3> QED  BY <1>1, <3>1, NextUnderway
  <2>6. ConfigFile'  BY <1>1, <1>4, <1>6, <2>1, ConfigKept
  <2>7. DoneMeansServed' /\ DoneMeansGone'  BY <1>6, DoneNone
  <2> QED  BY <2>3, <2>4, <2>5, <2>6, <2>7
<1> QED  BY <1>1, <1>5, <1>6 DEF Unserved

\* A call of any kind but NATS leaves the file alone.
LEMMA FileCalls ==
  ASSUME MwTypes, NEW k, NEW i, Fits(k, i), kind # "nats"
  PROVE  k.do \notin {"Load", "Truncate", "Write", "Stream"}
BY KindCases, CreateMenus, DeleteMenus DEF Policied, Sql

\* Changed sets the user of the item and keeps the rest of the configuration.
LEMMA ChangedType ==
  ASSUME NEW f \in Files, NEW i \in Requests, NEW g, g = Changed(f, i)
  PROVE  g \in Files /\ g.st = f.st /\ g.base = f.base /\ g.user = Owner(i)
<1>1. i.pwd \in Pwds  BY RequestParts
<1>2. CASE i.act = "DELETE"
  <2>1. g = [f EXCEPT !.user = 0]  BY <1>2 DEF Changed, UserDeleted
  <2> QED  BY <1>2, <2>1 DEF Files, Owner
<1>3. CASE i.act # "DELETE"
  <2>1. g = [f EXCEPT !.user = i.pwd]  BY <1>3 DEF Changed, UserPut
  <2> QED  BY <1>1, <1>3, <2>1 DEF Files, Owner
<1> QED  BY <1>2, <1>3

\* ParseFile keeps what Config has of the file.
LEMMA ParsedType ==
  ASSUME file \in Files
  PROVE  /\ ParseFile \in Files /\ ParseFile.st = "full"
         /\ Config \subseteq file.base => Config \subseteq ParseFile.base
<1>1. file.base \in SUBSET Parts /\ file.user \in Pwds \cup {0}  BY FileParts
<1>2. PICK b : b = file.base \cap Config  OBVIOUS
<1>3. PICK u : u = file.user  OBVIOUS
<1>4. b \in SUBSET Parts /\ u \in Pwds \cup {0}  BY <1>1, <1>2, <1>3
<1>5. ParseFile = [st |-> "full", base |-> b, user |-> u]  BY <1>2, <1>3 DEF ParseFile
<1>6. ParseFile \in Files /\ ParseFile.st = "full" /\ ParseFile.base = b
  BY <1>4, <1>5 DEF Files
<1> QED  BY <1>2, <1>6

\* A call that succeeds.
LEMMA CallOkParts ==
  ASSUME MwInv, CallOk
  PROVE  /\ task \in Tasks /\ task # None /\ ~task.begin /\ task.rest \in Seq(Calls)
         /\ task.rest # <<>> /\ task.item \in Requests /\ task.act = task.item.act
         /\ Fit(task.rest, task.item) /\ Ordered(task.rest) /\ Next1 = Head(task.rest)
         /\ Next1 \in Calls /\ Fits(Next1, task.item) /\ last = None
         /\ ~Refuses(Next1, task.item)
         /\ task' \in Tasks /\ task' # None /\ ~task'.begin
         /\ task'.item = task.item /\ task'.act = task.act /\ task'.rest = Tail(task.rest)
         /\ (task'.served <=> task.served) /\ (task'.clean <=> task.clean)
         /\ task'.conf = IF Next1.do = "Load" THEN Changed(ParseFile, task.item) ELSE task.conf
         /\ task'.conf \in Files
<1> USE DEF MwInv
<1>1. task # None /\ task.rest # <<>> /\ ~task.begin /\ ~Refuses(Next1, task.item) /\ Answered
  BY DEF CallOk, Working
<1>2. task \in Tasks  BY <1>1 DEF MwTypes
<1>3. task.item \in Requests /\ task.rest \in Seq(Calls) /\ task.conf \in Files
  BY <1>2, TaskParts
<1>4. Fit(task.rest, task.item) /\ Ordered(task.rest)  BY <1>1 DEF Underway
<1>5. Next1 = Head(task.rest)  BY DEF Next1
<1>6. /\ Head(task.rest) \in Calls /\ Fits(Head(task.rest), task.item)
      /\ Tail(task.rest) \in Seq(Calls)
  BY <1>1, <1>3, <1>4, HeadAndTail
<1>7. last = None  BY <1>1, NoResult
<1>8. task.act = task.item.act  BY <1>1 DEF MwControl
<1>9. PICK f : f = IF Next1.do = "Load" THEN Changed(ParseFile, task.item) ELSE task.conf  OBVIOUS
<1>10. f \in Files
  <2>1. file \in Files  BY DEF MwTypes
  <2>2. ParseFile \in Files  BY <2>1, ParsedType
  <2>3. Changed(ParseFile, task.item) \in Files  BY <1>3, <2>2, ChangedType
  <2> QED  BY <1>3, <1>9, <2>3
<1>11. PICK r : r = Tail(task.rest)  OBVIOUS
<1>12. PICK t : t = task  OBVIOUS
<1>13. PICK u : u = task'  OBVIOUS
<1>14. u = [t EXCEPT !.rest = r, !.conf = f]
  BY <1>1, <1>2, <1>9, <1>11, <1>12, <1>13 DEF Answered, Tasks
<1>15. t \in Tasks /\ r \in Seq(Calls)  BY <1>2, <1>6, <1>11, <1>12
<1>16. /\ u \in Tasks /\ (u.begin <=> t.begin) /\ u.item = t.item /\ u.act = t.act
       /\ u.rest = r /\ u.conf = f /\ (u.served <=> t.served) /\ (u.clean <=> t.clean)
  BY <1>10, <1>14, <1>15 DEF Tasks
<1> QED
  BY <1>1, <1>2, <1>3, <1>4, <1>5, <1>6, <1>7, <1>8, <1>9, <1>10, <1>11, <1>12, <1>13, <1>16,
     TaskParts

\* A call that succeeds leaves the server with what is not owed any more.
LEMMA CallOkServer ==
  ASSUME MwInv, CallOk
  PROVE  srv' \in Servers /\ Underway'
<1> USE DEF MwInv
<1>1. /\ task \in Tasks /\ task # None /\ ~task.begin /\ task.rest \in Seq(Calls)
      /\ task.rest # <<>> /\ task.item \in Requests /\ task.act = task.item.act
      /\ Fit(task.rest, task.item) /\ Ordered(task.rest) /\ Next1 = Head(task.rest)
      /\ Next1 \in Calls /\ Fits(Next1, task.item)
      /\ ~Refuses(Next1, task.item)
      /\ task' \in Tasks /\ task' # None /\ ~task'.begin
      /\ task'.item = task.item /\ task'.act = task.act /\ task'.rest = Tail(task.rest)
      /\ (task'.served <=> task.served) /\ (task'.clean <=> task.clean)
  BY CallOkParts
<1>2. srv' = After(Next1, task.item, srv) /\ kind' = kind  BY DEF CallOk
<1>3. srv \in Servers  BY DEF MwTypes
<1>4. PICK z : z = After(Next1, task.item, srv)  OBVIOUS
<1>5. KindOnly(z) /\ z \in Servers
  <2>1. KindOnly(srv)  BY DEF Underway
  <2> QED  BY <1>1, <1>3, <1>4, <2>1, KindStep
<1>6. Fit(Tail(task.rest), task.item) /\ Ordered(Tail(task.rest))  BY <1>1, HeadAndTail
<1>7. ASSUME task.served, task.act # "DELETE"  PROVE Making(Tail(task.rest), task.item, z)
  <2>1. Making(task.rest, task.item, srv)  BY <1>1, <1>7 DEF Underway
  <2>2. kind = "kvrocks" => Cardinality(task.item.want) = 1  BY <1>1 DEF MwControl
  <2>3. Head(task.rest).do \in {"SetNamespace", "AddNamespace"} =>
          \A c \in Containers \ {Head(task.rest).on} : srv.acct[c].pwd # task.item.pwd
    BY <1>1 DEF Refuses
  <2>4. z = After(Head(task.rest), task.item, srv) /\ task.item.act # "DELETE"
    BY <1>1, <1>4, <1>7
  <2> QED  BY <1>1, <1>3, <2>1, <2>2, <2>3, <2>4, MakingStep
<1>8. ASSUME task.served, task.act = "DELETE"
      PROVE  Removing(Tail(task.rest), task.item, z, task'.clean)
  <2>1. PICK b : b = task.clean  OBVIOUS
  <2>2. PICK b2 : b2 = task'.clean  OBVIOUS
  <2>3. b2 \in BOOLEAN /\ (b2 => b)  BY <1>1, <2>1, <2>2, TaskParts
  <2>4. Removing(task.rest, task.item, srv, b)  BY <1>1, <1>8, <2>1 DEF Underway
  <2>5. z = After(Head(task.rest), task.item, srv) /\ task.item.act = "DELETE"
    BY <1>1, <1>4, <1>8
  <2>6. KindOnly(srv)  BY DEF Underway
  <2>7. Removing(Tail(task.rest), task.item, z, b2)
    BY <1>1, <1>3, <2>3, <2>4, <2>5, <2>6, RemovingStep
  <2> QED  BY <2>2, <2>7
<1>9. Owes(task', srv')  BY <1>1, <1>2, <1>4, <1>6, <1>7, <1>8 DEF Owes
<1> QED  BY <1>2, <1>4, <1>5, <1>9, NextUnderway

\* A call that succeeds leaves the file read, emptied or written in its turn.
LEMMA CallOkFile ==
  ASSUME MwInv, CallOk
  PROVE  file' \in Files /\ torn' \in BOOLEAN /\ ConfigFile'
<1> USE DEF MwInv
<1>1. /\ task \in Tasks /\ task # None /\ ~task.begin /\ task.rest \in Seq(Calls)
      /\ task.rest # <<>> /\ task.item \in Requests
      /\ Ordered(task.rest) /\ Next1 = Head(task.rest)
      /\ Next1 \in Calls /\ Fits(Next1, task.item) /\ last = None
      /\ ~Refuses(Next1, task.item)
      /\ task' # None /\ ~task'.begin
      /\ task'.item = task.item /\ task'.rest = Tail(task.rest)
      /\ task'.conf = IF Next1.do = "Load" THEN Changed(ParseFile, task.item) ELSE task.conf
  BY CallOkParts
<1>2. /\ file' = FileAfter(Next1) /\ init' = init /\ kind' = kind /\ last' = last
      /\ torn' = (torn \/ (Next1.do = "Load" /\ init = "write"))
  BY DEF CallOk
<1>3. file \in Files /\ torn \in BOOLEAN /\ task.conf \in Files  BY <1>1, TaskParts DEF MwTypes
<1>4. PICK k : k = Next1  OBVIOUS
<1>5. PICK t : t = Tail(task.rest)  OBVIOUS
<1>6. /\ \A e : Left(t, e) => ~Wrong(k.do, e)
      /\ \A d : Left(task.rest, d) <=> k.do = d \/ Left(t, d)
  BY <1>1, <1>4, <1>5, HeadAndTail
<1>7. /\ torn' \in BOOLEAN /\ (torn => torn')
      /\ torn' <=> (torn \/ (k.do = "Load" /\ init = "write"))
  BY <1>2, <1>3, <1>4
<1>8. /\ init = "open" => file.st = "absent"
      /\ init = "write" => torn \/ file.st = "empty"
      /\ file.st = "garbled" => torn
      /\ file.st = "empty" => torn \/ init = "write" \/ Writing(task)
      /\ (file.st = "full" /\ ~torn) => Config \subseteq file.base
      /\ kind # "nats" => init = "done" /\ file.st = "absent"
  BY DEF ConfigFile, AdminKept
<1>9. kind = "nats" => FileTask(task, file, torn, Settled)  BY <1>1, ConfigTask
<1>10. SUFFICES /\ file' \in Files
                /\ init = "open" => file'.st = "absent"
                /\ init = "write" => torn' \/ file'.st = "empty"
                /\ file'.st = "garbled" => torn'
                /\ file'.st = "empty" => torn' \/ init = "write" \/ Writing(task')
                /\ (file'.st = "full" /\ ~torn') => Config \subseteq file'.base
                /\ kind # "nats" => file'.st = "absent"
                /\ kind = "nats" => FileTask(task', file', torn', Settled')
  <2>1. AdminKept' <=> ((file'.st = "full" /\ ~torn') => Config \subseteq file'.base)
    BY DEF AdminKept
  <2>2. last' = None  BY <1>1, <1>2
  <2> QED  BY <1>2, <1>7, <1>8, <1>10, <2>1, <2>2 DEF ConfigFile, FileTask
<1>11. CASE k.do \notin {"Load", "Truncate", "Write"}
  <2>1. file' = file  BY <1>2, <1>4, <1>11 DEF FileAfter
  <2>2. torn' <=> torn  BY <1>7, <1>11
  <2>3. Settled' <=> Settled  BY <1>2, <2>1 DEF Settled
  <2>4. task'.conf = task.conf  BY <1>1, <1>4, <1>11
  <2>5. \A d \in {"Load", "Truncate", "Write"} : Left(task.rest, d) <=> Left(t, d)
    BY <1>6, <1>11
  <2>6. kind = "nats" => FileTask(task', file', torn', Settled')
    BY <1>1, <1>5, <1>9, <2>1, <2>2, <2>3, <2>4, <2>5 DEF FileTask
  <2>7. Writing(task) => Writing(task')  BY <1>1, <1>5, <2>5 DEF Writing
  <2> QED  BY <1>3, <1>8, <2>1, <2>2, <2>6, <2>7
<1>12. CASE k.do \in {"Load", "Truncate", "Write"}
  <2>0. kind = "nats"  BY <1>1, <1>4, <1>12, FileCalls
  <2>1. CASE k.do = "Load"
    <3>1. file' = file  BY <1>2, <1>4, <2>1 DEF FileAfter
    <3>2. file.st \in {"empty", "full"}
      <4>1. file.st \notin {"absent", "garbled"}  BY <1>1, <1>4, <2>1 DEF Refuses, Unreadable
      <4> QED  BY <1>3, <4>1, FileParts
    <3>3. PICK g : g = Changed(ParseFile, task.item)  OBVIOUS
    <3>4. /\ ParseFile \in Files /\ ParseFile.st = "full"
          /\ Config \subseteq file.base => Config \subseteq ParseFile.base
      BY <1>3, ParsedType
    <3>5. g.st = "full" /\ g.base = ParseFile.base /\ g.user = Owner(task.item)
      BY <1>1, <3>3, <3>4, ChangedType
    <3>10. ~Writing(task)  BY <1>6, <2>1 DEF Writing
    <3>6. task'.conf = g  BY <1>1, <1>4, <2>1, <3>3
    <3>7. ~torn' => Settled' /\ Good(g, task.item)
      <4>1. ASSUME ~torn'  PROVE ~torn /\ init # "write" /\ file.st = "full"
        BY <1>7, <1>8, <2>1, <3>2, <3>10, <4>1
      <4>2. ASSUME ~torn'  PROVE Settled'  BY <1>2, <1>8, <3>1, <4>1, <4>2 DEF Settled
      <4>3. ASSUME ~torn'  PROVE Good(g, task.item)  BY <1>8, <3>4, <3>5, <4>1, <4>3 DEF Good
      <4> QED  BY <4>2, <4>3
    <3>8. /\ Left(t, "Truncate") /\ Left(t, "Write")
      BY <1>6, <1>9, <2>0, <2>1 DEF FileTask
    <3>9. FileTask(task', file', torn', Settled')
      BY <1>1, <1>5, <3>1, <3>2, <3>5, <3>6, <3>7, <3>8 DEF FileTask
    <3> QED  BY <1>3, <1>7, <1>8, <2>0, <3>1, <3>9, <3>10
  <2>2. CASE k.do \in {"Truncate", "Write"}
    <3>1. Wrong(k.do, "Load")  BY <2>2 DEF Wrong
    <3>2. ~Left(t, "Load") /\ ~Left(task.rest, "Load")  BY <1>6, <2>2, <3>1
    <3>3. /\ file.st # "absent" /\ task.conf.st = "full"
          /\ torn \/ (Settled /\ Good(task.conf, task.item))
      BY <1>9, <2>0, <3>2 DEF FileTask
    <3>4. torn' <=> torn  BY <1>7, <2>2
    <3>5. task'.conf = task.conf  BY <1>1, <1>4, <2>2
    <3>6. init # "open"  BY <1>8, <3>3
    <3>7. CASE k.do = "Truncate"
      <4>1. file' = [st |-> "empty", base |-> {}, user |-> 0]
        BY <1>2, <1>4, <3>7 DEF FileAfter
      <4>2. file' \in Files /\ file'.st = "empty"  BY <1>3, <4>1 DEF Files
      <4>3. Settled => Settled'  BY <1>2, <4>2 DEF Settled
      <4>4. Left(t, "Write")  BY <1>6, <1>9, <2>0, <3>7 DEF FileTask
      <4>5. FileTask(task', file', torn', Settled')
        BY <1>1, <1>5, <3>2, <3>3, <3>4, <3>5, <4>2, <4>3, <4>4 DEF FileTask
      <4>6. Writing(task')  BY <1>1, <1>5, <3>2, <4>4 DEF Writing
      <4> QED  BY <2>0, <3>6, <4>2, <4>5, <4>6
    <3>8. CASE k.do = "Write"
      <4>1. file' = task.conf  BY <1>2, <1>4, <3>8 DEF FileAfter
      <4>2. file' \in Files /\ file'.st = "full"  BY <1>3, <3>3, <4>1
      <4>3. Settled => Settled'  BY <1>2, <4>2 DEF Settled
      <4>4. Wrong("Write", "Truncate")  BY DEF Wrong
      <4>5. ~Left(t, "Truncate")  BY <1>6, <3>8, <4>4
      <4>6. torn' \/ (Settled' /\ Good(task.conf, task.item))  BY <3>3, <3>4, <4>3
      <4>7. FileTask(task', file', torn', Settled')
        BY <1>1, <1>5, <3>2, <3>3, <3>5, <4>1, <4>2, <4>5, <4>6 DEF FileTask
      <4>8. ~torn' => Config \subseteq file'.base /\ init # "write"
        BY <3>3, <3>4, <4>1 DEF Good, Settled
      <4> QED  BY <2>0, <3>6, <4>2, <4>7, <4>8
    <3> QED  BY <2>2, <3>7, <3>8
  <2> QED  BY <1>12, <2>1, <2>2
<1> QED  BY <1>11, <1>12

\* A call that succeeds keeps the invariant.
LEMMA CallOkKeeps ==
  ASSUME MwInv, CallOk
  PROVE  MwInv'
<1> USE DEF MwInv
<1>1. /\ task # None /\ task.act = task.item.act /\ last = None
      /\ task' \in Tasks /\ task' # None /\ ~task'.begin
      /\ task'.item = task.item /\ task'.act = task.act
  BY CallOkParts
<1>2. /\ kind' = kind /\ svc' = svc /\ init' = init /\ obj' = obj /\ queue' = queue
      /\ last' = last /\ errors' = errors /\ upsets' = upsets
  BY DEF CallOk
<1>3. srv' \in Servers /\ Underway'  BY CallOkServer
<1>4. file' \in Files /\ torn' \in BOOLEAN /\ ConfigFile'  BY CallOkFile
<1>5. MwTypes'  BY <1>1, <1>2, <1>3, <1>4 DEF MwTypes
<1>6. MwControl'  BY <1>1, <1>2 DEF MwControl
<1>7. DoneMeansServed' /\ DoneMeansGone'  BY <1>1, <1>2, DoneNone
<1> QED  BY <1>3, <1>4, <1>5, <1>6, <1>7

\* A call that fails, or whose answer is lost.
LEMMA CallErrorKeeps ==
  ASSUME MwInv, CallError
  PROVE  MwInv'
<1> USE DEF MwInv
<1>1. /\ task # None /\ task.rest # <<>> /\ ~task.begin
      /\ Next1.do \notin {"Load", "Truncate", "Write"}
      /\ srv' = srv \/ srv' = After(Next1, task.item, srv)
      /\ errors' = errors \/ (errors < MaxErrors /\ errors' = errors + 1)
      /\ kind' = kind /\ svc' = svc /\ file' = file /\ init' = init /\ obj' = obj
      /\ last' = last /\ torn' = torn /\ upsets' = upsets
  BY DEF CallError, Working
<1>2. task \in Tasks  BY <1>1 DEF MwTypes
<1>3. /\ task.item \in Requests /\ task.rest \in Seq(Calls) /\ task.act = task.item.act
      /\ last = None /\ srv \in Servers /\ KindOnly(srv)
      /\ Fit(task.rest, task.item) /\ Ordered(task.rest)
  BY <1>1, <1>2, TaskParts, NoResult DEF MwControl, MwTypes, Underway
<1>4. Next1 = Head(task.rest)  BY DEF Next1
<1>5. PICK k : k = Head(task.rest)  OBVIOUS
<1>6. PICK r : r = Tail(task.rest)  OBVIOUS
<1>7. /\ k \in Calls /\ Fits(k, task.item) /\ r \in Seq(Calls) /\ Fit(r, task.item) /\ Ordered(r)
      /\ \A d : Left(task.rest, d) <=> k.do = d \/ Left(r, d)
  BY <1>1, <1>3, <1>5, <1>6, HeadAndTail
<1>8. KindOnly(srv') /\ srv' \in Servers
  <2>1. CASE srv' = srv  BY <1>3, <2>1
  <2>2. CASE srv' = After(Next1, task.item, srv)  BY <1>3, <1>4, <1>5, <1>7, <2>2, KindStep
  <2> QED  BY <1>1, <2>1, <2>2
<1>9. errors' \in 0..MaxErrors
  <2>1. errors \in 0..MaxErrors  BY DEF MwTypes
  <2> QED  BY <1>1, <2>1, MwBoundsAssumption
<1>10. DoneMeansServed' /\ DoneMeansGone'  BY <1>1, <1>3, DoneNone
<1>13. kind = "nats" => ~Writing(task)
  <2>1. ASSUME kind = "nats"  PROVE ~Left(r, "Write") /\ k.do # "Write"
    <3>1. k.do \in {"Load", "Truncate", "Write", "Stream"}
      BY <1>7, <2>1, CreateMenus, DeleteMenus
    <3>2. k.do = "Stream"  BY <1>1, <1>4, <1>5, <3>1
    <3>3. Wrong("Stream", "Write")  BY DEF Wrong
    <3>4. \A e : Left(r, e) => ~Wrong(k.do, e)  BY <1>1, <1>3, <1>5, <1>6, HeadAndTail
    <3> QED  BY <3>2, <3>3, <3>4
  <2> QED  BY <1>7, <2>1 DEF Writing
<1>11. CASE ~Tolerated(Next1)
  <2>1. TryAgain  BY <1>11 DEF CallError
  <2>2. /\ queue' \in Seq(Requests)
        /\ kind = "kvrocks" => \A n \in DOMAIN queue' : Cardinality(queue'[n].want) = 1
        /\ \/ task' = None
           \/ /\ task' \in Tasks /\ task'.begin /\ task'.rest = <<>>
              /\ task'.item = task.item /\ task'.act = task'.item.act
    BY <1>1, <2>1, Again
  <2>3. MwTypes'  BY <1>1, <1>8, <1>9, <2>2 DEF MwTypes
  <2>4. MwControl'  BY <1>1, <1>3, <2>2 DEF MwControl
  <2>5. Underway'
    <3>1. Owes(task', srv')  BY <2>2 DEF Owes
    <3> QED  BY <1>1, <1>8, <3>1, NextUnderway
  <2>6. ConfigFile'  BY <1>1, <1>13, <2>2, ConfigKept
  <2> QED  BY <1>10, <2>3, <2>4, <2>5, <2>6
<1>12. CASE Tolerated(Next1)
  <2>1. task' = [task EXCEPT !.rest = Tail(@), !.clean = FALSE] /\ queue' = queue
    BY <1>12 DEF CallError
  <2>2. /\ task' \in Tasks /\ task' # None /\ ~task'.begin /\ task'.item = task.item
        /\ task'.act = task.act /\ task'.rest = r /\ task'.conf = task.conf
        /\ (task'.served <=> task.served) /\ ~task'.clean
    <3>1. PICK t : t = task  OBVIOUS
    <3>2. PICK u : u = task'  OBVIOUS
    <3>3. u = [t EXCEPT !.rest = r, !.clean = FALSE]
      BY <1>2, <1>6, <2>1, <3>1, <3>2 DEF Tasks
    <3>4. /\ u \in Tasks /\ (u.begin <=> t.begin) /\ u.item = t.item /\ u.act = t.act
          /\ u.rest = r /\ u.conf = t.conf /\ (u.served <=> t.served) /\ ~u.clean
      BY <1>2, <1>7, <3>1, <3>3 DEF Tasks
    <3> QED  BY <1>1, <3>1, <3>2, <3>4, TaskParts
  <2>3. ~k.must \/ (kind = "minio" /\ k.do = "Make" /\ k.on \in srv'.cont)
    BY <1>4, <1>5, <1>12 DEF Tolerated
  <2>4. MwTypes'  BY <1>1, <1>8, <1>9, <2>1, <2>2 DEF MwTypes
  <2>5. MwControl'  BY <1>1, <1>3, <2>1, <2>2 DEF MwControl
  <2>6. ASSUME task.served, task.act # "DELETE"  PROVE Making(r, task.item, srv')
    <3>1. Making(task.rest, task.item, srv)  BY <1>1, <2>6 DEF Underway
    <3>2. k.do = "DelNamespace" \/ (kind = "minio" /\ k.do = "Make" /\ k.on \in srv'.cont)
      BY <1>3, <1>7, <2>3, <2>6 DEF Fits
    <3>3. task.item.act # "DELETE"  BY <1>3, <2>6
    <3>4. CASE srv' = srv
      <4>1. \/ Head(task.rest).do = "DelNamespace"
            \/ kind = "minio" /\ Head(task.rest).do = "Make" /\ Head(task.rest).on \in srv.cont
        BY <1>5, <3>2, <3>4
      <4>2. Making(Tail(task.rest), task.item, srv)
        BY <1>1, <1>3, <3>1, <3>3, <4>1, MakingSkip
      <4> QED  BY <1>6, <3>4, <4>2
    <3>5. CASE srv' = After(Next1, task.item, srv)
      <4>1. kind = "kvrocks" => Cardinality(task.item.want) = 1  BY <1>1 DEF MwControl
      <4>2. Head(task.rest).do \notin {"SetNamespace", "AddNamespace"}  BY <1>5, <3>2
      <4>3. PICK z : z = After(Head(task.rest), task.item, srv)  OBVIOUS
      <4>4. Making(Tail(task.rest), task.item, z)
        BY <1>1, <1>3, <3>1, <3>3, <4>1, <4>2, <4>3, MakingStep
      <4> QED  BY <1>4, <1>6, <3>5, <4>3, <4>4
    <3> QED  BY <1>1, <3>4, <3>5
  <2>7. ASSUME task.served, task.act = "DELETE"
        PROVE  Removing(r, task.item, srv', task'.clean)
    <3>1. PICK b : b = task.clean  OBVIOUS
    <3>2. PICK b2 : b2 = task'.clean  OBVIOUS
    <3>3. b2 \in BOOLEAN /\ ~b2  BY <2>2, <3>2, TaskParts
    <3>4. Removing(task.rest, task.item, srv, b)  BY <1>1, <2>7, <3>1 DEF Underway
    <3>5. task.item.act = "DELETE"  BY <1>3, <2>7
    <3>6. ~k.must
      <4>1. k.do # "Make"  BY <1>7, <3>5, KindCases, DeleteMenus DEF Policied, Sql
      <4> QED  BY <2>3, <4>1
    <3>7. PICK z : z = srv'  OBVIOUS
    <3>8. \/ z = After(Head(task.rest), task.item, srv)
          \/ z = srv /\ ~b2 /\ ~Head(task.rest).must
      BY <1>1, <1>4, <1>5, <3>3, <3>6, <3>7
    <3>9. b2 => b  BY <3>3
    <3>10. Removing(Tail(task.rest), task.item, z, b2)
      BY <1>1, <1>3, <3>3, <3>4, <3>5, <3>8, <3>9, RemovingStep
    <3> QED  BY <1>6, <3>2, <3>7, <3>10
  <2>8. Owes(task', srv')  BY <1>7, <2>2, <2>6, <2>7 DEF Owes
  <2>9. Underway'  BY <1>1, <1>8, <2>8, NextUnderway
  <2>10. ConfigFile'
    <3>1. ASSUME kind = "nats"  PROVE FileTask(task', file, torn, Settled)
      <4>1. FileTask(task, file, torn, Settled)  BY <1>1, <3>1, ConfigTask
      <4>2. \A d \in {"Load", "Truncate", "Write"} : Left(task.rest, d) <=> Left(r, d)
        BY <1>1, <1>4, <1>5, <1>7
      <4> QED  BY <2>2, <4>1, <4>2 DEF FileTask
    <3> QED  BY <1>1, <1>13, <3>1, ConfigKept
  <2> QED  BY <1>10, <2>4, <2>5, <2>9, <2>10
<1> QED  BY <1>11, <1>12

\* The file cannot be read: the item is tried again.
LEMMA LoadFailsKeeps ==
  ASSUME MwInv, LoadFails
  PROVE  MwInv'
<1> USE DEF MwInv
<1>1. /\ task # None /\ TryAgain
      /\ kind' = kind /\ svc' = svc /\ srv' = srv /\ file' = file /\ init' = init /\ obj' = obj
      /\ last' = last /\ torn' = torn /\ errors' = errors /\ upsets' = upsets
  BY DEF LoadFails, Working
<1>2. last = None  BY <1>1, NoResult
<1>3. /\ queue' \in Seq(Requests)
      /\ kind = "kvrocks" => \A n \in DOMAIN queue' : Cardinality(queue'[n].want) = 1
      /\ \/ task' = None
         \/ /\ task' \in Tasks /\ task'.begin /\ task'.rest = <<>>
            /\ task'.item = task.item /\ task'.act = task'.item.act
  BY <1>1, Again
<1>4. MwTypes'  BY <1>1, <1>3 DEF MwTypes
<1>5. MwControl'  BY <1>1, <1>2, <1>3 DEF MwControl
<1>6. Underway'
  <2>1. KindOnly(srv') /\ Owes(task', srv')  BY <1>1, <1>3 DEF Underway, Owes
  <2> QED  BY <1>1, <2>1, NextUnderway
<1>7. ConfigFile'
  <2>1. task.rest \in Seq(Calls) /\ task.rest # <<>> /\ Head(task.rest).do = "Load"
    <3>1. task \in Tasks  BY <1>1 DEF MwTypes
    <3> QED  BY <3>1, TaskParts DEF LoadFails, Working, Next1
  <2>2. 1 \in DOMAIN task.rest /\ task.rest[1] = Head(task.rest)  BY <2>1
  <2>3. Left(task.rest, "Load")  BY <2>1, <2>2 DEF Left
  <2>4. ~Writing(task)  BY <2>3 DEF Writing
  <2> QED  BY <1>1, <1>3, <2>4, ConfigKept
<1>8. DoneMeansServed' /\ DoneMeansGone'  BY <1>1, <1>2, DoneNone
<1> QED  BY <1>4, <1>5, <1>6, <1>7, <1>8

\* The file cannot be written to its end: the item is tried again.
LEMMA WriteFailsKeeps ==
  ASSUME MwInv, WriteFails
  PROVE  MwInv'
<1> USE DEF MwInv
<1>1. /\ task # None /\ ~task.begin /\ task.rest # <<>> /\ Next1.do = "Write" /\ TryAgain
      /\ kind' = kind /\ svc' = svc /\ srv' = srv /\ init' = init /\ obj' = obj
      /\ last' = last /\ torn' = TRUE /\ errors < MaxErrors /\ errors' = errors + 1
      /\ upsets' = upsets
      /\ file' = file \/ file' = [task.conf EXCEPT !.st = "garbled"]
  BY DEF WriteFails, Working
<1>2. last = None  BY <1>1, NoResult
<1>3. /\ queue' \in Seq(Requests)
      /\ kind = "kvrocks" => \A n \in DOMAIN queue' : Cardinality(queue'[n].want) = 1
      /\ \/ task' = None
         \/ /\ task' \in Tasks /\ task'.begin /\ task'.rest = <<>>
            /\ task'.item = task.item /\ task'.act = task'.item.act
  BY <1>1, Again
<1>4. task \in Tasks /\ file \in Files  BY <1>1 DEF MwTypes
<1>5. /\ task.item \in Requests /\ task.rest \in Seq(Calls) /\ task.conf \in Files
      /\ Fit(task.rest, task.item) /\ Ordered(task.rest)
  BY <1>1, <1>4, TaskParts DEF Underway
<1>6. file' \in Files /\ (file'.st = file.st \/ file'.st = "garbled")
  <2>1. PICK c : c = task.conf  OBVIOUS
  <2>2. [c EXCEPT !.st = "garbled"] \in Files /\ [c EXCEPT !.st = "garbled"].st = "garbled"
    BY <1>5, <2>1 DEF Files
  <2> QED  BY <1>1, <1>4, <2>1, <2>2
<1>7. errors' \in 0..MaxErrors
  <2>1. errors \in 0..MaxErrors  BY DEF MwTypes
  <2> QED  BY <1>1, <2>1, MwBoundsAssumption
<1>8. MwTypes'  BY <1>1, <1>3, <1>6, <1>7 DEF MwTypes
<1>9. MwControl'  BY <1>1, <1>2, <1>3 DEF MwControl
<1>10. Underway'
  <2>1. KindOnly(srv') /\ Owes(task', srv')  BY <1>1, <1>3 DEF Underway, Owes
  <2> QED  BY <1>1, <2>1, NextUnderway
<1>11. kind = "nats" /\ init # "open"
  <2>1. PICK k : k = Head(task.rest)  OBVIOUS
  <2>2. PICK r : r = Tail(task.rest)  OBVIOUS
  <2>3. /\ Fits(k, task.item)
        /\ \A e : Left(r, e) => ~Wrong(k.do, e)
        /\ \A d : Left(task.rest, d) <=> k.do = d \/ Left(r, d)
    BY <1>1, <1>5, <2>1, <2>2, HeadAndTail
  <2>4. k.do = "Write"  BY <1>1, <2>1 DEF Next1
  <2>5. kind = "nats"  BY <2>3, <2>4, FileCalls
  <2>6. Wrong("Write", "Load")  BY DEF Wrong
  <2>7. ~Left(task.rest, "Load")  BY <2>3, <2>4, <2>6
  <2>8. FileTask(task, file, torn, Settled)  BY <1>1, <2>5, ConfigTask
  <2>9. file.st # "absent"  BY <2>7, <2>8 DEF FileTask
  <2> QED  BY <2>5, <2>9 DEF ConfigFile
<1>12. ConfigFile'
  <2>1. AdminKept'  BY <1>1 DEF AdminKept
  <2> QED  BY <1>1, <1>2, <1>3, <1>11, <2>1 DEF ConfigFile
<1>13. DoneMeansServed' /\ DoneMeansGone'  BY <1>1, <1>2, DoneNone
<1> QED  BY <1>8, <1>9, <1>10, <1>12, <1>13

\* The handler returns nil.
LEMMA ReturnKeeps ==
  ASSUME MwInv, Return
  PROVE  MwInv'
<1> USE DEF MwInv
<1>1. /\ task # None /\ ~task.begin /\ task.rest = <<>> /\ Returned(TRUE)
      /\ kind' = kind /\ svc' = svc /\ srv' = srv /\ file' = file /\ init' = init /\ obj' = obj
      /\ torn' = torn /\ errors' = errors /\ upsets' = upsets
  BY DEF Return
<1>2. task \in Tasks  BY <1>1 DEF MwTypes
<1>3. /\ task.act \in Acts /\ task.item \in Requests /\ task.clean \in BOOLEAN
      /\ task.served \in BOOLEAN /\ task.act = task.item.act
  BY <1>1, <1>2, TaskParts DEF MwControl
<1>4. /\ task' = None /\ queue' = queue
      /\ last' = [act |-> task.act, item |-> task.item, clean |-> task.clean,
                  served |-> TRUE /\ task.served]
  BY <1>1 DEF Returned
<1>5. /\ last' \in Results /\ (last'.served <=> task.served) /\ (last'.clean <=> task.clean)
      /\ last'.act = task.act /\ last'.item = task.item
  BY <1>3, <1>4 DEF Results
<1>6. MwTypes'  BY <1>1, <1>4, <1>5 DEF MwTypes
<1>7. MwControl'  BY <1>1, <1>3, <1>4, <1>5 DEF MwControl
<1>8. Underway'
  <2>1. KindOnly(srv') /\ Owes(task', srv')  BY <1>1, <1>4 DEF Underway, Owes
  <2> QED  BY <1>1, <2>1, NextUnderway
<1>9. \A d : ~Left(task.rest, d)  BY <1>1, NothingLeft
<1>10. kind = "nats" => torn \/ (Settled /\ Good(file, task.item))
  <2>1. ASSUME kind = "nats"  PROVE FileTask(task, file, torn, Settled)
    BY <1>1, <2>1, ConfigTask
  <2> QED  BY <1>9, <2>1 DEF FileTask
<1>11. ConfigFile'
  <2>1. ~Writing(task)  BY <1>9 DEF Writing
  <2> QED  BY <1>1, <1>4, <1>5, <1>10, <2>1, ConfigKept
<1>12. ASSUME task.served, task.act # "DELETE"  PROVE torn \/ Serves(task.item)
  <2>1. Making(<<>>, task.item, srv)  BY <1>1, <1>12 DEF Underway
  <2>2. CASE kind = "nats"
    <3>1. Owner(task.item) = task.item.pwd  BY <1>3, <1>12 DEF Owner
    <3> QED  BY <1>10, <2>2, <3>1 DEF Good, Serves, Sql
  <2>3. CASE kind # "nats"  BY <1>3, <2>1, <2>3, ServedAtEnd
  <2> QED  BY <2>2, <2>3
<1>13. DoneMeansServed'
  <2>1. Serves(last.item)' <=> Serves(last'.item)
    BY <1>1 DEF Serves, Access, Granted, Prefixed
  <2>2. Serves(last'.item) <=> Serves(task.item)  BY <1>5
  <2> QED  BY <1>1, <1>5, <1>12, <2>1, <2>2 DEF DoneMeansServed
<1>14. ASSUME task.served, task.act = "DELETE"
       PROVE  /\ srv.user = 0 /\ Access(srv) = {}
              /\ kind = "nats" => torn \/ file.user = 0
              /\ \A c \in task.item.want : srv.acct[c] = NoAcct
              /\ (task.clean /\ kind # "minio") => Granted(task.item) \cap srv.cont = {}
  <2>1. PICK b : b = task.clean  OBVIOUS
  <2>2. Removing(<<>>, task.item, srv, b) /\ b \in BOOLEAN /\ KindOnly(srv)
    BY <1>1, <1>3, <1>14, <2>1 DEF Underway
  <2>3. /\ srv.user = 0 /\ Access(srv) = {}
        /\ \A c \in task.item.want : srv.acct[c] = NoAcct
        /\ (b /\ kind # "minio") => Granted(task.item) \cap srv.cont = {}
    BY <1>3, <2>2, GoneAtEnd
  <2>4. kind = "nats" => torn \/ file.user = 0
    BY <1>3, <1>10, <1>14 DEF Good, Owner
  <2> QED  BY <2>1, <2>3, <2>4
<1>15. DoneMeansGone'
  <2>1. Access(srv)' = Access(srv)  BY <1>1 DEF Access
  <2>2. Granted(last.item)' = Granted(task.item)  BY <1>1, <1>5 DEF Granted, Prefixed
  <2> QED  BY <1>1, <1>5, <1>14, <2>1, <2>2 DEF DoneMeansGone
<1> QED  BY <1>6, <1>7, <1>8, <1>11, <1>13, <1>15

\* The operator dies, or is restarted.
LEMMA RebornKeeps ==
  ASSUME MwInv, Reborn, kind' = kind, svc' = svc, file' = file, obj' = obj,
         torn' \in BOOLEAN, torn => torn', file.st = "empty" => torn', srv' \in Servers, KindOnly(srv'),
         errors' \in 0..MaxErrors, upsets' \in 0..MaxUpsets
  PROVE  MwInv'
<1> USE DEF MwInv
<1>1. /\ queue' \in Seq(Requests) /\ task' = None /\ last' = None
      /\ init' = IF kind = "nats" THEN "stat" ELSE "done"
      /\ kind = "kvrocks" => \A n \in DOMAIN queue' : Cardinality(queue'[n].want) = 1
  BY RebornParts
<1>2. MwTypes'  BY <1>1 DEF MwTypes
<1>3. MwControl'  BY <1>1 DEF MwControl
<1>4. Underway'
  <2>1. Owes(task', srv')  BY <1>1 DEF Owes
  <2> QED  BY <2>1, NextUnderway
<1>5. ConfigFile'
  <2>1. AdminKept'  BY DEF ConfigFile, AdminKept
  <2> QED  BY <1>1, <2>1 DEF ConfigFile
<1>6. DoneMeansServed' /\ DoneMeansGone'  BY <1>1, DoneNone
<1> QED  BY <1>2, <1>3, <1>4, <1>5, <1>6

\* DROP USER of MySQL fails and the operator dies.
LEMMA PanicKeeps ==
  ASSUME MwInv, Panic
  PROVE  MwInv'
<1> USE DEF MwInv
<1>1. /\ task # None /\ task.rest # <<>> /\ ~task.begin
      /\ srv' = srv \/ srv' = After(Next1, task.item, srv)
      /\ errors' = errors \/ (errors < MaxErrors /\ errors' = errors + 1)
      /\ Reborn /\ kind' = kind /\ svc' = svc /\ file' = file /\ obj' = obj
      /\ torn' = torn /\ upsets' = upsets
  BY DEF Panic, Working
<1>2. task \in Tasks  BY <1>1 DEF MwTypes
<1>3. /\ task.item \in Requests /\ task.rest \in Seq(Calls)
      /\ srv \in Servers /\ KindOnly(srv) /\ Fit(task.rest, task.item)
  BY <1>1, <1>2, TaskParts DEF MwTypes, Underway
<1>4. Next1 \in Calls /\ Fits(Next1, task.item)  BY <1>1, <1>3, HeadAndTail DEF Next1
<1>5. KindOnly(srv') /\ srv' \in Servers
  <2>1. CASE srv' = srv  BY <1>3, <2>1
  <2>2. CASE srv' = After(Next1, task.item, srv)  BY <1>3, <1>4, <2>2, KindStep
  <2> QED  BY <1>1, <2>1, <2>2
<1>6. errors' \in 0..MaxErrors /\ upsets' \in 0..MaxUpsets
  <2>1. errors \in 0..MaxErrors /\ upsets \in 0..MaxUpsets  BY DEF MwTypes
  <2> QED  BY <1>1, <2>1, MwBoundsAssumption
<1>7. torn' \in BOOLEAN /\ (torn => torn') /\ (file.st = "empty" => torn')
  <2>1. kind # "nats" /\ torn \in BOOLEAN  BY DEF Panic, MwTypes
  <2>2. file.st # "empty"  BY <2>1 DEF ConfigFile
  <2> QED  BY <1>1, <2>1, <2>2
<1> QED  BY <1>1, <1>5, <1>6, <1>7, RebornKeeps

\* The operator is restarted.
LEMMA RestartKeeps ==
  ASSUME MwInv, OperatorRestart
  PROVE  MwInv'
<1> USE DEF MwInv
<1>1. /\ upsets < MaxUpsets /\ upsets' = upsets + 1
      /\ Reborn /\ kind' = kind /\ svc' = svc /\ srv' = srv /\ file' = file /\ obj' = obj
      /\ torn' = (torn \/ file.st = "empty") /\ errors' = errors
  BY DEF OperatorRestart
<1>2. srv' \in Servers /\ KindOnly(srv')  BY <1>1 DEF MwTypes, Underway
<1>3. errors' \in 0..MaxErrors /\ upsets' \in 0..MaxUpsets
  <2>1. errors \in 0..MaxErrors /\ upsets \in 0..MaxUpsets  BY DEF MwTypes
  <2> QED  BY <1>1, <2>1, MwBoundsAssumption
<1>4. torn' \in BOOLEAN /\ (torn => torn') /\ (file.st = "empty" => torn')  BY <1>1
<1> QED  BY <1>1, <1>2, <1>3, <1>4, RebornKeeps

\* The ConfigMap handler: it leaves everything but the file alone.
LEMMA ConfigMapKeeps ==
  ASSUME MwInv, UNCHANGED <<kind, svc, srv, obj, queue, task, last, torn, errors, upsets>>,
         init' \in {"stat", "open", "write", "done"}, file' \in Files, ConfigFile',
         file' = file \/ last = None \/ (kind = "nats" /\ torn)
  PROVE  MwInv'
<1> USE DEF MwInv
<1>1. MwTypes'  BY DEF MwTypes
<1>2. MwControl'  BY DEF MwControl
<1>3. Underway'
  <2>1. KindOnly(srv') /\ Owes(task', srv')  BY DEF Underway, Owes
  <2> QED  BY <2>1, NextUnderway
<1>4. DoneMeansServed' /\ DoneMeansGone'
  <2>1. CASE file' = file  BY <2>1, DoneKept
  <2>2. CASE last = None  BY <2>2, DoneNone
  <2>3. CASE kind = "nats" /\ torn
    <3>1. DoneMeansServed'  BY <2>3 DEF DoneMeansServed
    <3>2. Access(srv)' = Access(srv)  BY DEF Access
    <3>4. Granted(last.item)' = Granted(last.item)  BY DEF Granted, Prefixed
    <3>3. DoneMeansGone'  BY <2>3, <3>2, <3>4 DEF DoneMeansGone
    <3> QED  BY <3>1, <3>3
  <2> QED  BY <2>1, <2>2, <2>3
<1> QED  BY <1>1, <1>2, <1>3, <1>4

\* The ConfigMap handler looks for the file ...
LEMMA CmStatKeeps ==
  ASSUME MwInv, CmStat
  PROVE  MwInv'
<1> USE DEF MwInv
<1>1. /\ init = "stat" /\ init' = IF file.st = "absent" THEN "open" ELSE "done"
      /\ file' = file
      /\ UNCHANGED <<kind, svc, srv, obj, queue, task, last, torn, errors, upsets>>
  BY DEF CmStat
<1>2. Settled => Settled'  BY <1>1 DEF Settled
<1>3. AdminKept'  BY <1>1 DEF ConfigFile, AdminKept
<1>4. kind = "nats"  BY <1>1 DEF ConfigFile
<1>5. ConfigFile'  BY <1>1, <1>2, <1>3, <1>4 DEF ConfigFile
<1>6. file' \in Files /\ init' \in {"stat", "open", "write", "done"}  BY <1>1 DEF MwTypes
<1> QED  BY <1>1, <1>5, <1>6, ConfigMapKeeps

\* While the file is written nobody has settled on what is in it.
LEMMA Unsettled ==
  ASSUME MwInv, init \in {"open", "write"}
  PROVE  /\ kind = "nats"
         /\ last = None \/ torn
         /\ task # None /\ ~task.begin =>
              /\ Left(task.rest, "Load") \/ (torn /\ file.st # "absent" /\ task.conf.st = "full")
              /\ Left(task.rest, "Load") => Left(task.rest, "Truncate")
              /\ Left(task.rest, "Truncate") => Left(task.rest, "Write")
<1> USE DEF MwInv
<1>1. ~Settled  BY DEF Settled
<1>2. kind = "nats"  BY DEF ConfigFile
<1>3. last = None \/ torn  BY <1>1, <1>2 DEF ConfigFile
<1>4. ASSUME task # None, ~task.begin  PROVE FileTask(task, file, torn, Settled)
  BY <1>2, <1>4, ConfigTask
<1> QED  BY <1>1, <1>2, <1>3, <1>4 DEF FileTask

\* Any file it may leave behind keeps the invariant.
LEMMA CmFileKeeps ==
  ASSUME MwInv, init \in {"open", "write"}, file' \in Files,
         file'.st \in {"empty", "full", "garbled"},
         UNCHANGED <<kind, svc, srv, obj, queue, task, last, torn, errors, upsets>>,
         init' = "done" \/ (init' = "write" /\ file'.st = "empty"),
         file'.st = "garbled" => torn, file'.st = "full" => Config \subseteq file'.base,
         file'.st = "empty" => init' = "write"
  PROVE  MwInv'
<1> USE DEF MwInv
<1>1. /\ kind = "nats"
      /\ last = None \/ torn
      /\ task # None /\ ~task.begin =>
              /\ Left(task.rest, "Load") \/ (torn /\ file.st # "absent" /\ task.conf.st = "full")
              /\ Left(task.rest, "Load") => Left(task.rest, "Truncate")
              /\ Left(task.rest, "Truncate") => Left(task.rest, "Write")
  BY Unsettled
<1>2. AdminKept'  BY DEF AdminKept
<1>3. ConfigFile'  BY <1>1, <1>2 DEF ConfigFile
<1>4. init' \in {"stat", "open", "write", "done"}  OBVIOUS
<1> QED  BY <1>1, <1>3, <1>4, ConfigMapKeeps

\* ... opens it ...
LEMMA CmOpenKeeps ==
  ASSUME MwInv, CmOpen
  PROVE  MwInv'
<1>1. /\ init = "open" /\ init' = "write"
      /\ file' = [st |-> "empty", base |-> {}, user |-> 0]
      /\ UNCHANGED <<kind, svc, srv, obj, queue, task, last, torn, errors, upsets>>
  BY DEF CmOpen
<1>2. file' \in Files /\ file'.st = "empty"  BY <1>1 DEF Files
<1> QED  BY <1>1, <1>2, CmFileKeeps

\* ... and writes it.
LEMMA CmWriteKeeps ==
  ASSUME MwInv, CmWrite
  PROVE  MwInv'
<1> USE DEF MwInv
<1>1. /\ init = "write" /\ init' = "done"
      /\ UNCHANGED <<kind, svc, srv, obj, queue, task, last, torn, errors, upsets>>
      /\ \/ file' = [st |-> "full", base |-> Parts, user |-> 0]
         \/ file.st # "empty" /\ file' = [file EXCEPT !.st = "garbled"]
  BY DEF CmWrite
<1>2. CASE file' = [st |-> "full", base |-> Parts, user |-> 0]
  <2>0. Config \subseteq Parts  BY DEF Config, Parts
  <2>1. file' \in Files /\ file'.st = "full" /\ Config \subseteq file'.base
    BY <1>2, <2>0 DEF Files
  <2> QED  BY <1>1, <2>1, CmFileKeeps
<1>3. CASE file.st # "empty" /\ file' = [file EXCEPT !.st = "garbled"]
  <2>1. file \in Files  BY DEF MwTypes
  <2>2. file' \in Files /\ file'.st = "garbled"  BY <1>3, <2>1 DEF Files
  <2>3. torn  BY <1>1, <1>3 DEF ConfigFile
  <2> QED  BY <1>1, <2>2, <2>3, CmFileKeeps
<1> QED  BY <1>1, <1>2, <1>3

\* The object changes, and an item is queued.
LEMMA EventKeeps ==
  ASSUME MwInv, UNCHANGED <<kind, svc, srv, file, init, task, torn, errors, upsets>>,
         last' = None \/ last' = last, NEW i \in Requests, queue' = Append(queue, i),
         kind = "kvrocks" => Cardinality(i.want) = 1,
         obj' = None \/ (obj' \in Objects /\ obj'.want = i.want)
  PROVE  MwInv'
<1> USE DEF MwInv
<1>1. queue \in Seq(Requests)  BY DEF MwTypes
<1>2. /\ queue' \in Seq(Requests)
      /\ \A n \in DOMAIN queue' : queue'[n] = i \/ (n \in DOMAIN queue /\ queue'[n] = queue[n])
  BY <1>1, Queued
<1>3. MwTypes'  BY <1>2 DEF MwTypes
<1>4. MwControl'
  <2>1. kind = "kvrocks" => /\ \A n \in DOMAIN queue' : Cardinality(queue'[n].want) = 1
                            /\ obj' # None => Cardinality(obj'.want) = 1
    BY <1>2 DEF MwControl
  <2> QED  BY <2>1 DEF MwControl
<1>5. Underway'
  <2>1. KindOnly(srv') /\ Owes(task', srv')  BY DEF Underway, Owes
  <2> QED  BY <2>1, NextUnderway
<1>6. ConfigFile'
  <2>1. kind = "nats" /\ task # None /\ ~task.begin => FileTask(task', file, torn, Settled)
    BY ConfigTask
  <2> QED  BY <2>1, ConfigKept
<1>7. DoneMeansServed' /\ DoneMeansGone'  BY DoneKept, DoneNone
<1> QED  BY <1>3, <1>4, <1>5, <1>6, <1>7

\* The parts of a spec.
LEMMA SpecParts ==
  ASSUME NEW s \in Specs
  PROVE  s.want \in (SUBSET Containers) \ {{}} /\ s.pwd \in Pwds /\ s.all \in BOOLEAN
BY DEF Specs

\* A spec and a generation make an object.
LEMMA ObjectMade ==
  ASSUME NEW s \in Specs, NEW g \in 1..MaxGen, NEW o,
         o = [act |-> "OBJ", want |-> s.want, pwd |-> s.pwd, all |-> s.all, gen |-> g]
  PROVE  o \in Objects /\ o.want = s.want
BY SpecParts DEF Objects

\* The object is created ...
LEMMA CreateObjectKeeps ==
  ASSUME MwInv, CreateObject
  PROVE  MwInv'
<1>1. UNCHANGED <<kind, svc, srv, file, init, task, torn, errors, upsets>> /\ last' = None
  BY DEF CreateObject
<1>2. PICK s \in Specs : /\ Allowed(s)
                         /\ obj' = [act |-> "OBJ", want |-> s.want, pwd |-> s.pwd,
                                    all |-> s.all, gen |-> 1]
                         /\ queue' = Event("ADD", s)
  BY DEF CreateObject
<1>3. PICK i : i = [act |-> "ADD", want |-> s.want, pwd |-> s.pwd, all |-> s.all]  OBVIOUS
<1>4. i \in Requests /\ i.want = s.want  BY <1>3, SpecParts, Request DEF Acts
<1>5. queue' = Append(queue, i)  BY <1>2, <1>3 DEF Event
<1>6. 1 \in 1..MaxGen  BY MwBoundsAssumption
<1>7. obj' \in Objects /\ obj'.want = i.want  BY <1>2, <1>4, <1>6, ObjectMade
<1>8. kind = "kvrocks" => Cardinality(i.want) = 1  BY <1>2, <1>4 DEF Allowed
<1> QED  BY <1>1, <1>4, <1>5, <1>7, <1>8, EventKeeps

\* ... updated ...
LEMMA UpdateObjectKeeps ==
  ASSUME MwInv, UpdateObject
  PROVE  MwInv'
<1> USE DEF MwInv
<1>1. /\ UNCHANGED <<kind, svc, srv, file, init, task, torn, errors, upsets>> /\ last' = last
      /\ obj # None /\ obj.gen < MaxGen
  BY DEF UpdateObject
<1>2. PICK s \in Specs : /\ Allowed(s)
                         /\ obj' = [act |-> "OBJ", want |-> s.want, pwd |-> s.pwd,
                                    all |-> s.all, gen |-> obj.gen + 1]
                         /\ queue' = Event("UPDATE", s)
  BY DEF UpdateObject
<1>3. PICK i : i = [act |-> "UPDATE", want |-> s.want, pwd |-> s.pwd, all |-> s.all]  OBVIOUS
<1>4. i \in Requests /\ i.want = s.want  BY <1>3, SpecParts, Request DEF Acts
<1>5. queue' = Append(queue, i)  BY <1>2, <1>3 DEF Event
<1>6. obj.gen + 1 \in 1..MaxGen
  <2>1. obj \in Objects  BY <1>1 DEF MwTypes
  <2>2. obj.gen \in 1..MaxGen  BY <2>1, ObjectParts
  <2> QED  BY <1>1, <2>2, MwBoundsAssumption
<1>7. obj' \in Objects /\ obj'.want = i.want  BY <1>2, <1>4, <1>6, ObjectMade
<1>8. kind = "kvrocks" => Cardinality(i.want) = 1  BY <1>2, <1>4 DEF Allowed
<1> QED  BY <1>1, <1>4, <1>5, <1>7, <1>8, EventKeeps

\* ... and deleted.
LEMMA DeleteObjectKeeps ==
  ASSUME MwInv, DeleteObject
  PROVE  MwInv'
<1> USE DEF MwInv
<1>1. /\ UNCHANGED <<kind, svc, srv, file, init, task, torn, errors, upsets>> /\ last' = last
      /\ obj # None /\ obj' = None /\ queue' = Event("DELETE", obj)
  BY DEF DeleteObject
<1>2. obj \in Objects  BY <1>1 DEF MwTypes
<1>3. PICK i : i = [act |-> "DELETE", want |-> obj.want, pwd |-> obj.pwd, all |-> obj.all]
  OBVIOUS
<1>4. i \in Requests /\ i.want = obj.want  BY <1>2, <1>3, ObjectParts, Request DEF Acts
<1>5. queue' = Append(queue, i)  BY <1>1, <1>3 DEF Event
<1>6. kind = "kvrocks" => Cardinality(i.want) = 1  BY <1>1, <1>4 DEF MwControl
<1> QED  BY <1>1, <1>4, <1>5, <1>6, EventKeeps

\* The app makes a container: only an app that has an account can.
LEMMA AppCreatesKeeps ==
  ASSUME MwInv, AppCreates
  PROVE  MwInv'
<1> USE DEF MwInv
<1>1. /\ kind \in Policied
      /\ UNCHANGED <<kind, svc, file, init, obj, queue, task, last, torn, errors, upsets>>
  BY DEF AppCreates
<1>2. PICK c \in Access(srv) \ srv.cont : srv' = [srv EXCEPT !.cont = @ \cup {c}]
  BY DEF AppCreates
<1>3. srv \in Servers  BY DEF MwTypes
<1>4. srv.user # 0 /\ c \in srv.pol  BY <1>2 DEF Access
<1>5. c \in AnyNames  BY <1>3, <1>4, ServerType
<1>6. PICK s : s = srv  OBVIOUS
<1>7. PICK z : z = srv'  OBVIOUS
<1>8. /\ z \in Servers /\ z.cont = s.cont \cup {c} /\ z.user = s.user /\ (z.att <=> s.att)
      /\ z.pol = s.pol /\ z.acct = s.acct
  BY <1>2, <1>3, <1>5, <1>6, <1>7 DEF Servers
<1>9. MwTypes'  BY <1>1, <1>7, <1>8 DEF MwTypes
<1>10. MwControl'  BY <1>1 DEF MwControl
<1>11. KindOnly(z)
  <2>1. /\ \A d \in Containers : s.acct[d] = NoAcct
        /\ kind # "elasticsearch" => s.pol \cup s.cont \subseteq Containers
    BY <1>1, <1>6 DEF Underway, KindOnly, Policied
  <2>2. kind # "elasticsearch" => z.pol \cup z.cont \subseteq Containers
    BY <1>4, <1>6, <1>8, <2>1
  <2> QED  BY <1>1, <1>8, <2>1, <2>2 DEF KindOnly, Policied
<1>12. ASSUME NEW r, NEW i, Making(r, i, s)  PROVE Making(r, i, z)
  <2>1. kind \notin Sql \cup {"rabbitmq", "mongodb", "kvrocks"}  BY <1>1 DEF Policied, Sql
  <2> QED  BY <1>8, <1>12, <2>1 DEF Making
<1>13. ASSUME NEW r, NEW i, NEW b, Removing(r, i, s, b)  PROVE Removing(r, i, z, b)
  <2>1. kind \notin Sql \cup {"rabbitmq", "mongodb", "kvrocks"}  BY <1>1 DEF Policied, Sql
  <2> QED  BY <1>4, <1>6, <1>8, <1>13, <2>1 DEF Removing
<1>14. Underway'
  <2>1. Owes(task, s)  BY <1>6 DEF Underway, Owes
  <2>2. Owes(task, z)  BY <1>12, <1>13, <2>1 DEF Owes
  <2>3. Owes(task', srv') /\ KindOnly(srv')  BY <1>1, <1>7, <1>11, <2>2
  <2> QED  BY <1>1, <2>3, NextUnderway
<1>15. ConfigFile'
  <2>1. kind # "nats"  BY <1>1 DEF Policied
  <2> QED  BY <1>1, <2>1, ConfigKept
<1>16. Access(srv)' = Access(srv)  BY <1>1, <1>6, <1>7, <1>8 DEF Access
<1>17. DoneMeansServed'
  <2>1. SUFFICES ASSUME last.act \in {"ADD", "UPDATE"}, last.served, ~torn
                 PROVE  Serves(last.item)'
    BY <1>1 DEF DoneMeansServed
  <2>2. Serves(last.item)  BY <2>1 DEF DoneMeansServed
  <2>3. kind \notin Sql \cup {"nats", "rabbitmq", "mongodb", "kvrocks"}  BY <1>1 DEF Policied, Sql
  <2>4. /\ srv.user = last.item.pwd /\ last.item.want \subseteq srv.cont
        /\ Access(srv) = Granted(last.item)
    BY <2>2, <2>3 DEF Serves
  <2>6. Granted(last.item)' = Granted(last.item)  BY <1>1 DEF Granted, Prefixed
  <2>5. /\ srv'.user = last'.item.pwd /\ last'.item.want \subseteq srv'.cont
        /\ Access(srv)' = Granted(last.item)'
    BY <1>1, <1>6, <1>7, <1>8, <1>16, <2>4, <2>6
  <2> QED  BY <1>1, <2>3, <2>5 DEF Serves
<1>18. DoneMeansGone'
  <2>1. ~(last.act = "DELETE" /\ last.served)  BY <1>4 DEF DoneMeansGone
  <2> QED  BY <1>1, <2>1 DEF DoneMeansGone
<1> QED  BY <1>9, <1>10, <1>14, <1>15, <1>17, <1>18

\* The server is installed.
LEMMA InstalledKeeps ==
  ASSUME MwInv, Installed
  PROVE  MwInv'
<1> USE DEF MwInv
<1>1. /\ svc'
      /\ UNCHANGED <<kind, srv, file, init, obj, queue, task, last, torn, errors, upsets>>
  BY DEF Installed
<1>2. svc' \in BOOLEAN  BY DEF Installed
<1>3. MwTypes'  BY <1>1, <1>2 DEF MwTypes
<1>4. MwControl'  BY <1>1 DEF MwControl
<1>5. Underway'
  <2>1. KindOnly(srv') /\ Owes(task', srv')  BY <1>1 DEF Underway, Owes
  <2> QED  BY <1>1, <2>1, NextUnderway
<1>6. ConfigFile'
  <2>1. kind = "nats" /\ task # None /\ ~task.begin => FileTask(task', file, torn, Settled)
    BY <1>1, ConfigTask
  <2> QED  BY <1>1, <2>1, ConfigKept
<1>7. DoneMeansServed' /\ DoneMeansGone'  BY <1>1, DoneKept
<1> QED  BY <1>3, <1>4, <1>5, <1>6, <1>7

\* A new server.
LEMMA EmptyServer ==
  EmptySrv \in Servers /\ KindOnly(EmptySrv)
<1>1. NoAcct \in Accts  BY DEF NoAcct, Accts
<1>2. PICK a : a = [c \in Containers |-> NoAcct]  OBVIOUS
<1>3. a \in [Containers -> Accts] /\ \A c \in Containers : a[c] = NoAcct  BY <1>1, <1>2
<1>4. EmptySrv = [user |-> 0, att |-> FALSE, pol |-> {}, cont |-> {}, acct |-> a]
  BY <1>2 DEF EmptySrv
<1>5. EmptySrv \in Servers  BY <1>3, <1>4 DEF Servers
<1>6. EmptySrv.user = 0 /\ EmptySrv.cont = {} /\ EmptySrv.pol = {} /\ EmptySrv.acct = a
  BY <1>4
<1> QED  BY <1>3, <1>5, <1>6 DEF KindOnly

\* The server is removed with all it holds: no task serves the app any more.
LEMMA RemovedKeeps ==
  ASSUME MwInv, Removed
  PROVE  MwInv'
<1> USE DEF MwInv
<1>1. /\ kind # "nats" /\ upsets < MaxUpsets /\ upsets' = upsets + 1 /\ srv' = EmptySrv
      /\ last' = None /\ svc' \in BOOLEAN
      /\ task' = IF task = None THEN None ELSE [task EXCEPT !.served = FALSE]
      /\ UNCHANGED <<kind, file, init, obj, queue, torn, errors>>
  BY DEF Removed
<1>2. srv' \in Servers /\ KindOnly(srv')  BY <1>1, EmptyServer
<1>3. \/ task = None /\ task' = None
      \/ /\ task # None /\ task' \in Tasks /\ task' # None /\ (task'.begin <=> task.begin)
         /\ task'.item = task.item /\ task'.act = task.act /\ task'.rest = task.rest
         /\ ~task'.served
  <2>1. CASE task = None  BY <1>1, <2>1
  <2>2. CASE task # None
    <3>1. task \in Tasks  BY <2>2 DEF MwTypes
    <3>2. PICK t : t = task  OBVIOUS
    <3>3. PICK u : u = task'  OBVIOUS
    <3>4. t \in Tasks /\ u = [t EXCEPT !.served = FALSE]  BY <1>1, <2>2, <3>1, <3>2, <3>3
    <3>5. /\ u \in Tasks /\ (u.begin <=> t.begin) /\ u.item = t.item /\ u.act = t.act
          /\ u.rest = t.rest /\ ~u.served
      BY <3>4 DEF Tasks
    <3> QED  BY <2>2, <3>2, <3>3, <3>5, TaskParts
  <2> QED  BY <2>1, <2>2
<1>4. upsets' \in 0..MaxUpsets
  <2>1. upsets \in 0..MaxUpsets  BY DEF MwTypes
  <2> QED  BY <1>1, <2>1, MwBoundsAssumption
<1>5. MwTypes'  BY <1>1, <1>2, <1>3, <1>4 DEF MwTypes
<1>6. MwControl'  BY <1>1, <1>3 DEF MwControl
<1>7. Underway'
  <2>1. Owes(task', srv')  BY <1>3 DEF Underway, Owes
  <2> QED  BY <1>1, <1>2, <2>1, NextUnderway
<1>8. ConfigFile'  BY <1>1, ConfigKept
<1>9. DoneMeansServed' /\ DoneMeansGone'  BY <1>1, DoneNone
<1> QED  BY <1>5, <1>6, <1>7, <1>8, <1>9

\* The invariant holds at the start ...
LEMMA MwStarts ==
  ASSUME MwInit
  PROVE  MwInv
<1>1. /\ kind \in Kinds /\ srv = EmptySrv /\ file = [st |-> "absent", base |-> {}, user |-> 0]
      /\ init = IF kind = "nats" THEN "stat" ELSE "done"
      /\ obj = None /\ queue = <<>> /\ task = None /\ last = None
      /\ errors = 0 /\ upsets = 0
  BY DEF MwInit
<1>2. svc \in BOOLEAN /\ torn \in BOOLEAN /\ ~torn /\ (kind = "nats" => svc)  BY DEF MwInit
<1>3. file \in Files /\ file.st = "absent"  BY <1>1 DEF Files
<1>4. queue \in Seq(Requests) /\ DOMAIN queue = {}  BY <1>1
<1>5. errors \in 0..MaxErrors /\ upsets \in 0..MaxUpsets  BY <1>1, MwBoundsAssumption
<1>6. MwTypes  BY <1>1, <1>2, <1>3, <1>4, <1>5, EmptyServer DEF MwTypes
<1>7. MwControl  BY <1>1, <1>2, <1>4 DEF MwControl
<1>8. Underway  BY <1>1, EmptyServer DEF Underway
<1>9. AdminKept  BY <1>3 DEF AdminKept
<1>10. ConfigFile  BY <1>1, <1>3, <1>9 DEF ConfigFile
<1>11. None.act = "NONE"  BY DEF None
<1>12. DoneMeansServed /\ DoneMeansGone  BY <1>1, <1>11 DEF DoneMeansServed, DoneMeansGone
<1> QED  BY <1>6, <1>7, <1>8, <1>10, <1>12 DEF MwInv

\* ... and is kept by every step.
LEMMA MwSteps ==
  ASSUME MwInv, [MwNext]_mw_vars
  PROVE  MwInv'
<1>1. CASE UNCHANGED mw_vars
  <2>1. UNCHANGED <<kind, svc, srv, file, init, obj, queue, task, last, torn, errors, upsets>>
    BY <1>1 DEF mw_vars
  <2>2. MwTypes'  BY <2>1 DEF MwInv, MwTypes
  <2>3. MwControl'  BY <2>1 DEF MwInv, MwControl
  <2>4. Underway'
    <3>1. KindOnly(srv') /\ Owes(task', srv')  BY <2>1 DEF MwInv, Underway, Owes
    <3> QED  BY <2>1, <3>1, NextUnderway
  <2>5. ConfigFile'
    <3>1. kind = "nats" /\ task # None /\ ~task.begin => FileTask(task', file, torn, Settled)
      BY <2>1, ConfigTask DEF MwInv
    <3> QED  BY <2>1, <3>1, ConfigKept DEF MwInv
  <2>6. DoneMeansServed' /\ DoneMeansGone'  BY <2>1, DoneKept DEF MwInv
  <2> QED  BY <2>2, <2>3, <2>4, <2>5, <2>6 DEF MwInv
<1>2. CASE Take  BY <1>2, TakeKeeps
<1>3. CASE Open  BY <1>3, OpenKeeps, UnservedKeeps
<1>4. CASE CallOk  BY <1>4, CallOkKeeps
<1>5. CASE CallError  BY <1>5, CallErrorKeeps
<1>6. CASE LoadFails  BY <1>6, LoadFailsKeeps
<1>19. CASE WriteFails  BY <1>19, WriteFailsKeeps
<1>7. CASE Return  BY <1>7, ReturnKeeps
<1>8. CASE Panic  BY <1>8, PanicKeeps
<1>9. CASE CmStat  BY <1>9, CmStatKeeps
<1>10. CASE CmOpen  BY <1>10, CmOpenKeeps
<1>11. CASE CmWrite  BY <1>11, CmWriteKeeps
<1>12. CASE CreateObject  BY <1>12, CreateObjectKeeps
<1>13. CASE UpdateObject  BY <1>13, UpdateObjectKeeps
<1>14. CASE DeleteObject  BY <1>14, DeleteObjectKeeps
<1>15. CASE AppCreates  BY <1>15, AppCreatesKeeps
<1>16. CASE Installed  BY <1>16, InstalledKeeps
<1>17. CASE Removed  BY <1>17, RemovedKeeps
<1>18. CASE OperatorRestart  BY <1>18, RestartKeeps
<1> QED
  BY <1>1, <1>2, <1>3, <1>4, <1>5, <1>6, <1>7, <1>8, <1>9, <1>10, <1>11, <1>12, <1>13, <1>14,
     <1>15, <1>16, <1>17, <1>18, <1>19 DEF MwNext

\* The types of the run.
LEMMA MwTypesOK ==
  ASSUME MwTypes
  PROVE  MwTypeOK
<1>1. obj = None \/ obj \in [act : {"OBJ"}, want : SUBSET Containers, pwd : Pwds, all : BOOLEAN,
                              gen : 1..MaxGen]
  <2>1. CASE obj \in Objects  BY <2>1 DEF Objects
  <2> QED  BY <2>1 DEF MwTypes
<1>2. \A n \in DOMAIN queue : queue[n] \in Requests
  <2>1. queue \in Seq(Requests)  BY DEF MwTypes
  <2> QED  BY <2>1
<1>3. task = None \/ /\ task.act \in Acts /\ task.item \in Requests /\ task.conf \in Files
                     /\ {task.begin, task.clean, task.served} \subseteq BOOLEAN
                     /\ \A n \in DOMAIN task.rest : task.rest[n] \in Calls
  <2>1. CASE task \in Tasks
    <3>1. /\ task.act \in Acts /\ task.item \in Requests /\ task.begin \in BOOLEAN
          /\ task.rest \in Seq(Calls) /\ task.clean \in BOOLEAN /\ task.served \in BOOLEAN
          /\ task.conf \in Files
      BY <2>1, TaskParts
    <3>2. \A n \in DOMAIN task.rest : task.rest[n] \in Calls  BY <3>1
    <3> QED  BY <3>1, <3>2
  <2> QED  BY <2>1 DEF MwTypes
<1>4. last = None \/ last \in [act : Acts, item : Requests, clean : BOOLEAN, served : BOOLEAN]
  BY DEF MwTypes, Results
<1>5. srv \in [user : Pwds \cup {0}, att : BOOLEAN, pol : SUBSET (Containers \cup OwnNames),
              cont : SUBSET (Containers \cup OwnNames), acct : [Containers -> Accts]]
  BY DEF MwTypes, Servers, AnyNames
<1> QED  BY <1>1, <1>2, <1>3, <1>4, <1>5 DEF MwTypes, MwTypeOK

\* The inductive invariant of the other middlewares is an invariant.
THEOREM MwInvariant == MwSpec => []MwInv
<1>1. MwInit => MwInv  BY MwStarts
<1>2. MwInv /\ [MwNext]_mw_vars => MwInv'  BY MwSteps
<1> QED  BY <1>1, <1>2, PTL DEF MwSpec

\* For any containers, passwords, kinds and bounds: handler() returns nil for
\* a request of the other middlewares only when the app is served, or when what
\* it had is gone, whatever failed, was lost or was restarted before.
THEOREM DoneMeansDoneHolds == MwSpec => []DoneMeansDone
<1>1. MwInv => DoneMeansDone  BY MwTypesOK DEF MwInv, DoneMeansDone
<1> QED  BY <1>1, MwInvariant, PTL

\* For any number of restarts and requests, the NATS configuration that is in
\* place has the administrator and the settings of Config, unless the worker read
\* it between the ConfigMap handler's truncation and its write, or a write was cut
\* short by a restart or an error.
THEOREM AdminKeptHolds == MwSpec => []AdminKept
<1>1. MwInv => AdminKept  BY DEF MwInv, ConfigFile
<1> QED  BY <1>1, MwInvariant, PTL

=============================================================================
