---------------------------- MODULE MCPGCluster ----------------------------
(* PGCluster with two distributed databases.  The request for one of them   *)
(* is in the namespace of the cluster, and its name without the namespace   *)
(* happens to be that of the other database: scaling finds it on the master *)
(* when the other has been requested, and fails when it has not.            *)
EXTENDS PGCluster

CONSTANTS d1, d2, n1

TwoDbs == {d1, d2}
SecondDb == {d2}
FirstIsRawName == [d \in TwoDbs |-> IF d = d1 THEN n1 ELSE d1]

\* The request for the second database is only listed.  Databases, and changes of
\* the administrator and restarts, in separate behaviours: they meet only in calls
\* that fail.
OneConcern == /\ on[d2] = {}
              /\ on[d1] # {} => def.admin = 0 /\ sts.cred = 0 /\ restarts = 0
=============================================================================
