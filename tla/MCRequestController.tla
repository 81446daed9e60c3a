------------------------ MODULE MCRequestController ------------------------
(***************************************************************************)
(* RequestController on small instances: model values for the requests and *)
(* the databases; the bounds are given by the configurations.              *)
(***************************************************************************)
EXTENDS RequestController

CONSTANTS r1, r2, d1, d2

OneRequest == {r1}
TwoRequests == {r1, r2}
OneDb == {d1}
TwoDbs == {d1, d2}
DistDb == {d1}

\* One upset of the operator or of the cluster per behaviour: a restart, a
\* re-list or a cluster that is created anew; the latter with the distributed
\* database only.
OneUpset ==
    /\ crashes + relists + recreates <= 1
    /\ recreates = 1 =>
         \A r \in Requests : /\ api[r].dbs \subseteq DistDb
                             /\ \A p \in Procs : task[p].todo \subseteq DistDb
                             /\ \A n \in Nodes : dbs[n][r] \subseteq DistDb
=============================================================================
