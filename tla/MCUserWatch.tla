---------------------------- MODULE MCUserWatch ----------------------------
(***************************************************************************)
(* UserWatch on a small instance: one user name and two subscribers, one of*)
(* them registered without a URL.                                          *)
(***************************************************************************)
EXTENDS UserWatch

Upsets == faults + breaks + restarts

\* Bounds: beside the empty registration nothing goes wrong, and where two things go
\* wrong the user has one version less.  This keeps out registrations, changes of users
\* and upsets, on which no fairness is assumed.
FewUpsets == /\ registered \cap NoUrl # {} => Upsets = 0
             /\ Upsets = 2 => \A n \in Names : user[n].version < MaxVersion
=============================================================================
