----------------------------- MODULE MCKVRocks -----------------------------
(***************************************************************************)
(* KVRocks on small instances.                                             *)
(***************************************************************************)
EXTENDS KVRocks

CONSTANTS b1, r1

OneBackup == {b1}
OneRestore == {r1}

\* A failing call or a restart.
OneUpset == faults + crashes <= 1
=============================================================================
