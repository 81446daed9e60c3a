---------------------------- MODULE MCPGRestore ----------------------------
(***************************************************************************)
(* PGRestore on a small instance: one backup and one or two restores of it.*)
(***************************************************************************)
EXTENDS PGRestore

CONSTANTS b1, s1, s2

OneBackup == {b1}
OneRestore == {s1}
TwoRestores == {s1, s2}

\* A restart, or a failing call of the restore controller.
OneUpset == crashes + rfaults <= 1
=============================================================================
