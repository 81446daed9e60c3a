----------------------------- MODULE MCPGBackup -----------------------------
(***************************************************************************)
(* PGBackup on small instances.                                            *)
(***************************************************************************)
EXTENDS PGBackup, TLC

CONSTANTS b1, b2

TwoBackups == {b1, b2}
Names == Permutations(TwoBackups)
=============================================================================
