------------------------------ MODULE MCVault ------------------------------
(* A user with an account and one without; the application may use two      *)
(* workspaces, and the name of one ends in that of a user.                  *)
EXTENDS Vault

MCUsers == {<<"u">>, <<"v">>}
MCKnown == {<<"u">>}
MCNames == {<<"a">>, <<"a", "-", "v">>}
MCAppPerm == << <<"a">>, <<"a", "-", "v">> >>

=============================================================================
