---------------------------- MODULE MCConnections ----------------------------
(* Values of the constants of Connections for TLC.                           *)
EXTENDS Connections

PrimaryAndBackup == <<"p", "b">>
TwoLists == {<<"a", "b">>, <<"a", "bad">>}
=============================================================================
