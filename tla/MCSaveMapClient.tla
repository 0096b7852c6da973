-------------------------- MODULE MCSaveMapClient --------------------------
(***************************************************************************)
(* SaveMapClient for TLC: the command run in three terminals.              *)
(***************************************************************************)
EXTENDS SaveMapClient

CONSTANTS u1, u2, u3

ThreeClients == {u1, u2, u3}
=============================================================================
