----------------------------- MODULE MCPeerList -----------------------------
(* Small instances of PeerList for TLC. *)
EXTENDS PeerList

Ids4 == 1 .. 4
Ids6 == 1 .. 6
=============================================================================
