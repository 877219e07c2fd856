------------------------------ MODULE MCGossip ------------------------------
(* Small instances of Gossip for TLC. *)
EXTENDS Gossip

MCNoHash == <<0, 0>>
Height21 == <<2, 1>>
Height22 == <<2, 2>>
=============================================================================
