----------------------------- MODULE MCRestart -----------------------------
(* Two nodes that form two and one events. *)
EXTENDS Restart

MCNoHash == <<0, 0>>
Height21 == <<2, 1>>
=============================================================================
