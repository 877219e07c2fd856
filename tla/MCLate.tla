------------------------------- MODULE MCLate -------------------------------
(* Two nodes and a late answer. *)
EXTENDS Late

MCNoHash == <<0, 0>>
Height32 == <<3, 2>>
=============================================================================
