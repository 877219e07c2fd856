----------------------------- MODULE MCDAGcore -----------------------------
(* A small instance of DAGcore for TLC.  An all-zero hash is not the hash  *)
(* of an event: peers count from 1.                                        *)
EXTENDS DAGcore

MCNoHash == <<0, 0>>

(* How many events each peer may create. *)
Height43 == <<4, 3>>
=============================================================================
