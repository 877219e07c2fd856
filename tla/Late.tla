-------------------------------- MODULE Late --------------------------------
(***************************************************************************)
(* The core of DAGcore when answers come late.                             *)
(*                                                                         *)
(* A request carries the heights of the moment procedure_a picked its      *)
(* peer, so an answer may hold events that the node has stored since, its  *)
(* own included, and the listener hands every event of an answer to        *)
(* insert_event.  Module Gossip has the requests and answers themselves;   *)
(* here any stored event may come again, which leaves room for instances   *)
(* in which every node finalises frames.                                   *)
(***************************************************************************)
EXTENDS DAGcore

CONSTANT MaxAgain   \* bound: how often a stored event is inserted again

ASSUME MaxAgainAssumption == MaxAgain \in Nat

VARIABLE again      \* how often that has happened

lateVars == <<vars, again>>

LateInit == Init /\ again = 0

(* The listener gets an event it has stored: a leaf event is never sent,   *)
(* as every height list starts at the leaf events.                         *)
ReceiveAgain(n, e) ==
  /\ again < MaxAgain
  /\ again' = again + 1
  /\ ReceiveEvent(n, e)

LateNext ==
  \/ Next /\ UNCHANGED again
  \/ \E n \in Peers : \E e \in DOMAIN event[n] \ Leaves : ReceiveAgain(n, e)

LateSpec == LateInit /\ [][LateNext]_lateVars
=============================================================================
