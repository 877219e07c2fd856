------------------------------- MODULE Spread -------------------------------
(***************************************************************************)
(* What the spreading of events promises to the consensus: an event has    *)
(* its parents once and for all, every node forms one chain of events, and *)
(* whoever holds an event holds its parents.  Who asks whom, and when, is  *)
(* not said here; modules DAGcore and Gossip implement this specification. *)
(***************************************************************************)
EXTENDS Naturals

CONSTANTS
  Nodes,
  Leaves     \* the events everybody holds from the start

VARIABLES
  formed,    \* the parents of every event formed so far
  held       \* held[n]: the events that node n stores

spreadVars == <<formed, held>>

SpreadInit ==
  /\ formed = [e \in Leaves |-> {}]
  /\ held = [n \in Nodes |-> Leaves]

Hold(n, e) == held' = [held EXCEPT ![n] = @ \cup {e}]

(* Node n forms the event that follows the last one of its own.            *)
Form(n, e, parents) ==
  /\ e[1] = n
  /\ e \notin DOMAIN formed
  /\ <<n, e[2] - 1>> \in parents
  /\ formed' = [x \in DOMAIN formed \cup {e} |-> IF x = e THEN parents ELSE formed[x]]
  /\ Hold(n, e)

(* An event reaches n after its parents.                                   *)
Learn(n, e) ==
  /\ e \in DOMAIN formed \ held[n]
  /\ formed[e] \subseteq held[n]
  /\ Hold(n, e)
  /\ UNCHANGED formed

SpreadNext ==
  \E n \in Nodes :
    \/ \E e \in DOMAIN formed' : \E parents \in SUBSET held[n] : Form(n, e, parents)
    \/ \E e \in DOMAIN formed : Learn(n, e)

SpreadSpec == SpreadInit /\ [][SpreadNext]_spreadVars
=============================================================================
