------------------------------ MODULE PeerList ------------------------------
(***************************************************************************)
(* DAGPeerList (peer.rs): which peer procedure_a asks next.                *)
(*                                                                         *)
(* The list is set up by the application (add, set_creator, or read from a *)
(* file), DAGcore::new sets the creator, and procedure_a then calls        *)
(* next_peer for ever.  The Vec is sorted by peer id after every change    *)
(* and ids are distinct, so the set of ids stands for it and an index is a *)
(* position in that order.                                                 *)
(***************************************************************************)
EXTENDS Naturals, FiniteSets

CONSTANT PeerIds

ASSUME PeerIdsAssumption == IsFiniteSet(PeerIds) /\ PeerIds \subseteq Nat

VARIABLES
  peers,    \* the ids in the list
  n,        \* "number of peers; the size of the peer list"
  r,        \* "round robin number"
  creator,  \* id of the own node
  current,  \* index of the creator in the list
  running,  \* DAGcore::new has taken the list
  next      \* the index next_peer returned last

plvars == <<peers, n, r, creator, current, running, next>>

(* The index in the sorted list of the peer with this id. *)
Position(ids, id) == Cardinality({q \in ids : q < id})

(* The position never searched for. *)
CurrentOf_first(ids, id) == 0

(* sort_peers: 0 for a creator that is not in the list. *)
CurrentOf(ids, id) == IF id \in ids THEN Position(ids, id) ELSE 0

(* DAGPeerList::new.  Default::default() of the id is some id. *)
PeerListInit ==
  /\ peers = {} /\ n = 0 /\ r = 0 /\ current = 0
  /\ creator \in PeerIds
  /\ running = FALSE
  /\ next = 0

(* add: push, then n, r, sort_peers. *)
add(id) ==
  /\ ~ running
  /\ id \in PeerIds \ peers
  /\ peers' = peers \cup {id}
  /\ n' = Cardinality(peers')
  /\ r' = n' \div 2
  /\ current' = CurrentOf(peers', creator)
  /\ UNCHANGED <<creator, running, next>>

(* set_creator. *)
set_creator(id) ==
  /\ ~ running
  /\ creator' = id
  /\ current' = CurrentOf(peers, id)
  /\ UNCHANGED <<peers, n, r, running, next>>

(* DAGcore::new sets the configured creator and the threads start.  A list *)
(* of less than two peers, or without the creator, is not supported:       *)
(* procedure_a would ask itself and panic.                                 *)
StartNode(id) ==
  /\ ~ running
  /\ id \in peers
  /\ Cardinality(peers) >= 2
  /\ running' = TRUE
  /\ creator' = id
  /\ current' = CurrentOf(peers, id)
  /\ UNCHANGED <<peers, n, r, next>>

(* Plausible slips in the halving of r: restart at n - 1, halve down to 0, *)
(* stop above 1.                                                           *)
NextR_from_n(round) == IF round > 1 THEN round \div 2 ELSE n - 1
NextR_to_zero(round) == IF round > 0 THEN round \div 2 ELSE n \div 2
NextR_above_one(round) == IF round > 2 THEN round \div 2 ELSE n \div 2

(* The offset is halved down to 1, then starts again. *)
NextR(round) == IF round > 1 THEN round \div 2 ELSE n \div 2

next_peer ==
  /\ running
  /\ next' = (current + r) % n
  /\ r' = NextR(r)
  /\ UNCHANGED <<peers, n, creator, current, running>>

PeerListNext ==
  \/ \E id \in PeerIds : add(id) \/ set_creator(id) \/ StartNode(id)
  \/ next_peer

PeerListSpec == PeerListInit /\ [][PeerListNext]_plvars

(* procedure_a calls next_peer once per round, for ever. *)
FairPeerListSpec == PeerListSpec /\ WF_plvars(next_peer)

-----------------------------------------------------------------------------
(* get_peers_from_file appends and sorts; new_with_content takes a Vec as  *)
(* it is (here: one that is sorted already).  Neither sets n or r.         *)
get_peers_from_file(ids) ==
  /\ ~ running
  /\ ids # {} /\ ids \cap peers = {}
  /\ peers' = peers \cup ids
  /\ current' = CurrentOf(peers', creator)
  /\ UNCHANGED <<n, r, creator, running, next>>

new_with_content(ids) ==
  /\ ~ running
  /\ peers' = ids /\ n' = 0 /\ r' = 0 /\ current' = 0
  /\ creator' \in PeerIds
  /\ UNCHANGED <<running, next>>

FileNext ==
  \E ids \in SUBSET PeerIds : get_peers_from_file(ids) \/ new_with_content(ids)

FilePeerListSpec == PeerListInit /\ [][PeerListNext \/ FileNext]_plvars

-----------------------------------------------------------------------------
(* procedure_a never asks its own node, whose events it would take as      *)
(* other-parents, and never indexes past the list (peer.rs:296-308).       *)
NeverSelf ==
  running => /\ (current + r) % n # current
             /\ (current + r) % n < Cardinality(peers)

(* The offset asked next is one of those DAGcore!Halvings allows: the size *)
(* of the list halved at least once, never the rest of an older list       *)
(* (peer.rs:259-260, 302-306).                                             *)
OffsetIsHalving ==
  running => r > 0 /\ \E k \in 1 .. Cardinality(peers) : r = Cardinality(peers) \div (2 ^ k)

(* The index kept for the creator is where the sort has put it, whatever   *)
(* the order of add and set_creator (peer.rs:285-295); get_creator_id,     *)
(* with which insert_event signs, relies on it.                            *)
CurrentIsCreator ==
  creator \in peers => Cardinality({q \in peers : q < creator}) = current

(* The successor in the ring of peers is asked again and again, whatever   *)
(* the size of the list: the graph of who asks whom stays connected, which *)
(* the fairness of DAGcore rests on.                                       *)
SuccessorAskedForEver ==
  []<>(running) => []<>(running /\ next = (current + 1) % n)

(* peer.rs:185: n is the "number of peers; the size of the peer list".     *)
PeerCountIsLen == n = Cardinality(peers)
=============================================================================
