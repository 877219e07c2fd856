--------------------------- MODULE PeerListProofs ---------------------------
(***************************************************************************)
(* A node never asks itself, and the offset it asks at is a halving of the *)
(* list, for every set of peer ids.                                        *)
(*                                                                         *)
(* The offset r stays between 1 and half of the list, and the creator's    *)
(* index below its size; the sum modulo the size is then another index.    *)
(* That r is the size divided by a power of two needs what the provers do  *)
(* not know of powers: they are had as numbers of subsets.                 *)
(***************************************************************************)
EXTENDS PeerList, FiniteSetTheorems, TLAPS

(* Inductive: r is meaningful as soon as the list has two peers. *)
PeerListInv ==
  /\ peers \subseteq PeerIds
  /\ creator \in PeerIds
  /\ running \in BOOLEAN
  /\ n = Cardinality(peers)
  /\ current = CurrentOf(peers, creator)
  /\ r \in Nat
  /\ n >= 2 => r \in 1 .. (n \div 2)
  /\ running => creator \in peers /\ n >= 2

(* The list is finite and its size a number (peer.rs:259, 362). *)
LEMMA SizeOfList ==
  ASSUME NEW ids \in SUBSET PeerIds
  PROVE  IsFiniteSet(ids) /\ Cardinality(ids) \in Nat
<1>1. IsFiniteSet(ids)
  BY PeerIdsAssumption, FS_Subset
<1> QED
  BY <1>1, FS_CardinalityType

(* A peer of the list has an index below its size (peer.rs:287). *)
LEMMA PositionInList ==
  ASSUME NEW ids \in SUBSET PeerIds, NEW id \in ids
  PROVE  Position(ids, id) \in 0 .. (Cardinality(ids) - 1)
<1> DEFINE before == {q \in ids : q < id}
<1>1. before \in SUBSET PeerIds /\ before \subseteq ids
  OBVIOUS
<1>2. before # ids
  BY PeerIdsAssumption
<1>3. IsFiniteSet(ids) /\ Cardinality(ids) \in Nat /\ Cardinality(before) \in Nat
  BY <1>1, SizeOfList
<1>4. Cardinality(before) < Cardinality(ids)
  BY <1>1, <1>2, <1>3, FS_Subset
<1>5. Position(ids, id) = Cardinality(before)
  BY DEF Position
<1> QED
  BY <1>3, <1>4, <1>5

(* The new list of add has one peer more (peer.rs:257-263). *)
LEMMA SizeAfterAdd ==
  ASSUME NEW ids \in SUBSET PeerIds, NEW id \in PeerIds, id \notin ids
  PROVE  Cardinality(ids \cup {id}) = Cardinality(ids) + 1
BY SizeOfList, FS_AddElement

(* Wrapping around by less than a full turn never ends where it began      *)
(* (the index arithmetic of next_peer, peer.rs:301).                       *)
LEMMA PartialTurn ==
  ASSUME NEW size \in Nat, NEW from \in 0 .. (size - 1), NEW by \in 1 .. (size - 1)
  PROVE  (from + by) % size # from /\ (from + by) % size \in 0 .. (size - 1)
<1>1. CASE from + by < size
  <2>1. (from + by) % size = from + by
    BY <1>1
  <2> QED
    BY <1>1, <2>1
<1>2. CASE from + by >= size
  <2>1. (from + by) % size = (from + by) - size
    BY <1>2
  <2> QED
    BY <1>2, <2>1
<1> QED
  BY <1>1, <1>2

(* Every operation on the list keeps the invariant (peer.rs:257-308). *)
LEMMA PeerListStep ==
  PeerListInv /\ [PeerListNext]_plvars => PeerListInv'
<1> SUFFICES ASSUME PeerListInv, [PeerListNext]_plvars
             PROVE  PeerListInv'
  OBVIOUS
<1>0. n \in Nat /\ IsFiniteSet(peers)
  BY SizeOfList DEF PeerListInv
<1>1. ASSUME NEW id \in PeerIds, add(id)
      PROVE  PeerListInv'
  <2>1. n' = n + 1
    BY <1>1, SizeAfterAdd DEF add, PeerListInv
  <2>2. n' >= 2 => r' \in 1 .. (n' \div 2)
    BY <1>0, <1>1, <2>1 DEF add
  <2>3. r' \in Nat
    BY <1>0, <1>1, <2>1 DEF add
  <2> QED
    BY <1>1, <2>1, <2>2, <2>3 DEF add, PeerListInv, CurrentOf, Position
<1>2. ASSUME NEW id \in PeerIds, set_creator(id)
      PROVE  PeerListInv'
  BY <1>2 DEF set_creator, PeerListInv, CurrentOf, Position
<1>3. ASSUME NEW id \in PeerIds, StartNode(id)
      PROVE  PeerListInv'
  BY <1>3 DEF StartNode, PeerListInv, CurrentOf, Position
<1>4. ASSUME next_peer
      PROVE  PeerListInv'
  <2>1. n >= 2 /\ r \in 1 .. (n \div 2)
    BY <1>4 DEF next_peer, PeerListInv
  <2>2. r' \in 1 .. (n \div 2) /\ r' \in Nat
    BY <1>0, <1>4, <2>1 DEF next_peer, NextR
  <2> QED
    BY <1>4, <2>1, <2>2 DEF next_peer, PeerListInv, CurrentOf, Position
<1>5. CASE UNCHANGED plvars
  BY <1>5 DEF plvars, PeerListInv, CurrentOf, Position
<1> QED
  BY <1>1, <1>2, <1>3, <1>4, <1>5 DEF PeerListNext

(* What the invariant says of the index that next_peer computes. *)
LEMMA NextIsAnother ==
  PeerListInv => NeverSelf
<1> SUFFICES ASSUME PeerListInv, running
             PROVE  /\ (current + r) % n # current
                    /\ (current + r) % n < Cardinality(peers)
  BY DEF NeverSelf
<1>1. n \in Nat /\ n >= 2 /\ n = Cardinality(peers) /\ creator \in peers
  BY SizeOfList DEF PeerListInv
<1>2. current \in 0 .. (n - 1)
  BY <1>1, PositionInList DEF PeerListInv, CurrentOf
<1>3. r \in 1 .. (n - 1)
  BY <1>1 DEF PeerListInv
<1>4. (current + r) % n # current /\ (current + r) % n \in 0 .. (n - 1)
  BY <1>1, <1>2, <1>3, PartialTurn
<1> QED
  BY <1>1, <1>4

(* The empty list of DAGPeerList::new (peer.rs:238-246). *)
LEMMA PeerListInitInv ==
  PeerListInit => PeerListInv
<1> SUFFICES ASSUME PeerListInit
             PROVE  PeerListInv
  OBVIOUS
<1>1. Cardinality(peers) = 0
  BY FS_EmptySet DEF PeerListInit
<1>2. running \in BOOLEAN /\ ~ running
  BY DEF PeerListInit
<1>3. n = 0 /\ r = 0 /\ current = CurrentOf(peers, creator)
  BY DEF PeerListInit, CurrentOf
<1>4. peers \subseteq PeerIds /\ creator \in PeerIds
  BY DEF PeerListInit
<1> QED
  BY <1>1, <1>2, <1>3, <1>4 DEF PeerListInv

(* procedure_a never asks its own node, and the index is inside the list   *)
(* (peer.rs:296-308; lib.rs:213).                                          *)
THEOREM NeverSelfHolds == PeerListSpec => []NeverSelf
BY PeerListInitInv, PeerListStep, NextIsAnother, PTL DEF PeerListSpec

(* The index with which insert_event looks up the signing peer is the      *)
(* creator's, whatever the order in which the list was set up              *)
(* (peer.rs:285-295, 366).                                                 *)
THEOREM CurrentIsCreatorHolds == PeerListSpec => []CurrentIsCreator
<1>1. PeerListInv => CurrentIsCreator
  BY DEF PeerListInv, CurrentIsCreator, CurrentOf, Position
<1> QED
  BY <1>1, PeerListInitInv, PeerListStep, PTL DEF PeerListSpec

-----------------------------------------------------------------------------
(* Powers of two, counted as subsets: those of 1 .. k + 1 are those of     *)
(* 1 .. k and the same with k + 1 added.                                   *)
Power(k) == 2 ^ k

LEMMA Subsets ==
  ASSUME NEW k \in Nat
  PROVE  /\ IsFiniteSet(SUBSET (1 .. k)) /\ Cardinality(SUBSET (1 .. k)) = Power(k)
         /\ Power(k) \in Nat
<1>1. IsFiniteSet(1 .. k) /\ Cardinality(1 .. k) = k
  BY FS_Interval
<1>2. IsFiniteSet(SUBSET (1 .. k)) /\ Cardinality(SUBSET (1 .. k)) = Power(k)
  BY <1>1, FS_SUBSET DEF Power
<1> QED
  BY <1>2, FS_CardinalityType

LEMMA PowerOfNext ==
  ASSUME NEW k \in Nat
  PROVE  Power(k + 1) = 2 * Power(k)
<1> DEFINE old == SUBSET (1 .. k)
           more == {A \cup {k + 1} : A \in old}
           plus == [A \in old |-> A \cup {k + 1}]
<1>1. SUBSET (1 .. (k + 1)) = old \cup more
  <2>1. ASSUME NEW B \in SUBSET (1 .. (k + 1)), k + 1 \notin B
        PROVE  B \in old
    BY <2>1
  <2>2. ASSUME NEW B \in SUBSET (1 .. (k + 1)), k + 1 \in B
        PROVE  B \in more
    <3>1. B \ {k + 1} \in old
      OBVIOUS
    <3>2. B = (B \ {k + 1}) \cup {k + 1}
      BY <2>2
    <3> QED
      BY <3>1, <3>2
  <2>3. ASSUME NEW B \in old \cup more
        PROVE  B \in SUBSET (1 .. (k + 1))
    OBVIOUS
  <2> QED
    BY <2>1, <2>2, <2>3
<1>2. old \cap more = {}
  OBVIOUS
<1>3. plus \in Bijection(old, more)
  <2>1. plus \in [old -> more] /\ \A B \in more : \E A \in old : plus[A] = B
    OBVIOUS
  <2>2. ASSUME NEW A \in old, NEW B \in old, plus[A] = plus[B]
        PROVE  A = B
    <3>1. k + 1 \notin A /\ k + 1 \notin B
      OBVIOUS
    <3>2. A \cup {k + 1} = B \cup {k + 1}
      BY <2>2
    <3> QED
      BY <3>1, <3>2
  <2> HIDE DEF plus, more, old
  <2>3. plus \in Injection(old, more)
    BY <2>1, <2>2 DEF Injection, IsInjective
  <2>4. plus \in Surjection(old, more)
    BY <2>1 DEF Surjection
  <2> QED
    BY <2>3, <2>4 DEF Bijection
<1>4. IsFiniteSet(old) /\ Cardinality(old) = Power(k) /\ Power(k) \in Nat
  BY Subsets
<1>5. IsFiniteSet(more) /\ Cardinality(more) = Power(k)
  BY <1>3, <1>4, FS_Bijection DEF ExistsBijection
<1>6. Cardinality(old \cup more) = Power(k) + Power(k)
  <2> HIDE DEF more, old
  <2>1. Cardinality(old \cup more)
          = Cardinality(old) + Cardinality(more) - Cardinality(old \cap more)
    BY <1>4, <1>5, FS_Union
  <2>2. Cardinality(old \cap more) = 0
    BY <1>2, FS_EmptySet
  <2> QED
    BY <1>4, <1>5, <2>1, <2>2
<1>7. k + 1 \in Nat
  OBVIOUS
<1>8. Cardinality(SUBSET (1 .. (k + 1))) = Power(k + 1)
  BY <1>7, Subsets
<1>9. Power(k) + Power(k) = 2 * Power(k)
  BY <1>4
<1> HIDE DEF plus, more, old
<1> QED
  BY <1>1, <1>6, <1>8, <1>9

LEMMA PowerOfOne == Power(1) = 2
<1>1. Power(0) = 1
  <2>1. 1 .. 0 = {} /\ SUBSET {} = {{}}
    OBVIOUS
  <2> QED
    BY <2>1, Subsets, FS_Singleton
<1> QED
  BY <1>1, PowerOfNext

(* Halving a rounded-down quotient halves the exact one (peer.rs:303).     *)
LEMMA HalfOfQuotient ==
  ASSUME NEW m \in Nat, NEW p \in Nat, p > 0
  PROVE  (m \div p) \div 2 = m \div (2 * p)
OBVIOUS

LEMMA QuotientAtLeast ==
  ASSUME NEW m \in Nat, NEW p \in Nat, p > 0, m \div p >= 2
  PROVE  2 * p <= m
OBVIOUS

-----------------------------------------------------------------------------
(* The number of halvings is below the power it stands for, and so below   *)
(* the size of the list.                                                   *)
Halving(size, round) ==
  \E k \in 1 .. size : round = size \div Power(k) /\ k < Power(k)

HalvingInv == PeerListInv /\ (n >= 2 => Halving(n, r))

(* add starts the round robin at half of the list (peer.rs:259-260), and   *)
(* so does next_peer when it has come down to 1 (peer.rs:305).             *)
LEMMA HalvingStarts ==
  ASSUME NEW size \in Nat, size >= 2
  PROVE  Halving(size, size \div 2)
BY PowerOfOne DEF Halving

(* next_peer halves an offset above 1 (peer.rs:302-303).                   *)
LEMMA HalvingGoesOn ==
  ASSUME NEW size \in Nat, NEW round, Halving(size, round), round > 1
  PROVE  Halving(size, round \div 2)
<1>1. PICK k \in 1 .. size : round = size \div Power(k) /\ k < Power(k)
  BY DEF Halving
<1>2. Power(k) \in Nat /\ Power(k + 1) = 2 * Power(k)
  <2>1. k \in Nat
    BY <1>1
  <2> QED
    BY <2>1, Subsets, PowerOfNext
<1>3. round \div 2 = size \div Power(k + 1)
  BY <1>1, <1>2, HalfOfQuotient
<1>4. size \div Power(k) >= 2
  BY <1>1, <1>2
<1>5. Power(k + 1) <= size
  BY <1>1, <1>2, <1>4, QuotientAtLeast
<1>6. k + 1 < Power(k + 1)
  BY <1>1, <1>2
<1>7. k + 1 \in 1 .. size
  BY <1>1, <1>2, <1>5, <1>6
<1> QED
  BY <1>3, <1>6, <1>7 DEF Halving

LEMMA HalvingStep ==
  HalvingInv /\ [PeerListNext]_plvars => HalvingInv'
<1> SUFFICES ASSUME HalvingInv, [PeerListNext]_plvars, n' >= 2
             PROVE  Halving(n', r')
  BY PeerListStep DEF HalvingInv
<1>0. n \in Nat /\ n' \in Nat
  BY PeerListStep, SizeOfList DEF HalvingInv, PeerListInv
<1>1. ASSUME NEW id \in PeerIds, add(id)
      PROVE  Halving(n', r')
  BY <1>0, <1>1, HalvingStarts DEF add
<1>2. ASSUME NEW id \in PeerIds, set_creator(id) \/ StartNode(id)
      PROVE  Halving(n', r')
  BY <1>2 DEF set_creator, StartNode, HalvingInv
<1>3. ASSUME next_peer
      PROVE  Halving(n', r')
  <2>1. n' = n /\ r' = NextR(r) /\ Halving(n, r)
    BY <1>3 DEF next_peer, HalvingInv
  <2>2. CASE r > 1
    BY <1>0, <2>1, <2>2, HalvingGoesOn DEF NextR
  <2>3. CASE ~ (r > 1)
    BY <1>0, <2>1, <2>3, HalvingStarts DEF NextR
  <2> QED
    BY <2>2, <2>3
<1>4. CASE UNCHANGED plvars
  BY <1>4 DEF plvars, HalvingInv
<1> QED
  BY <1>1, <1>2, <1>3, <1>4 DEF PeerListNext

(* The offset asked next is the size of the present list halved at least   *)
(* once, never the rest of an older list (peer.rs:259-260, 302-306).       *)
THEOREM OffsetIsHalvingHolds == PeerListSpec => []OffsetIsHalving
<1>1. PeerListInit => HalvingInv
  BY PeerListInitInv DEF HalvingInv, PeerListInit
<1>2. HalvingInv => OffsetIsHalving
  <2> SUFFICES ASSUME HalvingInv, running
               PROVE  /\ r > 0
                      /\ \E k \in 1 .. Cardinality(peers) :
                           r = Cardinality(peers) \div (2 ^ k)
    BY DEF OffsetIsHalving
  <2>1. n \in Nat /\ n = Cardinality(peers) /\ n >= 2
    BY SizeOfList DEF HalvingInv, PeerListInv
  <2>2. r \in 1 .. (n \div 2) /\ Halving(n, r)
    BY <2>1 DEF HalvingInv, PeerListInv
  <2> QED
    BY <2>1, <2>2 DEF Halving, Power
<1> QED
  BY <1>1, <1>2, HalvingStep, PTL DEF PeerListSpec
=============================================================================
