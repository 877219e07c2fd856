--------------------------- MODULE DAGcoreProofs ---------------------------
(***************************************************************************)
(* Safety of module DAGcore for every number of peers and every bound on   *)
(* the heights.                                                            *)
(*                                                                         *)
(* The argument.  A node finalises frame f only when it has a root above f *)
(* of every peer.  Frame numbers do not decrease along a peer's chain of   *)
(* events and a node knows a prefix of every chain, so an event the node   *)
(* does not have yet is above f, and so is the self-parent it is inserted  *)
(* on (lemma Fresh).  Hence the frame number of a new event depends only   *)
(* on roots that no node has pruned, and all nodes compute the one number  *)
(* its creator computed (lemma InsertFrame).                               *)
(* The laws of the flag tables, for arbitrary tables, come first.          *)
(***************************************************************************)
EXTENDS DAGcore, MinMax

-----------------------------------------------------------------------------
(* The flag tables. *)

(* Every entry of the table has the frame that fr gives its key. *)
Consistent(ft, fr) == \A k \in DOMAIN ft : ft[k] = fr[k]

(* The strict merge of consistent tables is consistent and has exactly the *)
(* keys of either table at the frame asked for (flag_table.rs:37-54).      *)
LEMMA StrictMerge ==
  ASSUME NEW ft1, NEW ft2, NEW fr, NEW f, Consistent(ft1, fr), Consistent(ft2, fr)
  PROVE  /\ \A k : k \in DOMAIN strict_merge_flag_table(ft1, ft2, f)
                    <=> k \in DOMAIN ft1 \cup DOMAIN ft2 /\ fr[k] = f
         /\ Consistent(strict_merge_flag_table(ft1, ft2, f), fr)
BY DEF strict_merge_flag_table, KeysAt, Consistent

(* The open merge of consistent tables is consistent; below the floor it   *)
(* keeps the keys that only the second table has (flag_table.rs:60-84).    *)
LEMMA OpenMerge ==
  ASSUME NEW ft1, NEW ft2, NEW fr, NEW f \in Nat,
         Consistent(ft1, fr), Consistent(ft2, fr),
         \A k \in DOMAIN ft1 : ft1[k] \in Nat
  PROVE  /\ \A k : k \in DOMAIN open_merge_flag_table(ft1, ft2, f)
                    <=> \/ k \in DOMAIN ft1 /\ fr[k] >= f
                        \/ k \in DOMAIN ft2 \ DOMAIN ft1
         /\ Consistent(open_merge_flag_table(ft1, ft2, f), fr)
         /\ open_merge_flag_table(ft1, ft2, f)
              = [k \in DOMAIN open_merge_flag_table(ft1, ft2, f) |->
                   open_merge_flag_table(ft1, ft2, f)[k]]
<1>. DEFINE kept  == {k \in DOMAIN ft1 : ft1[k] >= f}
            taken == {k \in DOMAIN ft2 : k \in DOMAIN ft1 => ft1[k] > ft2[k]}
<1>1. kept = {k \in DOMAIN ft1 : fr[k] >= f}
  BY DEF Consistent
<1>2. taken = DOMAIN ft2 \ DOMAIN ft1
  BY DEF Consistent
<1>3. open_merge_flag_table(ft1, ft2, f)
        = [k \in kept \cup taken |-> IF k \in taken THEN ft2[k] ELSE ft1[k]]
  BY DEF open_merge_flag_table
<1>4. \A k \in kept : ft1[k] = fr[k]
  BY DEF Consistent
<1>5. \A k \in taken : ft2[k] = fr[k]
  BY DEF Consistent
<1>6. \A k : k \in kept \cup taken <=> \/ k \in DOMAIN ft1 /\ fr[k] >= f
                                       \/ k \in DOMAIN ft2 \ DOMAIN ft1
  BY <1>1, <1>2
<1>. HIDE DEF kept, taken
<1>. QED  BY <1>3, <1>4, <1>5, <1>6 DEF Consistent

(* insert adds a consistent entry. *)
LEMMA InsertConsistent ==
  ASSUME NEW ft, NEW fr, NEW k, Consistent(ft, fr)
  PROVE  /\ DOMAIN insert(ft, k, fr[k]) = DOMAIN ft \cup {k}
         /\ Consistent(insert(ft, k, fr[k]), fr)
         /\ insert(ft, k, fr[k]) = [x \in DOMAIN insert(ft, k, fr[k]) |-> insert(ft, k, fr[k])[x]]
BY DEF insert, Consistent

(* A creator is in the creator table if and only if a stored key of its is *)
(* at or above the minimum (store.rs:59-98).                               *)
LEMMA DeriveDomain ==
  ASSUME NEW ft, NEW m, NEW creator
  PROVE  \A c : c \in DOMAIN derive_creator_flag_table(ft, m, creator)
                <=> \E k \in DOMAIN ft : ft[k] >= m /\ k \in DOMAIN creator /\ creator[k] = c
BY DEF derive_creator_flag_table

(* The frame a creator table has for a creator is the frame of one of that *)
(* creator's stored keys, when the frames are bounded.                     *)
LEMMA DeriveValue ==
  ASSUME NEW ft, NEW m, NEW creator, NEW b \in Nat,
         \A k \in DOMAIN ft : ft[k] \in Nat /\ ft[k] <= b,
         NEW c \in DOMAIN derive_creator_flag_table(ft, m, creator)
  PROVE  \E k \in DOMAIN ft :
           /\ k \in DOMAIN creator /\ creator[k] = c
           /\ derive_creator_flag_table(ft, m, creator)[c] = ft[k]
           /\ ft[k] >= m
<1>. DEFINE found == {k \in DOMAIN ft : ft[k] >= m /\ k \in DOMAIN creator}
            S == {ft[k] : k \in {j \in found : creator[j] = c}}
<1>1. c \in {creator[k] : k \in found}
  BY DEF derive_creator_flag_table
<1>2. derive_creator_flag_table(ft, m, creator)[c] = Max(S)
  BY <1>1 DEF derive_creator_flag_table
<1>3. S \subseteq Nat /\ S # {} /\ \A x \in S : x <= b
  BY <1>1
<1>4. Max(S) \in S
  <2>. HIDE DEF S
  <2>. QED  BY <1>3, MaxProperty
<1>. QED  BY <1>2, <1>4

(* min_frame of a nonempty creator table is one of its frames, and none is *)
(* smaller (flag_table.rs:86-102).                                         *)
LEMMA MinFrame ==
  ASSUME NEW cft, DOMAIN cft # {}, \A c \in DOMAIN cft : cft[c] \in Nat
  PROVE  /\ min_frame(cft) \in Nat
         /\ \E c \in DOMAIN cft : min_frame(cft) = cft[c]
         /\ \A c \in DOMAIN cft : min_frame(cft) <= cft[c]
<1>1. Range(cft) \subseteq Nat /\ Range(cft) # {}
  BY DEF Range
<1>2. Min(Range(cft)) \in Range(cft) /\ \A x \in Range(cft) : Min(Range(cft)) <= x
  BY <1>1, MinProperty
<1>. QED  BY <1>1, <1>2 DEF min_frame, Range
-----------------------------------------------------------------------------
(* The algebra of the tables that the agreement of the nodes rests on.     *)

(* A table with frame numbers, and the part of it at or above floor f.     *)
Table(ft) == ft \in [DOMAIN ft -> Nat]
Above(ft, f) == [k \in {j \in DOMAIN ft : ft[j] >= f} |-> ft[k]]

Agree(a, b) == \A k \in DOMAIN a \cap DOMAIN b : a[k] = b[k]

(* What an open merge of tables that agree has above a floor no lower.     *)
LEMMA OpenMergeAbove ==
  ASSUME NEW a, NEW b, Table(a), Table(b), Agree(a, b), NEW low \in Nat, NEW f \in Nat, low <= f,
         NEW m, m = open_merge_flag_table(a, b, low)
  PROVE  /\ Table(m) /\ Agree(m, a) /\ Agree(m, b)
         /\ \A k : k \in DOMAIN m /\ m[k] >= f
               <=> (k \in DOMAIN a /\ a[k] >= f) \/ (k \in DOMAIN b /\ b[k] >= f)
         /\ \A k \in DOMAIN m : k \in DOMAIN a \/ k \in DOMAIN b
<1>. DEFINE kept == {k \in DOMAIN a : a[k] >= low}
            taken == {k \in DOMAIN b : k \in DOMAIN a => a[k] > b[k]}
<1>1. m = [k \in kept \cup taken |-> IF k \in taken THEN b[k] ELSE a[k]]
  BY DEF open_merge_flag_table
<1>2. taken = DOMAIN b \ DOMAIN a
  BY DEF Agree, Table
<1>3. \A k \in DOMAIN m : \/ k \in DOMAIN a /\ a[k] >= low /\ m[k] = a[k]
                          \/ k \in DOMAIN b \ DOMAIN a /\ m[k] = b[k]
  BY <1>1, <1>2
<1>4. \A k : k \in DOMAIN m <=> (k \in DOMAIN a /\ a[k] >= low) \/ k \in DOMAIN b \ DOMAIN a
  BY <1>1, <1>2
<1>5. m = [k \in DOMAIN m |-> m[k]]
  BY <1>1
<1>6. Table(m)
  BY <1>3, <1>5 DEF Table
<1>7. Agree(m, a) /\ Agree(m, b)
  BY <1>3 DEF Agree
<1>8. ASSUME NEW k
      PROVE  k \in DOMAIN m /\ m[k] >= f
               <=> (k \in DOMAIN a /\ a[k] >= f) \/ (k \in DOMAIN b /\ b[k] >= f)
  BY <1>3, <1>4 DEF Agree, Table
<1>9. \A k \in DOMAIN m : k \in DOMAIN a \/ k \in DOMAIN b
  BY <1>3
<1>. QED  BY <1>6, <1>7, <1>8, <1>9

(* Two tables with the same entries above a floor are the same above it.   *)
LEMMA AboveEqual ==
  ASSUME NEW a, NEW b, NEW f, Agree(a, b),
         \A k : k \in DOMAIN a /\ a[k] >= f <=> k \in DOMAIN b /\ b[k] >= f
  PROVE  Above(a, f) = Above(b, f)
<1>1. {k \in DOMAIN a : a[k] >= f} = {k \in DOMAIN b : b[k] >= f}
  OBVIOUS
<1>2. \A k \in {j \in DOMAIN a : a[j] >= f} : a[k] = b[k]
  BY DEF Agree
<1>. QED  BY <1>1, <1>2 DEF Above

(* It does not matter which parent's table is merged into which: at and    *)
(* above the floor the open merge is symmetric, although the code applies  *)
(* the floor to one table only (flag_table.rs:60-84).                      *)
THEOREM OpenMergeSymmetric ==
  ASSUME NEW a, NEW b, Table(a), Table(b), Agree(a, b), NEW f \in Nat
  PROVE  Above(open_merge_flag_table(a, b, f), f) = Above(open_merge_flag_table(b, a, f), f)
<1>. DEFINE ab == open_merge_flag_table(a, b, f)
            ba == open_merge_flag_table(b, a, f)
<1>1. Agree(b, a)
  BY DEF Agree
<1>2. /\ Agree(ab, a) /\ Agree(ab, b)
      /\ \A k : k \in DOMAIN ab /\ ab[k] >= f
            <=> (k \in DOMAIN a /\ a[k] >= f) \/ (k \in DOMAIN b /\ b[k] >= f)
  BY OpenMergeAbove
<1>3. /\ Agree(ba, a) /\ Agree(ba, b)
      /\ \A k : k \in DOMAIN ba /\ ba[k] >= f
            <=> (k \in DOMAIN a /\ a[k] >= f) \/ (k \in DOMAIN b /\ b[k] >= f)
      /\ \A k \in DOMAIN ba : k \in DOMAIN b \/ k \in DOMAIN a
  BY <1>1, OpenMergeAbove
<1>. HIDE DEF ab, ba
<1>4. Agree(ab, ba)
  BY <1>2, <1>3 DEF Agree
<1>. QED  BY <1>2, <1>3, <1>4, AboveEqual DEF ab, ba

(* Pruning early or late is the same to whoever looks at or above a later  *)
(* floor: a node that merged two tables before it finalised more frames    *)
(* has the same entries as one that merged them afterwards, in another     *)
(* order (core.rs:231-236, flag_table.rs:60-84).                           *)
THEOREM PruningCommutes ==
  ASSUME NEW a, NEW b, NEW c, Table(a), Table(b), Table(c),
         Agree(a, b), Agree(b, c), Agree(a, c),
         NEW low \in Nat, NEW f \in Nat, low <= f
  PROVE  Above(open_merge_flag_table(open_merge_flag_table(a, b, low), c, f), f)
           = Above(open_merge_flag_table(a, open_merge_flag_table(b, c, low), f), f)
<1>. DEFINE ab == open_merge_flag_table(a, b, low)
            bc == open_merge_flag_table(b, c, low)
            left == open_merge_flag_table(ab, c, f)
            right == open_merge_flag_table(a, bc, f)
<1>1. /\ Table(ab) /\ Agree(ab, a) /\ Agree(ab, b)
      /\ \A k : k \in DOMAIN ab /\ ab[k] >= f
            <=> (k \in DOMAIN a /\ a[k] >= f) \/ (k \in DOMAIN b /\ b[k] >= f)
      /\ \A k \in DOMAIN ab : k \in DOMAIN a \/ k \in DOMAIN b
  BY OpenMergeAbove
<1>2. /\ Table(bc) /\ Agree(bc, b) /\ Agree(bc, c)
      /\ \A k : k \in DOMAIN bc /\ bc[k] >= f
            <=> (k \in DOMAIN b /\ b[k] >= f) \/ (k \in DOMAIN c /\ c[k] >= f)
      /\ \A k \in DOMAIN bc : k \in DOMAIN b \/ k \in DOMAIN c
  BY OpenMergeAbove
<1>. HIDE DEF ab, bc
<1>3. Agree(ab, c) /\ Agree(a, bc)
  BY <1>1, <1>2 DEF Agree
<1>4. /\ Agree(left, ab) /\ Agree(left, c)
      /\ \A k : k \in DOMAIN left /\ left[k] >= f
            <=> (k \in DOMAIN ab /\ ab[k] >= f) \/ (k \in DOMAIN c /\ c[k] >= f)
      /\ \A k \in DOMAIN left : k \in DOMAIN ab \/ k \in DOMAIN c
  BY <1>1, <1>3, f <= f, OpenMergeAbove
<1>5. /\ Agree(right, a) /\ Agree(right, bc)
      /\ \A k : k \in DOMAIN right /\ right[k] >= f
            <=> (k \in DOMAIN a /\ a[k] >= f) \/ (k \in DOMAIN bc /\ bc[k] >= f)
      /\ \A k \in DOMAIN right : k \in DOMAIN a \/ k \in DOMAIN bc
  BY <1>2, <1>3, f <= f, OpenMergeAbove
<1>. HIDE DEF left, right
<1>6. \A k \in DOMAIN left : /\ k \in DOMAIN a => left[k] = a[k]
                             /\ k \in DOMAIN b => left[k] = b[k]
                             /\ k \in DOMAIN c => left[k] = c[k]
  BY <1>1, <1>4 DEF Agree
<1>7. Agree(left, right)
  <2>1. \A k \in DOMAIN right : /\ k \in DOMAIN a => right[k] = a[k]
                                /\ k \in DOMAIN b => right[k] = b[k]
                                /\ k \in DOMAIN c => right[k] = c[k]
    BY <1>2, <1>5 DEF Agree
  <2>2. \A k \in DOMAIN left : k \in DOMAIN a \/ k \in DOMAIN b \/ k \in DOMAIN c
    BY <1>1, <1>4
  <2>. QED  BY <1>6, <2>1, <2>2 DEF Agree
<1>8. \A k : k \in DOMAIN left /\ left[k] >= f <=> k \in DOMAIN right /\ right[k] >= f
  BY <1>1, <1>2, <1>4, <1>5
<1>. QED  BY <1>7, <1>8, AboveEqual DEF left, right, ab, bc

-----------------------------------------------------------------------------
(* Well-formed DAGs. *)

SelfParentOf(e) == <<e[1], e[2] - 1>>

ChainsOK(d) ==
  \A p \in Peers, k \in Nat : <<p, k>> \in DOMAIN d =>
    \A h \in 0 .. k : <<p, h>> \in DOMAIN d /\ d[<<p, h>>].frame <= d[<<p, k>>].frame

RootsOK(d) ==
  \A e \in DOMAIN d : \A r \in d[e].roots : r \in DOMAIN d /\ d[r].frame <= d[e].frame

ContentOK(d) ==
  \A e \in DOMAIN d \ Leaves :
    LET sp == d[e].self_parent
        op == d[e].other_parent
    IN  /\ sp = SelfParentOf(e) /\ sp \in DOMAIN d /\ op \in DOMAIN d
        /\ d[e].frame = CompleteFrame(d, sp, op)
        /\ d[e].roots = CompleteRoots(d, e, sp, op)

DagOK(d) ==
  /\ Leaves \subseteq DOMAIN d
  /\ DOMAIN d \subseteq Events
  /\ d \in [DOMAIN d -> EventContent]
  /\ ChainsOK(d)
  /\ RootsOK(d)
  /\ ContentOK(d)

-----------------------------------------------------------------------------
(* A node's store, against the DAG.  first is its first open frame. *)

PrefixOK(stored) ==
  \A p \in Peers, k \in Nat : <<p, k>> \in stored => \A h \in 0 .. k : <<p, h>> \in stored

FaithfulAt(d, e, ft, first) ==
  /\ ft \in [DOMAIN ft -> Nat]
  /\ DOMAIN ft \subseteq d[e].roots
  /\ \A r \in DOMAIN ft : ft[r] = d[r].frame
  /\ \A r \in d[e].roots : d[r].frame >= first => r \in DOMAIN ft

(* Every peer has a stored event at or above frame f. *)
Reached(d, stored, f) ==
  \A p \in Peers : \E h \in Nat : <<p, h>> \in stored /\ d[<<p, h>>].frame >= f

NodeOK(d, ev, fts, first) ==
  /\ Leaves \subseteq DOMAIN ev
  /\ DOMAIN ev \subseteq DOMAIN d
  /\ ev \in [DOMAIN ev -> Nat]
  /\ DOMAIN fts = DOMAIN ev
  /\ PrefixOK(DOMAIN ev)
  /\ \A e \in DOMAIN ev :
       /\ d[e].roots \subseteq DOMAIN ev
       /\ ev[e] = d[e].frame
       /\ FaithfulAt(d, e, fts[e], first)
  /\ first \in Nat
  /\ Reached(d, DOMAIN ev, first)

-----------------------------------------------------------------------------
(* An event that is not stored yet is above every frame that is final, and *)
(* so is its self-parent.                                                  *)
LEMMA Fresh ==
  ASSUME NEW d, NEW ev, NEW fts, NEW first, DagOK(d), NodeOK(d, ev, fts, first),
         NEW e \in DOMAIN d, e \notin DOMAIN ev
  PROVE  /\ e \notin Leaves
         /\ SelfParentOf(e) \in DOMAIN d
         /\ d[SelfParentOf(e)].frame >= first
         /\ d[e].frame >= first
<1>1. PICK p \in Peers, k \in Nat : e = <<p, k>>
  BY DEF DagOK, Events
<1>2. PICK h \in Nat : <<p, h>> \in DOMAIN ev /\ d[<<p, h>>].frame >= first
  BY DEF NodeOK, Reached
<1>3. e \notin Leaves
  BY DEF NodeOK
<1>4. h < k
  <2>. SUFFICES ASSUME h >= k PROVE FALSE
    OBVIOUS
  <2>1. k \in 0 .. h
    OBVIOUS
  <2>. QED  BY <1>1, <1>2, <2>1 DEF NodeOK, PrefixOK
<1>5. k - 1 \in Nat /\ h \in 0 .. (k - 1) /\ k - 1 \in 0 .. k
  BY <1>4
<1>6. <<p, k - 1>> \in DOMAIN d /\ d[<<p, k - 1>>].frame <= d[<<p, k>>].frame
  BY <1>1, <1>5 DEF DagOK, ChainsOK
<1>7. <<p, h>> \in DOMAIN d /\ d[<<p, h>>].frame <= d[<<p, k - 1>>].frame
  BY <1>5, <1>6 DEF DagOK, ChainsOK
<1>8. \A x \in DOMAIN d : d[x].frame \in Nat
  BY DEF DagOK, EventContent
<1>9. first \in Nat
  BY DEF NodeOK
<1>10. SelfParentOf(e) = <<p, k - 1>>
  BY <1>1 DEF SelfParentOf
<1>. QED  BY <1>1, <1>2, <1>3, <1>6, <1>7, <1>8, <1>9, <1>10

-----------------------------------------------------------------------------
(* What insert_event finds when e arrives at node n.                       *)
InsertContext(n, d, e) ==
  /\ n \in Peers
  /\ DagOK(d)
  /\ NodeOK(d, event[n], flag_table[n], first_not_finalised_frame(n))
  /\ e \in DOMAIN d /\ e \notin DOMAIN event[n]
  /\ d[e].self_parent \in DOMAIN event[n]
  /\ d[e].other_parent \in DOMAIN event[n]

(* The flag table it stores, and the first frame it leaves open.           *)
NewTable(n, d, e) == Visibilis(n, e, d[e].self_parent, d[e].other_parent)
NewOpen(n, d, e) == FrameUpto(n, NewTable(n, d, e), DOMAIN event[n] \cup {e})

(* The majority test on the pruned tables is the test on complete ones.    *)
LEMMA InsertMajority ==
  ASSUME NEW n, NEW d, NEW e, InsertContext(n, d, e)
  PROVE  LET sp == d[e].self_parent
             op == d[e].other_parent
             seen == {r \in d[sp].roots \cup d[op].roots : d[r].frame = d[sp].frame}
         IN  RootMajorityVisible(n, sp, op)
               <=> Cardinality({Creator(r) : r \in seen}) >= root_majority(N)
<1>. DEFINE sp == d[e].self_parent
            op == d[e].other_parent
            at == d[sp].frame
            num == [x \in DOMAIN d |-> d[x].frame]
            t1 == flag_table[n][sp]
            t2 == flag_table[n][op]
            seen == {r \in d[sp].roots \cup d[op].roots : d[r].frame = at}
            merged == strict_merge_flag_table(t1, t2, at)
            stored == DOMAIN event[n]
<1>1. /\ sp \in stored /\ op \in stored /\ stored \subseteq DOMAIN d
      /\ event[n][sp] = at
      /\ d[sp].roots \subseteq stored /\ d[op].roots \subseteq stored
      /\ FaithfulAt(d, sp, t1, first_not_finalised_frame(n))
      /\ FaithfulAt(d, op, t2, first_not_finalised_frame(n))
  BY DEF InsertContext, NodeOK
<1>2. at >= first_not_finalised_frame(n)
  <2>1. e \notin Leaves /\ d[SelfParentOf(e)].frame >= first_not_finalised_frame(n)
    BY Fresh DEF InsertContext
  <2>2. sp = SelfParentOf(e)
    BY <2>1 DEF InsertContext, DagOK, ContentOK
  <2>. QED  BY <2>1, <2>2
<1>3. Consistent(t1, num) /\ Consistent(t2, num)
  BY <1>1 DEF Consistent, FaithfulAt
<1>4. DOMAIN merged = seen
  <2>1. \A k : k \in DOMAIN merged <=> k \in DOMAIN t1 \cup DOMAIN t2 /\ num[k] = at
    <3>. HIDE DEF num, t1, t2, at
    <3>. QED  BY <1>3, StrictMerge DEF Consistent
  <2>2. \A k \in DOMAIN t1 \cup DOMAIN t2 : k \in DOMAIN d /\ num[k] = d[k].frame
    BY <1>1 DEF FaithfulAt
  <2>3. DOMAIN t1 \cup DOMAIN t2 \subseteq d[sp].roots \cup d[op].roots
    BY <1>1 DEF FaithfulAt
  <2>4. seen \subseteq DOMAIN t1 \cup DOMAIN t2
    BY <1>1, <1>2 DEF FaithfulAt
  <2>. HIDE DEF num, t1, t2
  <2>. QED  BY <2>1, <2>2, <2>3, <2>4
<1>5. \A k \in seen : merged[k] = at
  BY <1>4 DEF strict_merge_flag_table
<1>6. at \in Nat
  BY <1>1 DEF InsertContext, DagOK, EventContent
<1>7. DOMAIN derive_creator_flag_table(merged, at, CreatorOf(stored)) = {Creator(r) : r \in seen}
  <2>1. DOMAIN CreatorOf(stored) = stored /\ \A k \in stored : CreatorOf(stored)[k] = Creator(k)
    BY DEF CreatorOf
  <2>2. {j \in DOMAIN merged : merged[j] >= at /\ j \in DOMAIN CreatorOf(stored)} = seen
    <3>1. seen \subseteq stored
      BY <1>1
    <3>. HIDE DEF merged, seen, stored, at
    <3>. QED  BY <1>4, <1>5, <1>6, <2>1, <3>1
  <2>3. seen \subseteq stored
    BY <1>1
  <2>4. \A k \in seen : CreatorOf(stored)[k] = Creator(k)
    BY <2>1, <2>3
  <2>. HIDE DEF merged, seen, stored, at
  <2>5. \A c : c \in DOMAIN derive_creator_flag_table(merged, at, CreatorOf(stored))
          <=> \E k \in DOMAIN merged : /\ merged[k] >= at /\ k \in DOMAIN CreatorOf(stored)
                                      /\ CreatorOf(stored)[k] = c
    BY DeriveDomain
  <2>6. \A c : c \in DOMAIN derive_creator_flag_table(merged, at, CreatorOf(stored))
          <=> \E k \in seen : Creator(k) = c
    BY <2>2, <2>4, <2>5
  <2>. QED  BY <2>6
<1>8. RootMajorityVisible(n, sp, op) <=>
        Cardinality(DOMAIN derive_creator_flag_table(merged, at, CreatorOf(stored)))
          >= root_majority(N)
  BY <1>1 DEF RootMajorityVisible
<1>. QED  BY <1>7, <1>8

(* insert_event computes the frame number the creator computed, and takes  *)
(* the event for a root when its creator did.                              *)
LEMMA InsertFrame ==
  ASSUME NEW n, NEW d, NEW e, InsertContext(n, d, e)
  PROVE  LET sp == d[e].self_parent
             op == d[e].other_parent
         IN  /\ FrameOf(n, sp, op) = d[e].frame
             /\ IsRoot(n, sp, op) <=> d[e].frame > d[sp].frame
<1>. DEFINE sp == d[e].self_parent
            op == d[e].other_parent
<1>1. event[n][sp] = d[sp].frame /\ event[n][op] = d[op].frame
  BY DEF InsertContext, NodeOK
<1>2. d[sp].frame \in Nat /\ d[op].frame \in Nat
  BY DEF InsertContext, NodeOK, DagOK, EventContent
<1>3. d[e].frame = CompleteFrame(d, sp, op)
  BY Fresh DEF InsertContext, DagOK, ContentOK
<1>4. RootMajorityVisible(n, sp, op) <=>
        Cardinality({Creator(r) : r \in
          {x \in d[sp].roots \cup d[op].roots : d[x].frame = d[sp].frame}}) >= root_majority(N)
  BY InsertMajority
<1>. SUFFICES /\ FrameOf(n, sp, op) = d[e].frame
              /\ IsRoot(n, sp, op) <=> d[e].frame > d[sp].frame
  OBVIOUS
<1>. HIDE DEF sp, op
<1>. QED  BY <1>1, <1>2, <1>3, <1>4 DEF FrameOf, IsRoot, CompleteFrame

(* The flag table insert_event stores loses no root of an open frame.      *)
LEMMA InsertTable ==
  ASSUME NEW n, NEW d, NEW e, InsertContext(n, d, e)
  PROVE  /\ FaithfulAt(d, e, NewTable(n, d, e), first_not_finalised_frame(n))
         /\ d[e].roots \subseteq DOMAIN event[n] \cup {e}
<1>. DEFINE sp == d[e].self_parent
            op == d[e].other_parent
            first == first_not_finalised_frame(n)
            num == [x \in DOMAIN d |-> d[x].frame]
            t1 == flag_table[n][sp]
            t2 == flag_table[n][op]
            merged == open_merge_flag_table(t1, t2, first)
            ft == NewTable(n, d, e)
<1>1. /\ sp \in DOMAIN event[n] /\ op \in DOMAIN event[n] /\ DOMAIN event[n] \subseteq DOMAIN d
      /\ d[sp].roots \subseteq DOMAIN event[n] /\ d[op].roots \subseteq DOMAIN event[n]
      /\ FaithfulAt(d, sp, t1, first) /\ FaithfulAt(d, op, t2, first)
      /\ first \in Nat
  BY DEF InsertContext, NodeOK
<1>2. Consistent(t1, num) /\ Consistent(t2, num)
  BY <1>1 DEF Consistent, FaithfulAt
<1>3. /\ \A k : k \in DOMAIN merged <=> \/ k \in DOMAIN t1 /\ num[k] >= first
                                       \/ k \in DOMAIN t2 \ DOMAIN t1
      /\ Consistent(merged, num)
      /\ merged = [k \in DOMAIN merged |-> merged[k]]
  <2>1. \A k \in DOMAIN t1 : t1[k] \in Nat
    BY <1>1 DEF FaithfulAt
  <2>. HIDE DEF num, t1, t2, first
  <2>. QED  BY <1>1, <1>2, <2>1, OpenMerge DEF Consistent
<1>4. d[e].roots = d[sp].roots \cup d[op].roots
                     \cup (IF d[e].frame > d[sp].frame THEN {e} ELSE {})
  BY Fresh DEF InsertContext, DagOK, ContentOK, CompleteRoots
<1>5. FrameOf(n, sp, op) = d[e].frame /\ (IsRoot(n, sp, op) <=> d[e].frame > d[sp].frame)
  BY InsertFrame
<1>6. e \in DOMAIN d /\ num[e] = d[e].frame /\ \A x \in DOMAIN d : d[x].frame \in Nat
  BY DEF InsertContext, DagOK, EventContent
<1>7. ft = IF d[e].frame > d[sp].frame THEN insert(merged, e, num[e]) ELSE merged
  BY <1>5, <1>6 DEF NewTable, Visibilis
<1>8. \A k \in DOMAIN merged : k \in d[sp].roots \cup d[op].roots /\ merged[k] = d[k].frame
  BY <1>1, <1>3 DEF FaithfulAt, Consistent
<1>9. \A k \in d[sp].roots \cup d[op].roots : d[k].frame >= first => k \in DOMAIN merged
  <2>. SUFFICES ASSUME NEW k \in d[sp].roots \cup d[op].roots, d[k].frame >= first
                PROVE  k \in DOMAIN merged
    OBVIOUS
  <2>1. k \in DOMAIN d /\ num[k] >= first
    BY <1>1
  <2>2. k \in DOMAIN t1 \cup DOMAIN t2
    BY <1>1 DEF FaithfulAt
  <2>. QED  BY <1>3, <2>1, <2>2
<1>10. /\ DOMAIN insert(merged, e, num[e]) = DOMAIN merged \cup {e}
       /\ \A k \in DOMAIN merged \cup {e} :
            insert(merged, e, num[e])[k] = IF k = e THEN num[e] ELSE merged[k]
       /\ insert(merged, e, num[e])
            = [k \in DOMAIN merged \cup {e} |-> insert(merged, e, num[e])[k]]
  BY DEF insert
<1>11. d[sp].roots \cup d[op].roots \subseteq DOMAIN d
  BY <1>1
<1>12. FaithfulAt(d, e, ft, first)
  <2>. HIDE DEF merged, ft, first, num, t1, t2
  <2>1. CASE d[e].frame > d[sp].frame
    <3>1. /\ DOMAIN ft = DOMAIN merged \cup {e}
          /\ \A k \in DOMAIN ft : ft[k] = IF k = e THEN d[e].frame ELSE merged[k]
          /\ ft = [k \in DOMAIN ft |-> ft[k]]
      BY <1>6, <1>7, <1>10, <2>1
    <3>2. \A k \in DOMAIN ft : k \in d[e].roots /\ ft[k] = d[k].frame
      BY <1>4, <1>8, <2>1, <3>1
    <3>3. \A r \in d[e].roots : d[r].frame >= first => r \in DOMAIN ft
      BY <1>4, <1>9, <2>1, <3>1
    <3>4. \A k \in DOMAIN ft : ft[k] \in Nat
      BY <1>4, <1>6, <1>11, <2>1, <3>2
    <3>. QED  BY <3>1, <3>2, <3>3, <3>4 DEF FaithfulAt
  <2>2. CASE ~ (d[e].frame > d[sp].frame)
    BY <1>1, <1>3, <1>4, <1>6, <1>7, <1>8, <1>9, <1>11, <2>2 DEF FaithfulAt
  <2>. QED  BY <2>1, <2>2
<1>. QED  BY <1>1, <1>4, <1>12

(* After the event, every peer has a stored root in the first frame that   *)
(* insert_event leaves open, or above.                                     *)
LEMMA InsertUpto ==
  ASSUME NEW n, NEW d, NEW e, InsertContext(n, d, e)
  PROVE  /\ NewOpen(n, d, e) \in Nat
         /\ NewOpen(n, d, e) >= first_not_finalised_frame(n)
         /\ Reached(d, DOMAIN event[n] \cup {e}, NewOpen(n, d, e))
<1>. DEFINE first == first_not_finalised_frame(n)
            ft == NewTable(n, d, e)
            stored == DOMAIN event[n] \cup {e}
            cft == derive_creator_flag_table(ft, first + 1, CreatorOf(stored))
            upto == NewOpen(n, d, e)
<1>1. first \in Nat /\ Reached(d, stored, first)
  BY DEF InsertContext, NodeOK, Reached
<1>2. /\ DOMAIN ft \subseteq d[e].roots /\ d[e].roots \subseteq stored
      /\ \A r \in DOMAIN ft : ft[r] = d[r].frame
  BY InsertTable DEF FaithfulAt
<1>3. stored \subseteq DOMAIN d /\ stored \subseteq Events
  BY DEF InsertContext, NodeOK, DagOK
<1>4. /\ d[e].frame \in Nat
      /\ \A k \in DOMAIN ft : ft[k] \in Nat /\ ft[k] <= d[e].frame
  BY <1>2, <1>3 DEF InsertContext, DagOK, RootsOK, EventContent
<1>5. ASSUME NEW c \in DOMAIN cft
      PROVE  /\ c \in Peers /\ cft[c] \in Nat /\ cft[c] >= first + 1
             /\ \E h \in Nat : <<c, h>> \in stored /\ d[<<c, h>>].frame = cft[c]
  <2>1. PICK k \in DOMAIN ft : /\ k \in DOMAIN CreatorOf(stored) /\ CreatorOf(stored)[k] = c
                              /\ cft[c] = ft[k] /\ ft[k] >= first + 1
    BY <1>4, DeriveValue
  <2>2. k \in stored /\ Creator(k) = c /\ k \in Events
    BY <1>3, <2>1 DEF CreatorOf
  <2>3. PICK h \in Nat : k = <<c, h>> /\ c \in Peers
    BY <2>2 DEF Events, Creator
  <2>. QED  BY <1>2, <1>4, <2>1, <2>2, <2>3
<1>6. CASE Cardinality(DOMAIN cft) = N
  <2>1. DOMAIN cft = Peers
    <3>1. IsFiniteSet(Peers) /\ Cardinality(Peers) = N
      BY FS_Interval, NAssumption DEF Peers
    <3>2. DOMAIN cft \in SUBSET Peers
      BY <1>5
    <3>. QED  BY <1>6, <3>1, <3>2, FS_Subset
  <2>2. DOMAIN cft # {} /\ \A c \in DOMAIN cft : cft[c] \in Nat
    <3>1. 1 \in Peers
      BY NAssumption DEF Peers
    <3>. QED  BY <1>5, <2>1, <3>1
  <2>3. upto = min_frame(cft)
    BY <1>6 DEF NewOpen, FrameUpto
  <2>4. /\ upto \in Nat
        /\ \E c \in DOMAIN cft : upto = cft[c]
        /\ \A c \in DOMAIN cft : upto <= cft[c]
    <3>. HIDE DEF cft, upto
    <3>. QED  BY <2>2, <2>3, MinFrame
  <2>5. upto >= first
    <3>. HIDE DEF cft, upto, first
    <3>. QED  BY <1>1, <1>5, <2>4
  <2>6. Reached(d, stored, upto)
    <3>. SUFFICES ASSUME NEW p \in Peers
                  PROVE  \E h \in Nat : <<p, h>> \in stored /\ d[<<p, h>>].frame >= upto
      BY DEF Reached
    <3>. HIDE DEF cft, upto
    <3>. QED  BY <1>5, <2>1, <2>4
  <2>. QED  BY <2>4, <2>5, <2>6
<1>7. CASE Cardinality(DOMAIN cft) # N
  <2>1. upto = first
    BY <1>7 DEF NewOpen, FrameUpto
  <2>. QED  BY <1>1, <2>1
<1>. QED  BY <1>6, <1>7

-----------------------------------------------------------------------------
(* The DAG only grows. *)
Extends(d2, d) ==
  /\ DOMAIN d \subseteq DOMAIN d2
  /\ \A x \in DOMAIN d : d2[x] = d[x]

(* The complete frame number and roots of an event depend on its parents  *)
(* only, which the DAG keeps as it grows (Event::new, lib.rs:294-302).     *)
LEMMA CompleteSame ==
  ASSUME NEW d, NEW d2, Extends(d2, d), RootsOK(d),
         NEW sp \in DOMAIN d, NEW op \in DOMAIN d, NEW e
  PROVE  /\ CompleteFrame(d2, sp, op) = CompleteFrame(d, sp, op)
         /\ CompleteRoots(d2, e, sp, op) = CompleteRoots(d, e, sp, op)
<1>1. d2[sp] = d[sp] /\ d2[op] = d[op]
  BY DEF Extends
<1>2. \A r \in d[sp].roots \cup d[op].roots : d2[r] = d[r]
  BY DEF Extends, RootsOK
<1>3. {r \in d2[sp].roots \cup d2[op].roots : d2[r].frame = d2[sp].frame}
        = {r \in d[sp].roots \cup d[op].roots : d[r].frame = d[sp].frame}
  BY <1>1, <1>2
<1>4. CompleteFrame(d2, sp, op) = CompleteFrame(d, sp, op)
  BY <1>1, <1>3 DEF CompleteFrame
<1>. QED  BY <1>1, <1>4 DEF CompleteRoots

(* A frame number is the self-parent's, one more, or the other parent's,   *)
(* and never less than either parent's (core.rs:197-227).                  *)
LEMMA CompleteFrameBound ==
  ASSUME NEW d, NEW sp, NEW op, d[sp].frame \in Nat, d[op].frame \in Nat
  PROVE  /\ CompleteFrame(d, sp, op) \in Nat
         /\ CompleteFrame(d, sp, op) >= d[sp].frame
         /\ CompleteFrame(d, sp, op) >= d[op].frame
BY DEF CompleteFrame

(* A node's store is as good for a DAG that has grown. *)
LEMMA NodeExtends ==
  ASSUME NEW d, NEW d2, NEW ev, NEW fts, NEW first,
         Extends(d2, d), RootsOK(d), NodeOK(d, ev, fts, first)
  PROVE  NodeOK(d2, ev, fts, first)
<1>1. \A x \in DOMAIN ev : x \in DOMAIN d /\ x \in DOMAIN d2 /\ d2[x] = d[x]
  BY DEF NodeOK, Extends
<1>2. \A x \in DOMAIN ev : \A r \in d[x].roots : d2[r] = d[r]
  BY <1>1 DEF RootsOK, Extends
<1>3. Reached(d2, DOMAIN ev, first)
  BY <1>1 DEF NodeOK, Reached
<1>4. ASSUME NEW x \in DOMAIN ev
      PROVE  /\ d2[x].roots \subseteq DOMAIN ev /\ ev[x] = d2[x].frame
             /\ FaithfulAt(d2, x, fts[x], first)
  BY <1>1, <1>2 DEF NodeOK, FaithfulAt
<1>. QED  BY <1>1, <1>3, <1>4 DEF NodeOK

(* The DAG stays well-formed when a creator adds an event to its chain.    *)
LEMMA DagGrows ==
  ASSUME NEW d, DagOK(d), NEW p \in Peers, NEW k \in Nat,
         <<p, k>> \in DOMAIN d, <<p, k + 1>> \notin DOMAIN d,
         NEW op \in DOMAIN d, NEW time \in Nat, NEW content,
         content = [self_parent |-> <<p, k>>, other_parent |-> op,
                    lamport_timestamp |-> time,
                    frame |-> CompleteFrame(d, <<p, k>>, op),
                    roots |-> CompleteRoots(d, <<p, k + 1>>, <<p, k>>, op)]
  PROVE  /\ DagOK(insert(d, <<p, k + 1>>, content))
         /\ Extends(insert(d, <<p, k + 1>>, content), d)
<1>. DEFINE e == <<p, k + 1>>
            sp == <<p, k>>
            d2 == insert(d, e, content)
<1>1. /\ DOMAIN d2 = DOMAIN d \cup {e} /\ d2[e] = content
      /\ \A x \in DOMAIN d : d2[x] = d[x]
      /\ d2 = [x \in DOMAIN d2 |-> d2[x]]
  BY DEF insert
<1>2. Extends(d2, d)
  BY <1>1 DEF Extends
<1>3. \A x \in DOMAIN d : d[x] \in EventContent /\ d[x].frame \in Nat /\ d[x].roots \subseteq Events
  BY DEF DagOK, EventContent
<1>4. /\ content.frame \in Nat /\ content.frame >= d[sp].frame
      /\ content.frame >= d[op].frame
  BY <1>3, CompleteFrameBound
<1>5. e \in Events /\ sp \in Events /\ op \in Events
  BY DEF DagOK, Events
<1>6. content.roots \subseteq DOMAIN d \cup {e}
  BY DEF CompleteRoots, DagOK, RootsOK
<1>7. content \in EventContent
  <2>1. content.roots \subseteq Events
    BY <1>5, <1>6 DEF DagOK
  <2>. QED  BY <1>4, <1>5, <2>1 DEF EventContent
<1>8. d2 \in [DOMAIN d2 -> EventContent] /\ DOMAIN d2 \subseteq Events /\ Leaves \subseteq DOMAIN d2
  BY <1>1, <1>3, <1>5, <1>7 DEF DagOK
<1>9. RootsOK(d2)
  <2>1. ASSUME NEW r \in content.roots PROVE r \in DOMAIN d2 /\ d2[r].frame <= content.frame
    <3>1. CASE r = e
      BY <1>1, <1>4, <3>1
    <3>2. CASE r # e
      <4>1. r \in d[sp].roots \cup d[op].roots
        BY <3>2 DEF CompleteRoots
      <4>2. r \in DOMAIN d /\ (d[r].frame <= d[sp].frame \/ d[r].frame <= d[op].frame)
        BY <4>1 DEF DagOK, RootsOK
      <4>. QED  BY <1>1, <1>3, <1>4, <4>2
    <3>. QED  BY <3>1, <3>2
  <2>2. ASSUME NEW x \in DOMAIN d, NEW r \in d[x].roots
        PROVE  r \in DOMAIN d2 /\ d2[r].frame <= d2[x].frame
    BY <1>1 DEF DagOK, RootsOK
  <2>. QED  BY <1>1, <2>1, <2>2 DEF RootsOK
<1>10. ChainsOK(d2)
  <2>. SUFFICES ASSUME NEW q \in Peers, NEW j \in Nat, <<q, j>> \in DOMAIN d2, NEW h \in 0 .. j
                PROVE  <<q, h>> \in DOMAIN d2 /\ d2[<<q, h>>].frame <= d2[<<q, j>>].frame
    BY DEF ChainsOK
  <2>1. CASE <<q, j>> \in DOMAIN d
    BY <1>1, <2>1 DEF DagOK, ChainsOK
  <2>2. CASE <<q, j>> = e
    <3>1. CASE h = j
      BY <1>1, <1>4, <2>2, <3>1
    <3>2. CASE h # j
      <4>1. q = p /\ h \in 0 .. k
        BY <2>2, <3>2
      <4>2. <<p, h>> \in DOMAIN d /\ d[<<p, h>>].frame <= d[sp].frame
        BY <4>1 DEF DagOK, ChainsOK
      <4>. QED  BY <1>1, <1>3, <1>4, <2>2, <4>1, <4>2
    <3>. QED  BY <3>1, <3>2
  <2>. QED  BY <1>1, <2>1, <2>2
<1>11. ContentOK(d2)
  <2>. SUFFICES ASSUME NEW x \in DOMAIN d2 \ Leaves
                PROVE  /\ d2[x].self_parent = SelfParentOf(x)
                       /\ d2[x].self_parent \in DOMAIN d2 /\ d2[x].other_parent \in DOMAIN d2
                       /\ d2[x].frame = CompleteFrame(d2, d2[x].self_parent, d2[x].other_parent)
                       /\ d2[x].roots = CompleteRoots(d2, x, d2[x].self_parent, d2[x].other_parent)
    BY DEF ContentOK
  <2>1. RootsOK(d)
    BY DEF DagOK
  <2>2. CASE x = e
    <3>1. SelfParentOf(e) = sp
      BY DEF SelfParentOf
    <3>2. /\ CompleteFrame(d2, sp, op) = CompleteFrame(d, sp, op)
          /\ CompleteRoots(d2, e, sp, op) = CompleteRoots(d, e, sp, op)
      BY <1>2, <2>1, CompleteSame
    <3>. HIDE DEF d2
    <3>. QED  BY <1>1, <2>2, <3>1, <3>2
  <2>3. CASE x \in DOMAIN d
    <3>1. /\ d[x].self_parent = SelfParentOf(x)
          /\ d[x].self_parent \in DOMAIN d /\ d[x].other_parent \in DOMAIN d
          /\ d[x].frame = CompleteFrame(d, d[x].self_parent, d[x].other_parent)
          /\ d[x].roots = CompleteRoots(d, x, d[x].self_parent, d[x].other_parent)
      BY <2>3 DEF DagOK, ContentOK
    <3>2. /\ CompleteFrame(d2, d[x].self_parent, d[x].other_parent)
               = CompleteFrame(d, d[x].self_parent, d[x].other_parent)
          /\ CompleteRoots(d2, x, d[x].self_parent, d[x].other_parent)
               = CompleteRoots(d, x, d[x].self_parent, d[x].other_parent)
      BY <1>2, <2>1, <3>1, CompleteSame
    <3>. HIDE DEF d2
    <3>. QED  BY <1>1, <2>3, <3>1, <3>2
  <2>. QED  BY <1>1, <2>2, <2>3
<1>. QED  BY <1>2, <1>8, <1>9, <1>10, <1>11 DEF DagOK

-----------------------------------------------------------------------------
(* insert_event as a whole. *)

Shape ==
  /\ DOMAIN event = Peers /\ DOMAIN flag_table = Peers /\ DOMAIN frame = Peers
  /\ last_finalised_frame \in [Peers -> Nat \cup {-1}]

(* Only node n's store changes. *)
LEMMA InsertOthers ==
  ASSUME Shape, NEW n \in Peers, NEW d, NEW e, insert_event(n, e, d), NEW m \in Peers, m # n
  PROVE  /\ event'[m] = event[m] /\ flag_table'[m] = flag_table[m] /\ frame'[m] = frame[m]
         /\ last_finalised_frame'[m] = last_finalised_frame[m]
BY DEF Shape, insert_event

(* What changes in node n's store. *)
LEMMA InsertChanges ==
  ASSUME Shape, NEW n, NEW d, NEW e, InsertContext(n, d, e), insert_event(n, e, d)
  PROVE  /\ Shape'
         /\ event'[n] = insert(event[n], e, d[e].frame)
         /\ flag_table'[n] = insert(flag_table[n], e, NewTable(n, d, e))
         /\ last_finalised_frame'[n] = NewOpen(n, d, e) - 1
         /\ \A f \in DOMAIN frame[n] : f \in DOMAIN frame'[n]
         /\ \A f \in first_not_finalised_frame(n) .. (NewOpen(n, d, e) - 1) :
              f \in DOMAIN frame'[n]
         /\ \A f \in DOMAIN frame[n] :
              f < first_not_finalised_frame(n) => frame'[n][f] = frame[n][f]
<1>. DEFINE sp == d[e].self_parent
            op == d[e].other_parent
            first == first_not_finalised_frame(n)
            ft == NewTable(n, d, e)
            upto == NewOpen(n, d, e)
            pushed == insert(frame[n], d[e].frame, Append(get_frame(frame[n], d[e].frame), e))
            final == first .. (upto - 1)
            frames == [f \in DOMAIN pushed \cup final |->
                         IF f \in final THEN finalise(d, get_frame(pushed, f)) ELSE pushed[f]]
<1>1. FrameOf(n, sp, op) = d[e].frame
  BY InsertFrame
<1>2. DOMAIN insert(event[n], e, d[e].frame) = DOMAIN event[n] \cup {e}
  BY DEF insert
<1>3. n \in Peers
  BY DEF InsertContext
<1>4. upto \in Nat /\ upto >= first
  BY InsertUpto
<1>5. /\ event' = [event EXCEPT ![n] = insert(event[n], e, d[e].frame)]
      /\ flag_table' = [flag_table EXCEPT ![n] = insert(flag_table[n], e, ft)]
      /\ frame' = [frame EXCEPT ![n] = frames]
      /\ last_finalised_frame' =
           [last_finalised_frame EXCEPT ![n] = IF upto > first THEN upto - 1
                                               ELSE last_finalised_frame[n]]
  BY <1>1, <1>2 DEF insert_event, push_record, NewOpen, NewTable, Shape
<1>6. last_finalised_frame[n] = first - 1 /\ first \in Nat
  BY <1>3 DEF first_not_finalised_frame, Shape
<1>7. last_finalised_frame'[n] = upto - 1 /\ upto - 1 \in Nat \cup {-1}
  <2>. HIDE DEF upto, first
  <2>. QED  BY <1>3, <1>4, <1>5, <1>6 DEF Shape
<1>8. Shape'
  <2>. HIDE DEF upto, first, frames
  <2>1. DOMAIN event' = Peers /\ DOMAIN flag_table' = Peers /\ DOMAIN frame' = Peers
    BY <1>5 DEF Shape
  <2>2. last_finalised_frame' \in [Peers -> Nat \cup {-1}]
    BY <1>5, <1>7, <1>3 DEF Shape
  <2>. QED  BY <2>1, <2>2 DEF Shape
<1>9. frame'[n] = frames
  BY <1>3, <1>5 DEF Shape
<1>10. DOMAIN pushed = DOMAIN frame[n] \cup {d[e].frame}
       /\ \A f \in DOMAIN frame[n] : f # d[e].frame => pushed[f] = frame[n][f]
  BY DEF insert
<1>11. d[e].frame >= first /\ d[e].frame \in Nat
  BY Fresh DEF InsertContext, DagOK, EventContent
<1>12. \A f \in DOMAIN frame[n] : f < first => frame'[n][f] = frame[n][f]
  <2>. SUFFICES ASSUME NEW f \in DOMAIN frame[n], f < first PROVE frames[f] = frame[n][f]
    BY <1>9
  <2>1. f \notin final /\ f # d[e].frame
    BY <1>4, <1>6, <1>11
  <2>. HIDE DEF pushed, final
  <2>. QED  BY <1>10, <2>1
<1>13. \A f \in DOMAIN frame[n] \cup final : f \in DOMAIN frame'[n]
  <2>. HIDE DEF pushed, final
  <2>. QED  BY <1>9, <1>10
<1>. QED  BY <1>3, <1>5, <1>7, <1>8, <1>12, <1>13 DEF Shape

(* insert_event keeps the node's store faithful to the DAG.                *)
LEMMA InsertNode ==
  ASSUME Shape, NEW n, NEW d, NEW e, InsertContext(n, d, e), insert_event(n, e, d)
  PROVE  /\ NodeOK(d, event'[n], flag_table'[n], first_not_finalised_frame(n)')
         /\ DOMAIN event'[n] = DOMAIN event[n] \cup {e}
         /\ first_not_finalised_frame(n)' >= first_not_finalised_frame(n)
<1>. DEFINE ft == NewTable(n, d, e)
            first == first_not_finalised_frame(n)
            upto == NewOpen(n, d, e)
            ev2 == event'[n]
            fts2 == flag_table'[n]
<1>1. /\ ev2 = insert(event[n], e, d[e].frame)
      /\ fts2 = insert(flag_table[n], e, ft)
      /\ last_finalised_frame'[n] = upto - 1
  BY InsertChanges
<1>2. upto \in Nat /\ upto >= first /\ Reached(d, DOMAIN event[n] \cup {e}, upto)
  BY InsertUpto
<1>3. first_not_finalised_frame(n)' = upto
  <2>. HIDE DEF upto
  <2>. QED  BY <1>1, <1>2 DEF first_not_finalised_frame
<1>4. /\ FaithfulAt(d, e, ft, first) /\ d[e].roots \subseteq DOMAIN event[n] \cup {e}
  BY InsertTable
<1>5. NodeOK(d, event[n], flag_table[n], first) /\ e \in DOMAIN d /\ DagOK(d)
  BY DEF InsertContext
<1>6. /\ DOMAIN ev2 = DOMAIN event[n] \cup {e} /\ ev2[e] = d[e].frame
      /\ \A x \in DOMAIN event[n] : x # e => ev2[x] = event[n][x]
      /\ ev2 = [x \in DOMAIN ev2 |-> ev2[x]]
  BY <1>1 DEF insert
<1>7. /\ DOMAIN fts2 = DOMAIN event[n] \cup {e} /\ fts2[e] = ft
      /\ \A x \in DOMAIN event[n] : x # e => fts2[x] = flag_table[n][x]
  BY <1>1, <1>5 DEF insert, NodeOK
<1>8. e \notin DOMAIN event[n]
  BY DEF InsertContext
<1>9. first \in Nat
  BY <1>5 DEF NodeOK
<1>10. \A x \in DOMAIN d : d[x].frame \in Nat /\ \A r \in d[x].roots : d[r].frame \in Nat
  BY <1>5 DEF DagOK, RootsOK, EventContent
<1>. HIDE DEF upto, first, ft, ev2, fts2
<1>11. ASSUME NEW x \in DOMAIN ev2
       PROVE  /\ d[x].roots \subseteq DOMAIN ev2 /\ ev2[x] = d[x].frame
              /\ FaithfulAt(d, x, fts2[x], upto)
  <2>1. CASE x = e
    <3>1. FaithfulAt(d, e, ft, upto)
      BY <1>2, <1>4, <1>5, <1>9, <1>10 DEF FaithfulAt
    <3>. QED  BY <1>4, <1>6, <1>7, <2>1, <3>1
  <2>2. CASE x # e
    <3>1. /\ x \in DOMAIN event[n] /\ x \in DOMAIN d /\ d[x].roots \subseteq DOMAIN event[n]
          /\ event[n][x] = d[x].frame /\ FaithfulAt(d, x, flag_table[n][x], first)
      BY <1>5, <1>6, <2>2 DEF NodeOK
    <3>2. FaithfulAt(d, x, flag_table[n][x], upto)
      BY <1>2, <1>9, <1>10, <3>1 DEF FaithfulAt
    <3>. QED  BY <1>6, <1>7, <2>2, <3>1, <3>2
  <2>. QED  BY <2>1, <2>2
<1>12. PrefixOK(DOMAIN ev2)
  <2>. SUFFICES ASSUME NEW p \in Peers, NEW k \in Nat, <<p, k>> \in DOMAIN ev2, NEW h \in 0 .. k
                PROVE  <<p, h>> \in DOMAIN ev2
    BY DEF PrefixOK
  <2>1. CASE <<p, k>> \in DOMAIN event[n]
    BY <1>5, <1>6, <2>1 DEF NodeOK, PrefixOK
  <2>2. CASE <<p, k>> = e
    <3>1. CASE h = k
      BY <1>6, <2>2, <3>1
    <3>2. CASE h # k
      <4>1. k - 1 \in Nat /\ h \in 0 .. (k - 1)
        BY <3>2
      <4>2. SelfParentOf(e) = <<p, k - 1>>
        BY <2>2 DEF SelfParentOf
      <4>3. <<p, k - 1>> \in DOMAIN event[n]
        <5>1. e \notin Leaves
          BY <1>5, <1>8 DEF NodeOK
        <5>2. d[e].self_parent = SelfParentOf(e)
          BY <1>5, <5>1 DEF DagOK, ContentOK
        <5>. QED  BY <4>2, <5>2 DEF InsertContext
      <4>. QED  BY <1>5, <1>6, <4>1, <4>3 DEF NodeOK, PrefixOK
    <3>. QED  BY <3>1, <3>2
  <2>. QED  BY <1>6, <2>1, <2>2
<1>13. /\ Leaves \subseteq DOMAIN ev2 /\ DOMAIN ev2 \subseteq DOMAIN d
       /\ DOMAIN fts2 = DOMAIN ev2 /\ Reached(d, DOMAIN ev2, upto)
  BY <1>2, <1>5, <1>6, <1>7 DEF NodeOK
<1>14. ev2 \in [DOMAIN ev2 -> Nat]
  BY <1>6, <1>10, <1>11, <1>13
<1>15. NodeOK(d, ev2, fts2, upto)
  BY <1>2, <1>11, <1>12, <1>13, <1>14 DEF NodeOK
<1>. QED  BY <1>2, <1>3, <1>6, <1>15 DEF ev2, fts2, first

-----------------------------------------------------------------------------
(* The inductive invariant. *)

(* n's peer list has heights of stored events, and n's own events are the  *)
(* ones n has counted.                                                     *)
HeightsOK(n) ==
  /\ \A p \in Peers : <<p, height[n][p]>> \in DOMAIN event[n]
  /\ \A h \in Nat : <<n, h>> \in DOMAIN dag => h <= height[n][n]

FinalOK(n) == \A f \in 0 .. last_finalised_frame[n] : f \in DOMAIN frame[n]

IInv ==
  /\ Shape
  /\ lamport_time \in [Peers -> Nat]
  /\ height \in [Peers -> [Peers -> Nat]]
  /\ DagOK(dag)
  /\ \A e \in DOMAIN dag : e[2] <= MaxHeight[Creator(e)]
  /\ \A n \in Peers :
       /\ NodeOK(dag, event[n], flag_table[n], first_not_finalised_frame(n))
       /\ HeightsOK(n)
       /\ FinalOK(n)

(* The leaf events of DAGcore::new satisfy the invariant (core.rs:92-113). *)
LEMMA InitInv == Init => IInv
<1>. SUFFICES ASSUME Init PROVE IInv
  OBVIOUS
<1>1. \A p \in Peers : <<p, 0>> \in Leaves
  BY DEF Leaves, Leaf
<1>2. \A e \in Leaves : \E p \in Peers : e = <<p, 0>>
  BY DEF Leaves, Leaf
<1>3. DOMAIN dag = Leaves /\ Leaves \subseteq Events
  BY <1>2 DEF Init, Events
<1>4. \A e \in Leaves : dag[e].frame = 0 /\ dag[e].roots = {e} /\ dag[e] \in EventContent
  BY <1>3 DEF Init, EventContent
<1>5. ChainsOK(dag)
  BY <1>1, <1>2, <1>3, <1>4 DEF ChainsOK
<1>6. DagOK(dag)
  <2>1. dag \in [DOMAIN dag -> EventContent]
    BY <1>3, <1>4 DEF Init
  <2>. QED  BY <1>3, <1>4, <1>5, <2>1 DEF DagOK, RootsOK, ContentOK
<1>7. \A e \in DOMAIN dag : e[2] <= MaxHeight[Creator(e)]
  BY <1>2, <1>3, MaxHeightAssumption DEF Creator
<1>8. Shape /\ lamport_time \in [Peers -> Nat] /\ height \in [Peers -> [Peers -> Nat]]
  BY DEF Init, Shape
<1>9. ASSUME NEW n \in Peers
      PROVE  /\ NodeOK(dag, event[n], flag_table[n], first_not_finalised_frame(n))
             /\ HeightsOK(n) /\ FinalOK(n)
  <2>1. /\ event[n] = [e \in Leaves |-> 0]
        /\ flag_table[n] = [e \in Leaves |-> [k \in {e} |-> 0]]
        /\ first_not_finalised_frame(n) = 0
        /\ last_finalised_frame[n] = -1 /\ \A p \in Peers : height[n][p] = 0
    BY DEF Init, first_not_finalised_frame
  <2>2. PrefixOK(Leaves)
    BY <1>1, <1>2 DEF PrefixOK
  <2>3. Reached(dag, Leaves, 0)
    BY <1>1, <1>4 DEF Reached
  <2>4. \A e \in Leaves : FaithfulAt(dag, e, [k \in {e} |-> 0], 0)
    BY <1>4 DEF FaithfulAt
  <2>5. NodeOK(dag, event[n], flag_table[n], 0)
    <3>1. DOMAIN event[n] = Leaves /\ DOMAIN flag_table[n] = Leaves /\ event[n] \in [Leaves -> Nat]
      BY <2>1
    <3>2. ASSUME NEW e \in Leaves
          PROVE  /\ dag[e].roots \subseteq Leaves /\ event[n][e] = dag[e].frame
                 /\ FaithfulAt(dag, e, flag_table[n][e], 0)
      BY <1>4, <2>1, <2>4
    <3>. QED  BY <1>3, <2>2, <2>3, <3>1, <3>2 DEF NodeOK
  <2>6. HeightsOK(n)
    BY <1>1, <1>2, <1>3, <2>1 DEF HeightsOK
  <2>. QED  BY <2>1, <2>5, <2>6 DEF FinalOK
<1>. QED  BY <1>6, <1>7, <1>8, <1>9 DEF IInv

(* The part of a step that insert_event does, for all nodes.               *)
LEMMA StepInsert ==
  ASSUME IInv, NEW n \in Peers, NEW e, DagOK(dag'), Extends(dag', dag),
         e \in DOMAIN dag', e \notin DOMAIN event[n],
         dag'[e].self_parent \in DOMAIN event[n], dag'[e].other_parent \in DOMAIN event[n],
         insert_event(n, e, dag')
  PROVE  /\ Shape'
         /\ DOMAIN event'[n] = DOMAIN event[n] \cup {e}
         /\ \A m \in Peers :
              /\ NodeOK(dag, event[m], flag_table[m], first_not_finalised_frame(m))'
              /\ FinalOK(m)'
              /\ DOMAIN event[m] \subseteq DOMAIN event'[m]
              /\ last_finalised_frame'[m] >= last_finalised_frame[m]
              /\ \A f \in 0 .. last_finalised_frame[m] : frame'[m][f] = frame[m][f]
<1>1. Shape /\ RootsOK(dag) /\ DagOK(dag)
  BY DEF IInv, DagOK
<1>2. \A m \in Peers : /\ last_finalised_frame[m] \in Int
                       /\ first_not_finalised_frame(m) = last_finalised_frame[m] + 1
                       /\ first_not_finalised_frame(m) \in Nat
  BY <1>1 DEF Shape, first_not_finalised_frame
<1>3. ASSUME NEW m \in Peers
      PROVE  NodeOK(dag', event[m], flag_table[m], first_not_finalised_frame(m))
  BY <1>1, NodeExtends DEF IInv
<1>4. InsertContext(n, dag', e)
  BY <1>3 DEF InsertContext
<1>5. /\ Shape'
      /\ last_finalised_frame'[n] = NewOpen(n, dag', e) - 1
      /\ \A f \in DOMAIN frame[n] : f \in DOMAIN frame'[n]
      /\ \A f \in first_not_finalised_frame(n) .. (NewOpen(n, dag', e) - 1) : f \in DOMAIN frame'[n]
      /\ \A f \in DOMAIN frame[n] :
           f < first_not_finalised_frame(n) => frame'[n][f] = frame[n][f]
  BY <1>1, <1>4, InsertChanges
<1>6. /\ NodeOK(dag', event'[n], flag_table'[n], first_not_finalised_frame(n)')
      /\ DOMAIN event'[n] = DOMAIN event[n] \cup {e}
  BY <1>1, <1>4, InsertNode
<1>7. NewOpen(n, dag', e) \in Nat /\ NewOpen(n, dag', e) >= first_not_finalised_frame(n)
  BY <1>4, InsertUpto
<1>8. FinalOK(n)
  BY DEF IInv
<1>9. FinalOK(n)'
  <2>. SUFFICES ASSUME NEW f \in 0 .. last_finalised_frame'[n] PROVE f \in DOMAIN frame'[n]
    BY DEF FinalOK
  <2>1. CASE f < first_not_finalised_frame(n)
    BY <1>2, <1>5, <1>8, <2>1 DEF FinalOK
  <2>2. CASE f >= first_not_finalised_frame(n)
    BY <1>2, <1>5, <1>7, <2>2
  <2>. QED  BY <1>2, <2>1, <2>2
<1>10. /\ last_finalised_frame'[n] >= last_finalised_frame[n]
       /\ \A f \in 0 .. last_finalised_frame[n] : frame'[n][f] = frame[n][f]
  BY <1>2, <1>5, <1>7, <1>8 DEF FinalOK
<1>11. ASSUME NEW m \in Peers, m # n
       PROVE  /\ event'[m] = event[m] /\ flag_table'[m] = flag_table[m]
              /\ frame'[m] = frame[m] /\ last_finalised_frame'[m] = last_finalised_frame[m]
  BY <1>1, <1>11, InsertOthers
<1>12. ASSUME NEW m \in Peers, m # n
       PROVE  /\ NodeOK(dag, event[m], flag_table[m], first_not_finalised_frame(m))'
              /\ FinalOK(m)'
  <2>1. first_not_finalised_frame(m)' = first_not_finalised_frame(m)
    BY <1>11, <1>12 DEF first_not_finalised_frame
  <2>2. FinalOK(m)
    BY DEF IInv
  <2>. QED  BY <1>3, <1>11, <1>12, <2>1, <2>2 DEF FinalOK
<1>. QED  BY <1>2, <1>5, <1>6, <1>9, <1>10, <1>11, <1>12

(* The peers next_peer can return are in the list (peer.rs:296-308).       *)
LEMMA PartnersArePeers ==
  ASSUME NEW n \in Peers
  PROVE  Partners(n) \subseteq Peers
<1>. SUFFICES ASSUME NEW r \in Nat PROVE ((n - 1 + r) % N) + 1 \in Peers
  BY DEF Partners, Halvings
<1>1. N \in Nat /\ N > 0 /\ n - 1 + r \in Int
  BY NAssumption DEF Peers
<1>2. (n - 1 + r) % N \in 0 .. (N - 1)
  BY <1>1
<1>. QED  BY <1>1, <1>2 DEF Peers

(* What every step does: the invariant holds again, and what is final on a *)
(* node stays as it is.                                                    *)
StepOK ==
  /\ IInv'
  /\ \A m \in Peers :
       /\ last_finalised_frame'[m] >= last_finalised_frame[m]
       /\ \A f \in 0 .. last_finalised_frame[m] : frame'[m][f] = frame[m][f]

(* An event formed and inserted by procedure_a keeps the invariant         *)
(* (lib.rs:246-305).                                                       *)
LEMMA CreateStep ==
  ASSUME IInv, NEW n \in Peers, NEW p \in Partners(n), CreateEvent(n, p)
  PROVE  StepOK
<1>. DEFINE k == height[n][n]
            e == <<n, k + 1>>
            sp == <<n, k>>
            op == <<p, height[n][p]>>
            content == [self_parent |-> sp, other_parent |-> op,
                        lamport_timestamp |-> lamport_time[n] + 1,
                        frame |-> CompleteFrame(dag, sp, op),
                        roots |-> CompleteRoots(dag, e, sp, op)]
<1>1. p \in Peers
  BY PartnersArePeers
<1>2. /\ k \in Nat /\ lamport_time[n] + 1 \in Nat /\ k < MaxHeight[n]
      /\ sp \in DOMAIN event[n] /\ op \in DOMAIN event[n] /\ DOMAIN event[n] \subseteq DOMAIN dag
      /\ DagOK(dag)
  BY <1>1 DEF IInv, HeightsOK, NodeOK, CreateEvent
<1>3. e \notin DOMAIN dag
  BY <1>2 DEF IInv, HeightsOK
<1>4. /\ dag' = insert(dag, e, content)
      /\ height' = [height EXCEPT ![n][n] = k + 1]
      /\ lamport_time' = [lamport_time EXCEPT ![n] = @ + 1]
      /\ insert_event(n, e, insert(dag, e, content))
  <2>1. (k + 1) - 1 = k
    BY <1>2
  <2>. QED  BY <2>1 DEF CreateEvent, NewEvent
<1>5. DagOK(dag') /\ Extends(dag', dag)
  <2>1. sp \in DOMAIN dag /\ op \in DOMAIN dag
    BY <1>2
  <2>. QED  BY <1>2, <1>3, <1>4, <2>1, DagGrows
<1>6. /\ DOMAIN dag' = DOMAIN dag \cup {e}
      /\ dag'[e].self_parent = sp /\ dag'[e].other_parent = op
  BY <1>4 DEF insert
<1>7. insert_event(n, e, dag')
  BY <1>4
<1>8. /\ Shape'
      /\ DOMAIN event'[n] = DOMAIN event[n] \cup {e}
      /\ \A m \in Peers :
           /\ NodeOK(dag, event[m], flag_table[m], first_not_finalised_frame(m))'
           /\ FinalOK(m)'
           /\ DOMAIN event[m] \subseteq DOMAIN event'[m]
           /\ last_finalised_frame'[m] >= last_finalised_frame[m]
           /\ \A f \in 0 .. last_finalised_frame[m] : frame'[m][f] = frame[m][f]
  <2>1. e \in DOMAIN dag' /\ e \notin DOMAIN event[n]
    BY <1>2, <1>3, <1>6
  <2>. HIDE DEF e, sp, op
  <2>. QED  BY <1>2, <1>5, <1>6, <1>7, <2>1, StepInsert
<1>9. lamport_time' \in [Peers -> Nat] /\ height' \in [Peers -> [Peers -> Nat]]
  BY <1>2, <1>4 DEF IInv
<1>10. \A x \in DOMAIN dag' : x[2] <= MaxHeight[Creator(x)]
  BY <1>2, <1>6, MaxHeightAssumption DEF IInv, Creator
<1>11. ASSUME NEW m \in Peers PROVE HeightsOK(m)'
  <2>1. \A q \in Peers : height'[m][q] = IF m = n /\ q = n THEN k + 1 ELSE height[m][q]
    BY <1>4 DEF IInv
  <2>2. HeightsOK(m) /\ DOMAIN event[m] \subseteq DOMAIN event'[m]
    BY <1>8 DEF IInv
  <2>3. e \in DOMAIN event'[n]
    BY <1>8
  <2>4. \A q \in Peers : <<q, height'[m][q]>> \in DOMAIN event'[m]
    BY <2>1, <2>2, <2>3 DEF HeightsOK
  <2>5. \A h \in Nat : <<m, h>> \in DOMAIN dag' => h <= height'[m][m]
    BY <1>2, <1>6, <2>1, <2>2 DEF HeightsOK
  <2>. QED  BY <2>4, <2>5 DEF HeightsOK
<1>. QED  BY <1>5, <1>8, <1>9, <1>10, <1>11 DEF StepOK, IInv

(* An event inserted by listener keeps it too (lib.rs:122-151).            *)
LEMMA ReceiveStep ==
  ASSUME IInv, NEW n \in Peers, NEW e \in DOMAIN dag \ DOMAIN event[n], ReceiveEvent(n, e)
  PROVE  StepOK
<1>1. /\ dag[e].self_parent \in DOMAIN event[n] /\ dag[e].other_parent \in DOMAIN event[n]
      /\ height' = [height EXCEPT ![n][Creator(e)] = IF @ < e[2] THEN e[2] ELSE @]
      /\ insert_event(n, e, dag)
      /\ dag' = dag /\ lamport_time' = lamport_time
  BY DEF ReceiveEvent, Receivable
<1>2. DagOK(dag') /\ Extends(dag', dag)
  BY <1>1 DEF IInv, Extends
<1>3. insert_event(n, e, dag')
  BY <1>1
<1>4. /\ Shape'
      /\ DOMAIN event'[n] = DOMAIN event[n] \cup {e}
      /\ \A m \in Peers :
           /\ NodeOK(dag, event[m], flag_table[m], first_not_finalised_frame(m))'
           /\ FinalOK(m)'
           /\ DOMAIN event[m] \subseteq DOMAIN event'[m]
           /\ last_finalised_frame'[m] >= last_finalised_frame[m]
           /\ \A f \in 0 .. last_finalised_frame[m] : frame'[m][f] = frame[m][f]
  BY <1>1, <1>2, <1>3, StepInsert
<1>5. PICK c \in Peers, h \in Nat : e = <<c, h>> /\ Creator(e) = c
  BY DEF IInv, DagOK, Events, Creator
<1>6. height' \in [Peers -> [Peers -> Nat]]
  BY <1>1, <1>5 DEF IInv
<1>7. ASSUME NEW m \in Peers PROVE HeightsOK(m)'
  <2>1. /\ \A q \in Peers : \/ height'[m][q] = height[m][q]
                            \/ m = n /\ q = c /\ height'[m][q] = h
        /\ \A q \in Peers : height'[m][q] >= height[m][q]
    BY <1>1, <1>5 DEF IInv
  <2>2. HeightsOK(m) /\ DOMAIN event[m] \subseteq DOMAIN event'[m]
    BY <1>4 DEF IInv
  <2>3. \A q \in Peers : <<q, height'[m][q]>> \in DOMAIN event'[m]
    BY <1>4, <1>5, <2>1, <2>2 DEF HeightsOK
  <2>4. height[m][m] \in Nat /\ height'[m][m] \in Nat
    BY <1>6 DEF IInv
  <2>5. \A j \in Nat : <<m, j>> \in DOMAIN dag' => j <= height'[m][m]
    BY <1>1, <2>1, <2>2, <2>4 DEF HeightsOK
  <2>. QED  BY <2>3, <2>5 DEF HeightsOK
<1>8. /\ lamport_time' \in [Peers -> Nat]
      /\ \A x \in DOMAIN dag' : x[2] <= MaxHeight[Creator(x)]
  BY <1>1 DEF IInv
<1>. QED  BY <1>2, <1>4, <1>6, <1>7, <1>8 DEF StepOK, IInv

(* A step that leaves the stores and the DAG alone.                        *)
LEMMA IdleStep ==
  ASSUME IInv, UNCHANGED <<dag, event, flag_table, frame, last_finalised_frame, height>>,
         lamport_time' \in [Peers -> Nat]
  PROVE  StepOK
<1>1. Shape'
  BY DEF IInv, Shape
<1>2. \A n \in Peers : first_not_finalised_frame(n)' = first_not_finalised_frame(n)
  BY DEF first_not_finalised_frame
<1>3. \A n \in Peers : HeightsOK(n)' /\ FinalOK(n)'
  BY DEF IInv, HeightsOK, FinalOK
<1>4. \A n \in Peers :
        NodeOK(dag, event[n], flag_table[n], first_not_finalised_frame(n))'
  BY <1>2 DEF IInv
<1>5. DagOK(dag)' /\ height' \in [Peers -> [Peers -> Nat]]
      /\ \A e \in DOMAIN dag' : e[2] <= MaxHeight[Creator(e)]
  BY DEF IInv
<1>6. \A m \in Peers : last_finalised_frame'[m] >= last_finalised_frame[m]
  BY DEF IInv, Shape
<1>. QED  BY <1>1, <1>3, <1>4, <1>5, <1>6 DEF StepOK, IInv

(* Every step keeps the invariant and leaves what is final alone.          *)
LEMMA StepInv == IInv /\ [Next]_vars => StepOK
<1>. SUFFICES ASSUME IInv, [Next]_vars PROVE StepOK
  OBVIOUS
<1>1. CASE UNCHANGED vars
  <2>1. lamport_time' \in [Peers -> Nat]
    BY <1>1 DEF vars, IInv
  <2>. QED  BY <1>1, <2>1, IdleStep DEF vars
<1>2. ASSUME NEW n \in Peers, NEW p \in Partners(n), CreateEvent(n, p)
      PROVE  StepOK
  BY <1>2, CreateStep
<1>3. ASSUME NEW n \in Peers, UpdateLamportTime(n)
      PROVE  StepOK
  <2>1. PICK m \in Peers \ {n} : \E time \in (lamport_time[n] + 1) .. lamport_time[m] :
          /\ lamport_time' = [lamport_time EXCEPT ![n] = time]
          /\ UNCHANGED <<dag, event, flag_table, frame, last_finalised_frame, height>>
    BY <1>3 DEF UpdateLamportTime
  <2>2. PICK time \in (lamport_time[n] + 1) .. lamport_time[m] :
          /\ lamport_time' = [lamport_time EXCEPT ![n] = time]
          /\ UNCHANGED <<dag, event, flag_table, frame, last_finalised_frame, height>>
    BY <2>1
  <2>3. lamport_time[n] \in Nat
    BY DEF IInv
  <2>4. time \in Nat
    BY <2>3
  <2>5. lamport_time' \in [Peers -> Nat]
    BY <2>2, <2>4 DEF IInv
  <2>. QED  BY <2>2, <2>5, IdleStep
<1>4. ASSUME NEW n \in Peers, NEW e \in DOMAIN dag \ DOMAIN event[n], ReceiveEvent(n, e)
      PROVE  StepOK
  BY <1>4, ReceiveStep
<1>. QED  BY <1>1, <1>2, <1>3, <1>4 DEF Next

(* The inductive invariant: every node's store is a faithful picture of a  *)
(* part of the DAG that contains the parents of its events, and what is    *)
(* final is complete (core.rs:183-308, lib.rs:122-151, 246-305).           *)
THEOREM Invariance == Spec => []IInv
<1>1. Init => IInv
  BY InitInv
<1>2. IInv /\ [Next]_vars => IInv'
  BY StepInv DEF StepOK
<1>. QED  BY <1>1, <1>2, PTL DEF Spec

-----------------------------------------------------------------------------
(* What the invariant means for the properties of DAGcore. *)

(* Every stored event has on every node the frame number its creator gave  *)
(* it (core.rs:197-227 over the tables pruned at core.rs:235-240).         *)
THEOREM FrameAgreementHolds == Spec => []FrameAgreement
<1>1. IInv => FrameAgreement
  BY DEF IInv, NodeOK, FrameAgreement
<1>. QED  BY <1>1, Invariance, PTL

(* A stored flag table loses no visible root that a later frame decision   *)
(* or finalisation can ask for (flag_table.rs:60-84).                      *)
THEOREM FlagTableFaithfulHolds == Spec => []FlagTableFaithful
<1>1. IInv => FlagTableFaithful
  BY DEF IInv, NodeOK, FaithfulAt, FlagTableFaithful
<1>. QED  BY <1>1, Invariance, PTL

(* A finalised frame has every event the DAG will ever have with its       *)
(* number; so two nodes that finalised it have the same events in it.      *)
THEOREM FinalisedFrameCompleteHolds == Spec => []FinalisedFrameComplete
<1>1. IInv => FinalisedFrameComplete
  <2>. SUFFICES ASSUME IInv, NEW n \in Peers, NEW e \in DOMAIN dag,
                       dag[e].frame <= last_finalised_frame[n], e \notin DOMAIN event[n]
                PROVE  FALSE
    BY DEF FinalisedFrameComplete
  <2>1. dag[e].frame >= first_not_finalised_frame(n)
    BY Fresh DEF IInv
  <2>2. dag[e].frame \in Nat
    BY DEF IInv, DagOK, EventContent
  <2>. QED  BY <2>1, <2>2 DEF IInv, Shape, first_not_finalised_frame
<1>. QED  BY <1>1, Invariance, PTL

(* No step changes a finalised frame or takes a finalisation back          *)
(* (core.rs:277-306).                                                      *)
THEOREM FinalisedFramesStableHolds == Spec => FinalisedFramesStable
<1>1. IInv /\ [Next]_vars =>
        [\A n \in Peers :
           /\ last_finalised_frame'[n] >= last_finalised_frame[n]
           /\ \A f \in 0 .. last_finalised_frame[n] : frame'[n][f] = frame[n][f]]_vars
  BY StepInv DEF StepOK
<1>. QED  BY <1>1, Invariance, PTL DEF Spec, FinalisedFramesStable

(* A flag table names stored events only, so no lookup of a root fails     *)
(* (core.rs:235-251, store.rs:64-72).                                      *)
THEOREM RootsStoredHolds == Spec => []RootsStored
<1>1. IInv => RootsStored
  BY DEF IInv, NodeOK, FaithfulAt, RootsStored
<1>. QED  BY <1>1, Invariance, PTL

(* The variables keep their types and a flag table is stored with every    *)
(* event (core.rs:241-259).                                                *)
THEOREM StoreTypeOKHolds == Spec => []StoreTypeOK
<1>1. IInv => StoreTypeOK
  <2>. SUFFICES ASSUME IInv PROVE StoreTypeOK
    OBVIOUS
  <2>1. /\ DOMAIN dag \subseteq {e \in Events : e[2] <= MaxHeight[Creator(e)]}
        /\ dag \in [DOMAIN dag -> EventContent]
        /\ lamport_time \in [Peers -> Nat] /\ height \in [Peers -> [Peers -> Nat]]
        /\ last_finalised_frame \in [Peers -> Nat \cup {-1}]
        /\ DOMAIN event = Peers /\ DOMAIN flag_table = Peers
    BY DEF IInv, Shape, DagOK
  <2>2. ASSUME NEW n \in Peers
        PROVE  /\ DOMAIN event[n] \subseteq DOMAIN dag
               /\ event[n] \in [DOMAIN event[n] -> Nat]
               /\ DOMAIN flag_table[n] = DOMAIN event[n]
               /\ \A e \in DOMAIN event[n] :
                    flag_table[n][e] \in [DOMAIN flag_table[n][e] -> Nat]
    BY DEF IInv, NodeOK, FaithfulAt
  <2>. QED  BY <2>1, <2>2 DEF StoreTypeOK
<1>. QED  BY <1>1, Invariance, PTL
-----------------------------------------------------------------------------
(* The stores implement the spreading of one DAG (module Spread). *)

(* Storing an event changes one node's set of stored events.               *)
LEMMA InsertHolds ==
  ASSUME Shape, NEW n \in Peers, NEW e, NEW d, insert_event(n, e, d)
  PROVE  Dissemination!Hold(n, e)
<1>. DEFINE stored == insert(event[n], e, FrameOf(n, d[e].self_parent, d[e].other_parent))
<1>1. event' = [event EXCEPT ![n] = stored]
  BY DEF insert_event
<1>2. DOMAIN stored = DOMAIN event[n] \cup {e}
  BY DEF insert
<1>3. event'[n] = stored /\ \A m \in Peers \ {n} : event'[m] = event[m]
  BY <1>1 DEF Shape
<1>. HIDE DEF stored
<1>4. \A m \in Peers :
        DOMAIN event'[m] = IF m = n THEN DOMAIN event[m] \cup {e} ELSE DOMAIN event[m]
  BY <1>2, <1>3
<1>. QED  BY <1>4 DEF Dissemination!Hold, StoredBy

(* procedure_a's event is the next of its creator, over stored events.     *)
LEMMA CreateForms ==
  ASSUME IInv, NEW n \in Peers, NEW p \in Partners(n), CreateEvent(n, p)
  PROVE  \E e \in DOMAIN ParentsOf' : \E parents \in SUBSET StoredBy[n] :
           Dissemination!Form(n, e, parents)
<1>. DEFINE k == height[n][n]
            e == <<n, k + 1>>
            sp == <<n, k>>
            op == <<p, height[n][p]>>
            content == [self_parent |-> sp, other_parent |-> op,
                        lamport_timestamp |-> lamport_time[n] + 1,
                        frame |-> CompleteFrame(dag, sp, op),
                        roots |-> CompleteRoots(dag, e, sp, op)]
<1>1. p \in Peers
  BY PartnersArePeers
<1>2. /\ k \in Nat /\ sp \in DOMAIN event[n] /\ op \in DOMAIN event[n]
      /\ DOMAIN event[n] \subseteq DOMAIN dag /\ DOMAIN dag \subseteq Events
      /\ e \notin DOMAIN dag
  BY <1>1 DEF IInv, HeightsOK, NodeOK, DagOK
<1>3. dag' = insert(dag, e, content) /\ insert_event(n, e, insert(dag, e, content))
  <2>1. (k + 1) - 1 = k
    BY <1>2
  <2>. QED  BY <2>1 DEF CreateEvent, NewEvent
<1>4. Dissemination!Hold(n, e)
  BY <1>3, InsertHolds DEF IInv
<1>5. /\ DOMAIN dag' = DOMAIN dag \cup {e}
      /\ dag'[e].self_parent = sp /\ dag'[e].other_parent = op
      /\ \A x \in DOMAIN dag : dag'[x] = dag[x]
  BY <1>2, <1>3 DEF insert
<1>6. {sp, op} \ {NoHash} = {sp, op}
  BY <1>2, NoHashAssumption
<1>7. e[1] = n /\ sp = <<n, e[2] - 1>>
  BY <1>2
<1>. HIDE DEF e, sp, op
<1>8. ParentsOf' = [x \in DOMAIN ParentsOf \cup {e} |-> IF x = e THEN {sp, op} ELSE ParentsOf[x]]
  BY <1>2, <1>5, <1>6 DEF ParentsOf
<1>9. e \notin DOMAIN ParentsOf /\ e \in DOMAIN ParentsOf'
  BY <1>2, <1>8 DEF ParentsOf
<1>10. {sp, op} \in SUBSET StoredBy[n]
  BY <1>2 DEF StoredBy
<1>11. Dissemination!Form(n, e, {sp, op})
  BY <1>4, <1>7, <1>8, <1>9 DEF Dissemination!Form
<1>. QED  BY <1>9, <1>10, <1>11

(* Every step of the core is a step of Spread or leaves it alone.          *)
LEMMA StepSpreads ==
  ASSUME IInv, [Next]_vars
  PROVE  [Dissemination!SpreadNext]_(Dissemination!spreadVars)
<1>1. CASE UNCHANGED vars
  BY <1>1 DEF vars, Dissemination!spreadVars, ParentsOf, StoredBy
<1>2. ASSUME NEW n \in Peers, NEW p \in Partners(n), CreateEvent(n, p)
      PROVE  Dissemination!SpreadNext
  BY <1>2, CreateForms DEF Dissemination!SpreadNext
<1>3. ASSUME NEW n \in Peers, UpdateLamportTime(n)
      PROVE  UNCHANGED Dissemination!spreadVars
  BY <1>3 DEF UpdateLamportTime, Dissemination!spreadVars, ParentsOf, StoredBy
<1>4. ASSUME NEW n \in Peers, NEW e \in DOMAIN dag \ DOMAIN event[n], ReceiveEvent(n, e)
      PROVE  Dissemination!SpreadNext
  <2>1. /\ dag[e].self_parent \in DOMAIN event[n] /\ dag[e].other_parent \in DOMAIN event[n]
        /\ insert_event(n, e, dag) /\ dag' = dag
    BY <1>4 DEF ReceiveEvent, Receivable
  <2>2. Dissemination!Hold(n, e)
    BY <2>1, InsertHolds DEF IInv
  <2>3. /\ e \in DOMAIN ParentsOf \ StoredBy[n] /\ ParentsOf[e] \subseteq StoredBy[n]
        /\ ParentsOf' = ParentsOf
    BY <2>1 DEF ParentsOf, StoredBy
  <2>4. Dissemination!Learn(n, e)
    BY <2>2, <2>3 DEF Dissemination!Learn
  <2>. QED  BY <2>3, <2>4 DEF Dissemination!SpreadNext
<1>. QED  BY <1>1, <1>2, <1>3, <1>4 DEF Next

(* The core implements the causal spreading of one DAG: no event changes,  *)
(* no creator forks, no event is stored before its parents                 *)
(* (lib.rs:246-305, 122-151).                                              *)
THEOREM ImplementsSpreadHolds == Spec => ImplementsSpread
<1>1. Init => Dissemination!SpreadInit
  <2>. SUFFICES ASSUME Init PROVE Dissemination!SpreadInit
    OBVIOUS
  <2>1. ParentsOf = [e \in Leaves |-> {}]
    BY DEF Init, ParentsOf
  <2>2. StoredBy = [n \in Peers |-> Leaves]
    BY DEF Init, StoredBy
  <2>. QED  BY <2>1, <2>2 DEF Dissemination!SpreadInit
<1>2. IInv /\ [Next]_vars => [Dissemination!SpreadNext]_(Dissemination!spreadVars)
  BY StepSpreads
<1>. QED  BY <1>1, <1>2, Invariance, PTL DEF Spec, ImplementsSpread, Dissemination!SpreadSpec
=============================================================================
