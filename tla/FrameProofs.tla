---------------------------- MODULE FrameProofs ----------------------------
(***************************************************************************)
(* The frames of module DAGcore, for every number of peers and every bound *)
(* on the heights: what finalise does to a frame, that the frames on disk  *)
(* and the events on disk say the same, and that two nodes that finalise a *)
(* frame have the same events in it, in the same order.                    *)
(*                                                                         *)
(* The argument.  The events of one frame number are all known when the    *)
(* frame becomes final (DAGcoreProofs), each is recorded once, and their   *)
(* order by Lamport time and hash is total.  A set has only one sorted     *)
(* enumeration, so there is only one outcome of finalise.  What modules    *)
(* Delivery and Transactions take for granted of the frames comes next: it *)
(* needs that an event is at most one frame above one that a majority is   *)
(* in, and that clocks rise along every chain.                             *)
(*                                                                         *)
(* The last part is about stores into which events are inserted again:     *)
(* a second record stays for good, so a node without one has inserted      *)
(* every event once, and all of the above still holds there.  LateProofs   *)
(* and GossipProofs rest on it.                                            *)
(***************************************************************************)
EXTENDS DAGcoreProofs

-----------------------------------------------------------------------------
(* Sorting. *)

(* The elements of S have what finalise compares. *)
Comparable(d, S) == S \subseteq Events /\ \A x \in S : d[x].lamport_timestamp \in Nat

(* s has every element of S once and nothing else. *)
Lists(s, S) ==
  /\ s \in Seq(S)
  /\ \A x \in S : \E i \in 1 .. Len(s) : s[i] = x
  /\ \A i, j \in 1 .. Len(s) : s[i] = s[j] => i = j

Sorted(d, s) == \A i, j \in 1 .. Len(s) : i < j => Before(d, s[i], s[j])

(* Lamport time, then hash, is a strict total order (frame.rs:40-53).      *)
LEMMA BeforeOrder ==
  ASSUME NEW d, NEW S, Comparable(d, S)
  PROVE  /\ \A x \in S : ~ Before(d, x, x)
         /\ \A x, y \in S : Before(d, x, y) => ~ Before(d, y, x)
         /\ \A x, y, z \in S : Before(d, x, y) /\ Before(d, y, z) => Before(d, x, z)
         /\ \A x, y \in S : x # y => Before(d, x, y) \/ Before(d, y, x)
<1>1. \A x \in S : x[1] \in Int /\ x[2] \in Int /\ x = <<x[1], x[2]>>
  BY DEF Comparable, Events, Peers
<1>2. \A x \in S : d[x].lamport_timestamp \in Int
  BY DEF Comparable
<1>. DEFINE t == [x \in S |-> d[x].lamport_timestamp]
<1>3. \A x, y \in S : Before(d, x, y) <=> \/ t[x] < t[y]
                                          \/ t[x] = t[y] /\ x[1] < y[1]
                                          \/ t[x] = t[y] /\ x[1] = y[1] /\ x[2] < y[2]
  BY DEF Before, HashLess
<1>4. \A x \in S : t[x] \in Int
  BY <1>2
<1>. HIDE DEF t
<1>5. \A x, y \in S : x # y => x[1] # y[1] \/ x[2] # y[2]
  BY <1>1
<1>. QED  BY <1>1, <1>3, <1>4, <1>5

(* A strictly smaller element has strictly fewer elements before it.       *)
LEMMA RankMonotone ==
  ASSUME NEW d, NEW S, Comparable(d, S), NEW s \in Seq(S),
         NEW k \in 1 .. Len(s), NEW y \in S, Before(d, s[k], y)
  PROVE  Cardinality({j \in 1 .. Len(s) : Before(d, s[j], s[k])})
           < Cardinality({j \in 1 .. Len(s) : Before(d, s[j], y)})
<1>. DEFINE A == {j \in 1 .. Len(s) : Before(d, s[j], s[k])}
            B == {j \in 1 .. Len(s) : Before(d, s[j], y)}
<1>1. \A j \in 1 .. Len(s) : s[j] \in S
  OBVIOUS
<1>2. A \subseteq B /\ k \in B /\ k \notin A
  BY <1>1, BeforeOrder
<1>3. IsFiniteSet(B)
  <2>1. IsFiniteSet(1 .. Len(s))
    BY FS_Interval
  <2>2. B \in SUBSET (1 .. Len(s))
    OBVIOUS
  <2>. HIDE DEF B
  <2>. QED  BY <2>1, <2>2, FS_Subset
<1>. HIDE DEF A, B
<1>4. IsFiniteSet(A) /\ Cardinality(A) <= Cardinality(B) /\ Cardinality(A) # Cardinality(B)
  BY <1>2, <1>3, FS_Subset
<1>5. Cardinality(A) \in Nat /\ Cardinality(B) \in Nat
  BY <1>3, <1>4, FS_CardinalityType
<1>6. Cardinality(A) < Cardinality(B)
  BY <1>4, <1>5
<1>. QED  BY <1>6 DEF A, B

(* finalise sorts: no record is lost or doubled (frame.rs:39-54).          *)
LEMMA FinaliseSorts ==
  ASSUME NEW d, NEW S, Comparable(d, S), NEW s, Lists(s, S)
  PROVE  Lists(finalise(d, s), S) /\ Sorted(d, finalise(d, s)) /\ Len(finalise(d, s)) = Len(s)
<1>. DEFINE n == Len(s)
            below == [x \in S |-> {j \in 1 .. n : Before(d, s[j], x)}]
            upto == [x \in S |-> {j \in 1 .. n : ~ Before(d, x, s[j])}]
            rank == [k \in 1 .. n |-> Cardinality(below[s[k]]) + 1]
            r == finalise(d, s)
<1>1. n \in Nat /\ DOMAIN s = 1 .. n /\ s \in Seq(S) /\ \A k \in 1 .. n : s[k] \in S
  BY DEF Lists
<1>2. \A x \in S : \E k \in 1 .. n : s[k] = x
  BY DEF Lists
<1>3. ASSUME NEW x \in S
      PROVE  /\ Cardinality(below[x]) \in Nat /\ Cardinality(below[x]) < n
             /\ Cardinality(upto[x]) = Cardinality(below[x]) + 1
  <2>1. PICK k \in 1 .. n : s[k] = x
    BY <1>2
  <2>2. \A j \in 1 .. n : ~ Before(d, x, s[j]) <=> Before(d, s[j], x) \/ j = k
    <3>1. \A j \in 1 .. n : s[j] = x => j = k
      BY <2>1 DEF Lists
    <3>. QED  BY <1>1, <2>1, <3>1, BeforeOrder
  <2>3. upto[x] = below[x] \cup {k} /\ k \notin below[x]
    BY <1>1, <2>1, <2>2, BeforeOrder
  <2>4. IsFiniteSet(1 .. n) /\ Cardinality(1 .. n) = n
    BY <1>1, FS_Interval
  <2>5. below[x] \in SUBSET (1 .. n) /\ below[x] \cup {k} \in SUBSET (1 .. n)
    OBVIOUS
  <2>. HIDE DEF below, upto, n
  <2>6. IsFiniteSet(below[x])
    BY <2>4, <2>5, FS_Subset
  <2>7. Cardinality(below[x]) \in Nat
    BY <2>6, FS_CardinalityType
  <2>8. Cardinality(below[x] \cup {k}) = Cardinality(below[x]) + 1
    BY <2>3, <2>6, FS_AddElement
  <2>9. Cardinality(below[x] \cup {k}) <= n
    BY <2>4, <2>5, FS_Subset
  <2>. QED  BY <1>1, <2>3, <2>7, <2>8, <2>9
<1>4. \A x, y \in S : Before(d, x, y) => Cardinality(below[x]) < Cardinality(below[y])
  BY <1>1, <1>2, RankMonotone
<1>5. \A x, y \in S : x # y => Cardinality(below[x]) # Cardinality(below[y])
  <2>1. \A x \in S : Cardinality(below[x]) \in Nat
    BY <1>3
  <2>. HIDE DEF below, upto, rank, n
  <2>. QED  BY <2>1, <1>4, BeforeOrder
<1>6. \A i \in 1 .. n : \E x \in S : Cardinality(below[x]) + 1 = i
  <2>1. rank \in [1 .. n -> 1 .. n]
    <3>1. \A x \in S : Cardinality(below[x]) + 1 \in 1 .. n
      <4>. HIDE DEF below, upto, n
      <4>. QED  BY <1>1, <1>3
    <3>. HIDE DEF below, upto, n
    <3>. QED  BY <1>1, <3>1
  <2>2. \A k, l \in 1 .. n : rank[k] = rank[l] => k = l
    <3>. SUFFICES ASSUME NEW k \in 1 .. n, NEW l \in 1 .. n, rank[k] = rank[l] PROVE k = l
      OBVIOUS
    <3>1. s[k] = s[l]
      <4>1. \A x \in S : Cardinality(below[x]) \in Nat
        BY <1>3
      <4>2. Cardinality(below[s[k]]) + 1 = Cardinality(below[s[l]]) + 1
        <5>. HIDE DEF below, upto, n
        <5>. QED  OBVIOUS
      <4>. HIDE DEF below, upto, n, rank
      <4>3. s[k] \in S /\ s[l] \in S
        BY <1>1
      <4>4. Cardinality(below[s[k]]) \in Nat /\ Cardinality(below[s[l]]) \in Nat
        BY <4>1, <4>3
      <4>5. Cardinality(below[s[k]]) = Cardinality(below[s[l]])
        BY <4>2, <4>4
      <4>. QED  BY <1>5, <4>3, <4>5
    <3>. QED  BY <3>1 DEF Lists
  <2>3. IsFiniteSet(1 .. n)
    BY <1>1, FS_Interval
  <2>. HIDE DEF rank, n
  <2>4. rank \in Injection(1 .. n, 1 .. n)
    BY <2>1, <2>2 DEF Injection, IsInjective
  <2>5. rank \in Surjection(1 .. n, 1 .. n)
    BY <2>3, <2>4, FS_Injection
  <2>6. \A i \in 1 .. n : \E k \in 1 .. n : rank[k] = i
    BY <2>5 DEF Surjection
  <2>. QED  BY <1>1, <2>6 DEF rank
<1>7. Range(s) = S
  BY <1>1, <1>2 DEF Range
<1>8. ASSUME NEW i \in 1 .. n PROVE r[i] \in S /\ Cardinality(below[r[i]]) = i - 1
  <2>1. r[i] = CHOOSE x \in S : /\ Cardinality(below[x]) < i
                                /\ Cardinality(upto[x]) >= i
    <3>1. /\ \A x \in S : below[x] = {j \in DOMAIN s : Before(d, s[j], x)}
          /\ \A x \in S : upto[x] = {j \in DOMAIN s : ~ Before(d, x, s[j])}
      BY <1>1
    <3>2. r[i] = CHOOSE x \in S :
                   /\ Cardinality({j \in DOMAIN s : Before(d, s[j], x)}) < i
                   /\ Cardinality({j \in DOMAIN s : ~ Before(d, x, s[j])}) >= i
      BY <1>1, <1>7 DEF finalise
    <3>. HIDE DEF below, upto, r, n, rank
    <3>. QED  BY <3>1, <3>2
  <2>2. PICK x \in S : Cardinality(below[x]) + 1 = i
    BY <1>6
  <2>3. \E y \in S : /\ Cardinality(below[y]) < i
                     /\ Cardinality(upto[y]) >= i
    <3>. HIDE DEF below, upto, n
    <3>. QED  BY <1>3, <2>2
  <2>4. /\ r[i] \in S /\ Cardinality(below[r[i]]) < i
        /\ Cardinality(upto[r[i]]) >= i
    <3>. HIDE DEF below, upto, n, r, rank
    <3>. QED  BY <2>1, <2>3
  <2>. HIDE DEF below, upto, n, r, rank
  <2>. QED  BY <1>3, <2>4
<1>9. DOMAIN r = 1 .. n /\ r \in Seq(S) /\ Len(r) = n
  <2>1. r = [i \in 1 .. n |-> r[i]]
    <3>. DEFINE entry(i) ==
                  CHOOSE x \in Range(s) :
                    /\ Cardinality({j \in DOMAIN s : Before(d, s[j], x)}) < i
                    /\ Cardinality({j \in DOMAIN s : ~ Before(d, x, s[j])}) >= i
    <3>1. r = [i \in DOMAIN s |-> entry(i)]
      BY DEF finalise
    <3>. HIDE DEF entry, r, n
    <3>. QED  BY <1>1, <3>1
  <2>2. \A i \in 1 .. n : r[i] \in S
    BY <1>8
  <2>. HIDE DEF r, n
  <2>. QED  BY <1>1, <2>1, <2>2
<1>. HIDE DEF r
<1>10. Sorted(d, r)
  <2>. SUFFICES ASSUME NEW i \in 1 .. n, NEW j \in 1 .. n, i < j PROVE Before(d, r[i], r[j])
    BY <1>9 DEF Sorted
  <2>. HIDE DEF below, upto, n, rank
  <2>1. /\ r[i] \in S /\ Cardinality(below[r[i]]) = i - 1
        /\ r[j] \in S /\ Cardinality(below[r[j]]) = j - 1
    BY <1>8
  <2>2. i \in Int /\ j \in Int /\ ~ (j - 1 < i - 1) /\ i - 1 # j - 1
    BY <1>1
  <2>3. r[i] # r[j]
    BY <2>1, <2>2
  <2>4. ~ Before(d, r[j], r[i])
    <3>1. Before(d, r[j], r[i]) => Cardinality(below[r[j]]) < Cardinality(below[r[i]])
      BY <1>4, <2>1
    <3>. QED  BY <2>1, <2>2, <3>1
  <2>. QED  BY <2>1, <2>3, <2>4, BeforeOrder
<1>11. Lists(r, S)
  <2>1. \A i, j \in 1 .. n : r[i] = r[j] => i = j
    <3>. HIDE DEF below
    <3>. QED  BY <1>1, <1>8
  <2>2. ASSUME NEW x \in S PROVE \E i \in 1 .. n : r[i] = x
    <3>1. Cardinality(below[x]) + 1 \in 1 .. n
      <4>. HIDE DEF below, upto, n, rank
      <4>. QED  BY <1>1, <1>3
    <3>2. Cardinality(below[x]) \in Nat
      BY <1>3
    <3>. HIDE DEF below, upto, n, rank
    <3>. QED  BY <1>1, <1>5, <1>8, <3>1, <3>2
  <2>. QED  BY <1>9, <2>1, <2>2 DEF Lists
<1>. QED  BY <1>9, <1>10, <1>11 DEF r

(* A listing of a set is as long as the set is large. *)
LEMMA ListLength ==
  ASSUME NEW S, NEW s, Lists(s, S)
  PROVE  IsFiniteSet(S) /\ Cardinality(S) = Len(s)
<1>1. Len(s) \in Nat /\ s \in [1 .. Len(s) -> S]
  BY DEF Lists
<1>2. s \in Bijection(1 .. Len(s), S)
  BY <1>1 DEF Lists, Bijection, Injection, Surjection, IsInjective
<1>3. IsFiniteSet(1 .. Len(s)) /\ Cardinality(1 .. Len(s)) = Len(s)
  BY <1>1, FS_Interval
<1>. QED  BY <1>2, <1>3, FS_Bijection DEF ExistsBijection

(* A set has one sorted listing.                                           *)
LEMMA SortedUnique ==
  ASSUME NEW d, NEW S, Comparable(d, S), NEW s, NEW t,
         Lists(s, S), Lists(t, S), Sorted(d, s), Sorted(d, t)
  PROVE  s = t
<1>. DEFINE n == Len(s)
            D == {i \in 1 .. n : s[i] # t[i]}
<1>1. n \in Nat /\ Len(t) = n
  <2>1. Len(s) = Cardinality(S)
    BY ListLength
  <2>2. Len(t) = Cardinality(S)
    BY ListLength
  <2>. QED  BY <2>1, <2>2 DEF Lists
<1>4. s = [i \in 1 .. n |-> s[i]] /\ t = [i \in 1 .. n |-> t[i]]
  BY <1>1 DEF Lists
<1>5. \A i, j \in 1 .. n : (s[i] = s[j] => i = j) /\ (t[i] = t[j] => i = j)
  BY <1>1 DEF Lists
<1>2. D = {}
  <2>. SUFFICES ASSUME D # {} PROVE FALSE
    OBVIOUS
  <2>1. D \subseteq Nat
    OBVIOUS
  <2>2. PICK i \in D : \A k \in D : i <= k
    <3>. HIDE DEF D
    <3>. QED  BY <2>1, MinProperty
  <2>3. i \in 1 .. n /\ s[i] # t[i] /\ \A k \in 1 .. n : k < i => s[k] = t[k]
    BY <2>1, <2>2
  <2>4. s[i] \in S /\ t[i] \in S
    BY <1>1, <2>3 DEF Lists
  <2>5. PICK j \in 1 .. n : t[j] = s[i]
    BY <1>1, <2>4 DEF Lists
  <2>6. PICK l \in 1 .. n : s[l] = t[i]
    BY <1>1, <2>4 DEF Lists
  <2>. HIDE DEF n, D
  <2>7. j > i
    BY <1>1, <1>5, <2>3, <2>5
  <2>8. l > i
    BY <1>1, <1>5, <2>3, <2>6
  <2>9. Before(d, t[i], s[i]) /\ Before(d, s[i], t[i])
    BY <1>1, <2>3, <2>5, <2>6, <2>7, <2>8 DEF Sorted, n
  <2>. QED  BY <2>4, <2>9, BeforeOrder
<1>3. \A i \in 1 .. n : s[i] = t[i]
  BY <1>2
<1>. QED  BY <1>3, <1>4

-----------------------------------------------------------------------------
(* One step, as the stores see it. *)

(* Node n inserts e: the DAG is as it was, or has grown by e before.       *)
Inserts(n, e) ==
  /\ DagOK(dag') /\ Extends(dag', dag)
  /\ InsertContext(n, dag', e)
  /\ insert_event(n, e, dag')

(* A step that changes a store or the DAG is one insert_event.             *)
LEMMA StepInserts ==
  ASSUME IInv, [Next]_vars
  PROVE  \/ UNCHANGED <<dag, event, flag_table, frame, last_finalised_frame>>
         \/ \E n \in Peers : \E e \in DOMAIN dag' : Inserts(n, e)
<1>1. CASE UNCHANGED vars
  BY <1>1 DEF vars
<1>2. ASSUME NEW n \in Peers, NEW p \in Partners(n), CreateEvent(n, p)
      PROVE  \E e \in DOMAIN dag' : Inserts(n, e)
  <2>. DEFINE k == height[n][n]
              e == <<n, k + 1>>
              sp == <<n, k>>
              op == <<p, height[n][p]>>
              content == [self_parent |-> sp, other_parent |-> op,
                          lamport_timestamp |-> lamport_time[n] + 1,
                          frame |-> CompleteFrame(dag, sp, op),
                          roots |-> CompleteRoots(dag, e, sp, op)]
  <2>1. p \in Peers
    BY PartnersArePeers
  <2>2. /\ k \in Nat /\ lamport_time[n] + 1 \in Nat
        /\ sp \in DOMAIN event[n] /\ op \in DOMAIN event[n]
        /\ DOMAIN event[n] \subseteq DOMAIN dag
        /\ e \notin DOMAIN dag
    BY <2>1 DEF IInv, HeightsOK, NodeOK
  <2>3. dag' = insert(dag, e, content) /\ insert_event(n, e, insert(dag, e, content))
    <3>1. (k + 1) - 1 = k
      BY <2>2
    <3>. QED  BY <1>2, <3>1 DEF CreateEvent, NewEvent
  <2>4. DagOK(dag') /\ Extends(dag', dag)
    <3>1. sp \in DOMAIN dag /\ op \in DOMAIN dag /\ DagOK(dag)
      BY <2>2 DEF IInv
    <3>. QED  BY <2>2, <2>3, <3>1, DagGrows
  <2>5. e \in DOMAIN dag' /\ dag'[e].self_parent = sp /\ dag'[e].other_parent = op
    BY <2>3 DEF insert
  <2>6. NodeOK(dag', event[n], flag_table[n], first_not_finalised_frame(n))
    BY <2>4, NodeExtends DEF IInv, DagOK
  <2>7. e \notin DOMAIN event[n]
    BY <2>2
  <2>8. InsertContext(n, dag', e)
    <3>. HIDE DEF e, sp, op
    <3>. QED  BY <2>2, <2>4, <2>5, <2>6, <2>7 DEF InsertContext
  <2>9. insert_event(n, e, dag')
    BY <2>3
  <2>. HIDE DEF e
  <2>. QED  BY <2>4, <2>5, <2>8, <2>9 DEF Inserts
<1>3. ASSUME NEW n \in Peers, UpdateLamportTime(n)
      PROVE  UNCHANGED <<dag, event, flag_table, frame, last_finalised_frame>>
  BY <1>3 DEF UpdateLamportTime
<1>4. ASSUME NEW n \in Peers, NEW e \in DOMAIN dag \ DOMAIN event[n], ReceiveEvent(n, e)
      PROVE  \E x \in DOMAIN dag' : Inserts(n, x)
  <2>1. /\ dag[e].self_parent \in DOMAIN event[n] /\ dag[e].other_parent \in DOMAIN event[n]
        /\ insert_event(n, e, dag) /\ dag' = dag
    BY <1>4 DEF ReceiveEvent, Receivable
  <2>2. DagOK(dag') /\ Extends(dag', dag)
    BY <2>1 DEF IInv, Extends
  <2>3. InsertContext(n, dag', e) /\ insert_event(n, e, dag')
    BY <2>1, <2>2 DEF InsertContext, IInv
  <2>. QED  BY <2>1, <2>2, <2>3 DEF Inserts
<1>. QED  BY <1>1, <1>2, <1>3, <1>4 DEF Next

-----------------------------------------------------------------------------
(* The frames of one node, against its events.  first is its first open    *)
(* frame.                                                                  *)
FramesOK(d, ev, frames, first) ==
  /\ \E top \in Nat : DOMAIN frames = 0 .. top
  /\ \A x \in DOMAIN ev : ev[x] \in DOMAIN frames
  /\ \A f \in DOMAIN frames :
       frames[f] # <<>> /\ Lists(frames[f], {x \in DOMAIN ev : ev[x] = f})
  /\ \A f \in 0 .. (first - 1) : f \in DOMAIN frames /\ Sorted(d, frames[f])

(* What insert_event does to the frames, with the number of the event's    *)
(* creator.                                                                *)
LEMMA InsertFrames ==
  ASSUME Shape, NEW n \in Peers, NEW d, NEW e, InsertContext(n, d, e), insert_event(n, e, d)
  PROVE  LET pushed == push_record(frame[n], d[e].frame, e)
             final  == first_not_finalised_frame(n) .. (NewOpen(n, d, e) - 1)
         IN  frame'[n] = [f \in DOMAIN pushed \cup final |->
                            IF f \in final THEN finalise(d, get_frame(pushed, f)) ELSE pushed[f]]
<1>1. FrameOf(n, d[e].self_parent, d[e].other_parent) = d[e].frame
  BY InsertFrame
<1>2. DOMAIN insert(event[n], e, d[e].frame) = DOMAIN event[n] \cup {e}
  BY DEF insert
<1>. QED  BY <1>1, <1>2 DEF insert_event, NewOpen, NewTable, Shape

(* A frame number is at most one above the greatest of a stored event.     *)
LEMMA FrameNumberNext ==
  ASSUME NEW n, NEW d, NEW e, InsertContext(n, d, e),
         NEW top \in Nat, \A x \in DOMAIN event[n] : event[n][x] \in 0 .. top
  PROVE  d[e].frame \in 0 .. (top + 1)
<1>1. /\ d[e].self_parent \in DOMAIN event[n] /\ d[e].other_parent \in DOMAIN event[n]
      /\ event[n][d[e].self_parent] = d[d[e].self_parent].frame
      /\ event[n][d[e].other_parent] = d[d[e].other_parent].frame
  BY DEF InsertContext, NodeOK
<1>2. d[e].frame = CompleteFrame(d, d[e].self_parent, d[e].other_parent)
  BY Fresh DEF InsertContext, DagOK, ContentOK
<1>3. d[d[e].self_parent].frame \in 0 .. top /\ d[d[e].other_parent].frame \in 0 .. top
  BY <1>1
<1>. QED  BY <1>2, <1>3 DEF CompleteFrame

(* Vec::push lists one element more.                                       *)
LEMMA ListAppend ==
  ASSUME NEW S, NEW s, NEW x, Lists(s, S), x \notin S
  PROVE  Lists(Append(s, x), S \cup {x}) /\ Append(s, x) # <<>>
<1>. DEFINE n == Len(s)
            t == Append(s, x)
<1>1. n \in Nat /\ s \in Seq(S) /\ \A i \in 1 .. n : s[i] \in S
  BY DEF Lists
<1>2. /\ t \in Seq(S \cup {x}) /\ Len(t) = n + 1
      /\ \A i \in 1 .. (n + 1) : t[i] = IF i = n + 1 THEN x ELSE s[i]
  BY <1>1
<1>3. (\A y \in S : \E i \in 1 .. n : s[i] = y) /\ \A i, j \in 1 .. n : s[i] = s[j] => i = j
  BY DEF Lists
<1>. HIDE DEF n, t
<1>4. \A y \in S \cup {x} : \E i \in 1 .. (n + 1) : t[i] = y
  <2>1. n + 1 \in 1 .. (n + 1) /\ t[n + 1] = x
    BY <1>1, <1>2
  <2>2. \A i \in 1 .. n : i \in 1 .. (n + 1) /\ t[i] = s[i]
    BY <1>1, <1>2
  <2>. QED  BY <1>3, <2>1, <2>2
<1>5. \A i, j \in 1 .. (n + 1) : t[i] = t[j] => i = j
  BY <1>1, <1>2, <1>3
<1>6. t # <<>>
  BY <1>1, <1>2
<1>. QED  BY <1>2, <1>4, <1>5, <1>6 DEF Lists, t

(* insert_event records the event in the frame of its number, leaves no    *)
(* gap and sorts what it finalises (core.rs:262-306).                      *)
LEMMA InsertFramesOK ==
  ASSUME Shape, NEW n \in Peers, NEW d, NEW e, InsertContext(n, d, e), insert_event(n, e, d),
         FramesOK(d, event[n], frame[n], first_not_finalised_frame(n))
  PROVE  FramesOK(d, event'[n], frame'[n], first_not_finalised_frame(n)')
<1>. DEFINE number == d[e].frame
            old == frame[n]
            pushed == push_record(old, number, e)
            first == first_not_finalised_frame(n)
            upto == NewOpen(n, d, e)
            final == first .. (upto - 1)
            ev2 == event'[n]
            new == frame'[n]
            S(f) == {x \in DOMAIN event[n] : event[n][x] = f}
            S2(f) == {x \in DOMAIN ev2 : ev2[x] = f}
<1>1. PICK top \in Nat : DOMAIN old = 0 .. top
  BY DEF FramesOK
<1>2. number \in 0 .. (top + 1)
  <2>1. \A x \in DOMAIN event[n] : event[n][x] \in 0 .. top
    BY <1>1 DEF FramesOK
  <2>. QED  BY <2>1, FrameNumberNext
<1>3. PICK top2 \in Nat : 0 .. top2 = DOMAIN old \cup {number} /\ number <= top2 /\ top <= top2
  <2>1. CASE number = top + 1
    <3>1. 0 .. (top + 1) = 0 .. top \cup {top + 1}
      OBVIOUS
    <3>. QED  BY <1>1, <2>1, <3>1
  <2>2. CASE number # top + 1
    <3>1. number \in 0 .. top
      BY <1>2, <2>2
    <3>. HIDE DEF number
    <3>. QED  BY <1>1, <3>1
  <2>. QED  BY <2>1, <2>2
<1>4. DOMAIN pushed = 0 .. top2
  BY <1>3 DEF push_record, insert
<1>5. /\ DOMAIN ev2 = DOMAIN event[n] \cup {e} /\ ev2[e] = number
      /\ \A x \in DOMAIN event[n] : ev2[x] = event[n][x] /\ x # e
  <2>1. ev2 = insert(event[n], e, number)
    BY InsertChanges
  <2>2. e \notin DOMAIN event[n]
    BY DEF InsertContext
  <2>. QED  BY <2>1, <2>2 DEF insert
<1>6. /\ NodeOK(d, ev2, flag_table'[n], first_not_finalised_frame(n)')
      /\ first_not_finalised_frame(n)' = upto /\ upto \in Nat /\ first \in Nat /\ upto >= first
      /\ number >= first
  <2>1. NodeOK(d, ev2, flag_table'[n], first_not_finalised_frame(n)')
    BY InsertNode
  <2>2. last_finalised_frame'[n] = upto - 1 /\ upto \in Nat /\ upto >= first
    <3>1. last_finalised_frame'[n] = upto - 1
      BY InsertChanges
    <3>. QED  BY <3>1, InsertUpto
  <2>3. first \in Nat /\ number >= first
    BY Fresh DEF InsertContext, NodeOK
  <2>4. first_not_finalised_frame(n)' = upto
    <3>. HIDE DEF upto
    <3>. QED  BY <2>2 DEF first_not_finalised_frame
  <2>. QED  BY <2>1, <2>2, <2>3, <2>4
<1>7. \A x \in DOMAIN ev2 : ev2[x] \in 0 .. top2
  BY <1>3, <1>5 DEF FramesOK
<1>8. upto <= top2
  <2>1. PICK h \in Nat : <<1, h>> \in DOMAIN ev2 /\ d[<<1, h>>].frame >= upto
    <3>1. 1 \in Peers /\ Reached(d, DOMAIN ev2, upto)
      BY <1>6, NAssumption DEF NodeOK, Peers
    <3>. HIDE DEF upto, ev2
    <3>. QED  BY <3>1 DEF Reached
  <2>2. ev2[<<1, h>>] = d[<<1, h>>].frame
    BY <1>6, <2>1 DEF NodeOK
  <2>. HIDE DEF upto, ev2
  <2>. QED  BY <1>6, <1>7, <2>1, <2>2
<1>9. /\ new = [f \in 0 .. top2 |-> IF f \in final THEN finalise(d, get_frame(pushed, f)) ELSE pushed[f]]
      /\ final \subseteq 0 .. top2
  <2>1. new = [f \in DOMAIN pushed \cup final |->
                IF f \in final THEN finalise(d, get_frame(pushed, f)) ELSE pushed[f]]
    BY InsertFrames
  <2>2. final \subseteq 0 .. top2
    <3>. HIDE DEF upto, first
    <3>. QED  BY <1>6, <1>8
  <2>3. DOMAIN pushed \cup final = 0 .. top2
    BY <1>4, <2>2
  <2>. HIDE DEF pushed, final, new
  <2>. QED  BY <2>1, <2>2, <2>3
<1>10. ASSUME NEW f \in 0 .. top2
       PROVE  Lists(pushed[f], S2(f)) /\ pushed[f] # <<>>
  <2>1. CASE f = number
    <3>1. S2(f) = S(f) \cup {e} /\ e \notin S(f)
      BY <1>5, <2>1
    <3>2. Lists(get_frame(old, f), S(f))
      <4>1. CASE f \in DOMAIN old
        BY <4>1 DEF get_frame, FramesOK
      <4>2. CASE f \notin DOMAIN old
        <5>1. S(f) = {} /\ get_frame(old, f) = <<>>
          BY <4>2 DEF get_frame, FramesOK
        <5>2. Lists(<<>>, {})
          BY DEF Lists
        <5>. HIDE DEF S
        <5>. QED  BY <5>1, <5>2
      <4>. QED  BY <4>1, <4>2
    <3>3. pushed[f] = Append(get_frame(old, f), e)
      BY <2>1 DEF push_record, insert
    <3>. HIDE DEF S, S2, pushed
    <3>. QED  BY <3>1, <3>2, <3>3, ListAppend
  <2>2. CASE f # number
    <3>1. S2(f) = S(f)
      BY <1>5, <2>2
    <3>2. f \in DOMAIN old /\ pushed[f] = old[f]
      BY <1>3, <2>2 DEF push_record, insert
    <3>3. Lists(old[f], S(f)) /\ old[f] # <<>>
      BY <3>2 DEF FramesOK
    <3>. HIDE DEF S, S2, pushed
    <3>. QED  BY <3>1, <3>2, <3>3
  <2>. QED  BY <2>1, <2>2
<1>11. \A f \in 0 .. top2 : Comparable(d, S2(f))
  <2>1. DOMAIN ev2 \subseteq DOMAIN d
    BY <1>6 DEF NodeOK
  <2>2. DOMAIN d \subseteq Events /\ \A x \in DOMAIN d : d[x].lamport_timestamp \in Nat
    BY DEF InsertContext, DagOK, EventContent
  <2>. HIDE DEF ev2
  <2>. QED  BY <2>1, <2>2 DEF Comparable
<1>12. ASSUME NEW f \in final
       PROVE  Lists(new[f], S2(f)) /\ new[f] # <<>> /\ Sorted(d, new[f])
  <2>1. f \in 0 .. top2 /\ new[f] = finalise(d, pushed[f])
    <3>. HIDE DEF pushed, final, new
    <3>. QED  BY <1>4, <1>9 DEF get_frame
  <2>2. Lists(pushed[f], S2(f)) /\ pushed[f] # <<>> /\ Comparable(d, S2(f))
    BY <1>10, <1>11, <2>1
  <2>. HIDE DEF pushed, new, S2
  <2>3. /\ Lists(new[f], S2(f)) /\ Sorted(d, new[f]) /\ Len(new[f]) = Len(pushed[f])
    BY <2>1, <2>2, FinaliseSorts
  <2>4. Len(pushed[f]) # 0
    BY <2>2 DEF Lists
  <2>. QED  BY <2>3, <2>4
<1>13. ASSUME NEW f \in 0 .. top2
       PROVE  Lists(new[f], S2(f)) /\ new[f] # <<>>
  <2>1. CASE f \in final
    BY <1>12, <2>1
  <2>2. CASE f \notin final
    <3>1. new[f] = pushed[f]
      <4>. HIDE DEF pushed, final, new
      <4>. QED  BY <1>9, <2>2
    <3>. QED  BY <1>10, <3>1
  <2>. QED  BY <2>1, <2>2
<1>14. ASSUME NEW f \in 0 .. (upto - 1)
       PROVE  f \in 0 .. top2 /\ Sorted(d, new[f])
  <2>1. CASE f \in final
    BY <1>9, <1>12, <2>1
  <2>2. CASE f \notin final
    <3>1. f \in 0 .. (first - 1) /\ f # number
      <4>. HIDE DEF upto, first, number
      <4>. QED  BY <1>6, <2>2
    <3>2. f \in DOMAIN old /\ Sorted(d, old[f])
      BY <3>1 DEF FramesOK
    <3>3. pushed[f] = old[f] /\ f \in 0 .. top2
      BY <1>3, <3>1, <3>2 DEF push_record, insert
    <3>4. new[f] = pushed[f]
      <4>. HIDE DEF pushed, final, new
      <4>. QED  BY <1>9, <2>2, <3>3
    <3>. QED  BY <3>2, <3>3, <3>4
  <2>. QED  BY <2>1, <2>2
<1>15. DOMAIN new = 0 .. top2
  <2>. HIDE DEF new
  <2>. QED  BY <1>9
<1>. HIDE DEF new, ev2, upto
<1>16. FramesOK(d, ev2, new, upto)
  BY <1>7, <1>13, <1>14, <1>15 DEF FramesOK
<1>. QED  BY <1>6, <1>16 DEF new, ev2

(* A node's frames are as good for a DAG that has grown. *)
LEMMA FramesExtend ==
  ASSUME NEW d, NEW d2, NEW ev, NEW frames, NEW first, Extends(d2, d), DOMAIN ev \subseteq DOMAIN d,
         FramesOK(d, ev, frames, first)
  PROVE  FramesOK(d2, ev, frames, first)
<1>1. ASSUME NEW f \in 0 .. (first - 1)
      PROVE  f \in DOMAIN frames /\ Sorted(d2, frames[f])
  <2>1. f \in DOMAIN frames /\ Sorted(d, frames[f])
    BY DEF FramesOK
  <2>2. Lists(frames[f], {x \in DOMAIN ev : ev[x] = f})
    BY <2>1 DEF FramesOK
  <2>3. \A i \in 1 .. Len(frames[f]) : frames[f][i] \in DOMAIN d
    BY <2>2 DEF Lists
  <2>4. \A i \in 1 .. Len(frames[f]) : d2[frames[f][i]] = d[frames[f][i]]
    BY <2>3 DEF Extends
  <2>. QED  BY <2>1, <2>4 DEF Sorted, Before
<1>. QED  BY <1>1 DEF FramesOK

FramesInv ==
  \A n \in Peers : FramesOK(dag, event[n], frame[n], first_not_finalised_frame(n))

(* DAGcore::new leaves one frame, with the leaf events (core.rs:92-113).   *)
LEMMA InitFrames == Init => FramesInv
<1>. SUFFICES ASSUME Init, NEW n \in Peers
              PROVE  FramesOK(dag, event[n], frame[n], first_not_finalised_frame(n))
  BY DEF FramesInv
<1>1. /\ event[n] = [e \in Leaves |-> 0] /\ frame[n] = [f \in {0} |-> [p \in Peers |-> Leaf(p)]]
      /\ first_not_finalised_frame(n) = 0
  BY DEF Init, first_not_finalised_frame
<1>. DEFINE s == [p \in Peers |-> Leaf(p)]
<1>2. Peers = 1 .. N /\ N \in Nat /\ N >= 1
  BY NAssumption DEF Peers
<1>3. \A p \in Peers : s[p] = <<p, 0>> /\ s[p] \in Leaves
  BY DEF Leaf, Leaves
<1>4. s \in Seq(Leaves) /\ Len(s) = N
  BY <1>2, <1>3
<1>5. \A x \in Leaves : \E p \in Peers : s[p] = x
  BY DEF Leaves
<1>6. \A p, q \in Peers : s[p] = s[q] => p = q
  BY <1>3
<1>7. s # <<>>
  BY <1>2, <1>4
<1>. HIDE DEF s
<1>8. Lists(s, Leaves)
  BY <1>2, <1>4, <1>5, <1>6 DEF Lists
<1>9. {x \in DOMAIN event[n] : event[n][x] = 0} = Leaves
  BY <1>1
<1>10. DOMAIN frame[n] = 0 .. 0 /\ frame[n][0] = s
  BY <1>1 DEF s
<1>11. \A f \in DOMAIN frame[n] :
         frame[n][f] # <<>> /\ Lists(frame[n][f], {x \in DOMAIN event[n] : event[n][x] = f})
  <2>. SUFFICES ASSUME NEW f \in DOMAIN frame[n], f = 0
                PROVE  frame[n][f] # <<>> /\ Lists(frame[n][f], {x \in DOMAIN event[n] : event[n][x] = 0})
    BY <1>10
  <2>. QED  BY <1>7, <1>8, <1>9, <1>10
<1>12. \A x \in DOMAIN event[n] : event[n][x] \in DOMAIN frame[n]
  BY <1>1, <1>10
<1>13. 0 .. (first_not_finalised_frame(n) - 1) = {}
  BY <1>1
<1>. QED  BY <1>10, <1>11, <1>12, <1>13 DEF FramesOK

(* Every step keeps the frames in order.                                   *)
LEMMA StepFrames ==
  ASSUME IInv, FramesInv, [Next]_vars
  PROVE  FramesInv'
<1>1. CASE UNCHANGED <<dag, event, flag_table, frame, last_finalised_frame>>
  <2>1. \A n \in Peers : first_not_finalised_frame(n)' = first_not_finalised_frame(n)
    BY <1>1 DEF first_not_finalised_frame
  <2>. QED  BY <1>1, <2>1 DEF FramesInv
<1>2. ASSUME NEW n \in Peers, NEW e \in DOMAIN dag', Inserts(n, e)
      PROVE  FramesInv'
  <2>1. Shape /\ insert_event(n, e, dag') /\ InsertContext(n, dag', e)
    BY <1>2 DEF Inserts, IInv
  <2>2. ASSUME NEW m \in Peers
        PROVE  FramesOK(dag', event[m], frame[m], first_not_finalised_frame(m))
    <3>1. Extends(dag', dag) /\ DOMAIN event[m] \subseteq DOMAIN dag
      BY <1>2 DEF Inserts, IInv, NodeOK
    <3>. QED  BY <3>1, FramesExtend DEF FramesInv
  <2>3. FramesOK(dag', event'[n], frame'[n], first_not_finalised_frame(n)')
    BY <2>1, <2>2, InsertFramesOK
  <2>4. ASSUME NEW m \in Peers, m # n
        PROVE  FramesOK(dag', event'[m], frame'[m], first_not_finalised_frame(m)')
    <3>1. /\ event'[m] = event[m] /\ frame'[m] = frame[m]
          /\ last_finalised_frame'[m] = last_finalised_frame[m]
      BY <2>1, <2>4, InsertOthers
    <3>2. first_not_finalised_frame(m)' = first_not_finalised_frame(m)
      BY <3>1 DEF first_not_finalised_frame
    <3>. QED  BY <2>2, <3>1, <3>2
  <2>. QED  BY <2>3, <2>4 DEF FramesInv
<1>. QED  BY <1>1, <1>2, StepInserts

(* Each stored event is in one frame, once, and final frames are sorted    *)
(* (core.rs:253-306).                                                      *)
THEOREM FramesInvariance == Spec => []FramesInv
<1>1. Init => FramesInv
  BY InitFrames
<1>2. IInv /\ FramesInv /\ [Next]_vars => FramesInv'
  BY StepFrames
<1>. QED  BY <1>1, <1>2, Invariance, PTL DEF Spec

-----------------------------------------------------------------------------
(* What it means for the properties of DAGcore. *)

(* The frames on disk and the events on disk say the same: one record for  *)
(* every stored event, in the frame of its number, no frame skipped        *)
(* (store_sled.rs:69-83).                                                  *)
THEOREM FramesHoldStoreHolds == Spec => []FramesHoldStore
<1>1. FramesInv => FramesHoldStore
  <2>. SUFFICES ASSUME FramesInv, NEW n \in Peers
                PROVE  /\ DOMAIN frame[n] = 0 .. Max(DOMAIN frame[n])
                       /\ \A f \in DOMAIN frame[n] :
                            /\ Range(frame[n][f]) = {e \in DOMAIN event[n] : event[n][e] = f}
                            /\ Len(frame[n][f]) = Cardinality(Range(frame[n][f]))
    BY DEF FramesHoldStore
  <2>1. PICK top \in Nat : DOMAIN frame[n] = 0 .. top
    BY DEF FramesInv, FramesOK
  <2>2. Max(0 .. top) = top
    <3>1. 0 .. top \subseteq Nat /\ 0 .. top # {} /\ \A x \in 0 .. top : x <= top
      OBVIOUS
    <3>2. Max(0 .. top) \in 0 .. top /\ \A x \in 0 .. top : x <= Max(0 .. top)
      BY <3>1, MaxProperty
    <3>3. top <= Max(0 .. top)
      BY <3>2
    <3>. QED  BY <3>2, <3>3
  <2>3. ASSUME NEW f \in DOMAIN frame[n]
        PROVE  /\ Range(frame[n][f]) = {e \in DOMAIN event[n] : event[n][e] = f}
               /\ Len(frame[n][f]) = Cardinality(Range(frame[n][f]))
    <3>. DEFINE S == {e \in DOMAIN event[n] : event[n][e] = f}
    <3>1. Lists(frame[n][f], S)
      BY DEF FramesInv, FramesOK
    <3>. HIDE DEF S
    <3>2. Range(frame[n][f]) = S
      BY <3>1 DEF Lists, Range
    <3>3. Len(frame[n][f]) = Cardinality(S)
      BY <3>1, ListLength
    <3>. QED  BY <3>2, <3>3 DEF S
  <2>. QED  BY <2>1, <2>2, <2>3
<1>. QED  BY <1>1, FramesInvariance, PTL

(* Every variable has its type, the frames included.                       *)
THEOREM TypeOKHolds == Spec => []TypeOK
<1>1. IInv /\ FramesInv => FrameTypeOK
  <2>. SUFFICES ASSUME IInv, FramesInv, NEW n \in Peers, NEW f \in DOMAIN frame[n]
                PROVE  f \in Nat /\ frame[n][f] \in Seq(DOMAIN event[n]) \ {<<>>}
    BY DEF FrameTypeOK, IInv, Shape
  <2>1. f \in Nat
    BY DEF FramesInv, FramesOK
  <2>2. Lists(frame[n][f], {x \in DOMAIN event[n] : event[n][x] = f}) /\ frame[n][f] # <<>>
    BY DEF FramesInv, FramesOK
  <2>3. frame[n][f] \in Seq(DOMAIN event[n])
    BY <2>2 DEF Lists
  <2>. QED  BY <2>1, <2>2, <2>3
<1>2. StoreTypeOK /\ FrameTypeOK => TypeOK
  BY DEF TypeOK
<1>. QED  BY <1>1, <1>2, Invariance, FramesInvariance, StoreTypeOKHolds, PTL

(* What two nodes have of a frame that both have finalised.                *)
LEMMA FinalFrameSame ==
  ASSUME IInv, FramesInv, NEW n \in Peers, NEW m \in Peers,
         NEW f \in 0 .. last_finalised_frame[n], f <= last_finalised_frame[m]
  PROVE  frame[n][f] = frame[m][f]
<1>. DEFINE S == {e \in DOMAIN dag : dag[e].frame = f}
<1>1. last_finalised_frame[n] \in Int /\ last_finalised_frame[m] \in Int
  BY DEF IInv, Shape
<1>2. ASSUME NEW p \in Peers, f <= last_finalised_frame[p], last_finalised_frame[p] \in Int
      PROVE  Lists(frame[p][f], S) /\ Sorted(dag, frame[p][f])
  <2>1. f \in 0 .. (first_not_finalised_frame(p) - 1) /\ f < first_not_finalised_frame(p)
    BY <1>1, <1>2 DEF first_not_finalised_frame
  <2>2. f \in DOMAIN frame[p] /\ Sorted(dag, frame[p][f])
    BY <2>1 DEF FramesInv, FramesOK
  <2>3. {x \in DOMAIN event[p] : event[p][x] = f} = S
    <3>1. NodeOK(dag, event[p], flag_table[p], first_not_finalised_frame(p)) /\ DagOK(dag)
      BY DEF IInv
    <3>2. \A x \in DOMAIN event[p] : x \in DOMAIN dag /\ event[p][x] = dag[x].frame
      BY <3>1 DEF NodeOK
    <3>3. \A x \in DOMAIN dag : x \notin DOMAIN event[p] => dag[x].frame >= first_not_finalised_frame(p)
      BY <3>1, Fresh
    <3>4. \A x \in DOMAIN dag : dag[x].frame = f => x \in DOMAIN event[p]
      <4>1. first_not_finalised_frame(p) \in Nat
        BY <3>1 DEF NodeOK
      <4>. QED  BY <2>1, <3>3, <4>1
    <3>. QED  BY <3>2, <3>4
  <2>4. Lists(frame[p][f], {x \in DOMAIN event[p] : event[p][x] = f})
    BY <2>2 DEF FramesInv, FramesOK
  <2>. QED  BY <2>2, <2>3, <2>4
<1>3. Comparable(dag, S)
  BY DEF IInv, DagOK, EventContent, Comparable
<1>4. Lists(frame[n][f], S) /\ Sorted(dag, frame[n][f])
  BY <1>1, <1>2
<1>5. Lists(frame[m][f], S) /\ Sorted(dag, frame[m][f])
  BY <1>1, <1>2
<1>. HIDE DEF S
<1>. QED  BY <1>3, <1>4, <1>5, SortedUnique

(* Consensus: two nodes that have finalised a frame have the same events   *)
(* in the same order in it (core.rs:277-295, frame.rs:39-54).              *)
THEOREM FinalisedFrameAgreementHolds == Spec => []FinalisedFrameAgreement
<1>1. IInv /\ FramesInv => FinalisedFrameAgreement
  BY FinalFrameSame DEF FinalisedFrameAgreement
<1>. QED  BY <1>1, Invariance, FramesInvariance, PTL

-----------------------------------------------------------------------------
(* How far a node finalises. *)

(* TopRoot and DecidedUpto over any DAG d. *)
TopRootIn(d, e, p) == Max({d[r].frame : r \in {x \in d[e].roots : Creator(x) = p}})

DecidedIn(d, e) ==
  IF {Creator(r) : r \in d[e].roots} = Peers THEN Min({TopRootIn(d, e, p) : p \in Peers}) ELSE 0

(* TopRoot is the frame of the highest visible root of the peer. *)
LEMMA TopRootProperty ==
  ASSUME NEW d, DagOK(d), NEW e \in DOMAIN d, NEW p, p \in {Creator(r) : r \in d[e].roots}
  PROVE  /\ TopRootIn(d, e, p) \in Nat
         /\ \E r \in d[e].roots : Creator(r) = p /\ d[r].frame = TopRootIn(d, e, p)
         /\ \A r \in d[e].roots : Creator(r) = p => d[r].frame <= TopRootIn(d, e, p)
<1>. DEFINE S == {d[r].frame : r \in {x \in d[e].roots : Creator(x) = p}}
<1>1. /\ d[e].frame \in Nat
      /\ \A r \in d[e].roots : d[r].frame \in Nat /\ d[r].frame <= d[e].frame
  BY DEF DagOK, RootsOK, EventContent
<1>2. S \subseteq Nat /\ S # {} /\ \A x \in S : x <= d[e].frame
  BY <1>1
<1>3. \A r \in d[e].roots : Creator(r) = p => d[r].frame \in S
  OBVIOUS
<1>4. \A x \in S : \E r \in d[e].roots : Creator(r) = p /\ d[r].frame = x
  OBVIOUS
<1>5. TopRootIn(d, e, p) = Max(S)
  BY DEF TopRootIn
<1>. HIDE DEF S
<1>6. Max(S) \in S /\ \A x \in S : x <= Max(S)
  BY <1>1, <1>2, MaxProperty
<1>. QED  BY <1>2, <1>3, <1>4, <1>5, <1>6

(* DecidedUpto is 0, or the smallest of the peers' highest visible roots.  *)
LEMMA DecidedProperty ==
  ASSUME NEW d, DagOK(d), NEW e \in DOMAIN d
  PROVE  /\ DecidedIn(d, e) \in Nat
         /\ {Creator(r) : r \in d[e].roots} = Peers =>
              /\ \E p \in Peers : DecidedIn(d, e) = TopRootIn(d, e, p)
              /\ \A p \in Peers : DecidedIn(d, e) <= TopRootIn(d, e, p)
<1>1. CASE {Creator(r) : r \in d[e].roots} = Peers
  <2>. DEFINE T == {TopRootIn(d, e, p) : p \in Peers}
  <2>1. T \subseteq Nat /\ T # {}
    <3>1. 1 \in Peers
      BY NAssumption DEF Peers
    <3>2. \A p \in Peers : TopRootIn(d, e, p) \in Nat
      BY <1>1, TopRootProperty
    <3>. QED  BY <3>1, <3>2
  <2>2. DecidedIn(d, e) = Min(T)
    BY <1>1 DEF DecidedIn
  <2>3. Min(T) \in T /\ \A x \in T : Min(T) <= x
    <3>. HIDE DEF T
    <3>. QED  BY <2>1, MinProperty
  <2>. QED  BY <2>1, <2>2, <2>3
<1>2. CASE {Creator(r) : r \in d[e].roots} # Peers
  BY <1>2 DEF DecidedIn
<1>. QED  BY <1>1, <1>2

(* It does not change as the DAG grows. *)
LEMMA DecidedSame ==
  ASSUME NEW d, NEW d2, DagOK(d), Extends(d2, d), NEW e \in DOMAIN d
  PROVE  DecidedIn(d2, e) = DecidedIn(d, e)
<1>1. d2[e] = d[e] /\ \A r \in d[e].roots : d2[r] = d[r]
  BY DEF Extends, DagOK, RootsOK
<1>2. \A p : TopRootIn(d2, e, p) = TopRootIn(d, e, p)
  <2>. TAKE p
  <2>1. {d2[r].frame : r \in {x \in d2[e].roots : Creator(x) = p}}
          = {d[r].frame : r \in {x \in d[e].roots : Creator(x) = p}}
    BY <1>1
  <2>. QED  BY <2>1 DEF TopRootIn
<1>3. {TopRootIn(d2, e, p) : p \in Peers} = {TopRootIn(d, e, p) : p \in Peers}
  BY <1>2
<1>. QED  BY <1>1, <1>3 DEF DecidedIn

(* The creator table has, of every creator with a root at or above the     *)
(* minimum, the greatest such frame (store.rs:56-84).                      *)
LEMMA DeriveGreatest ==
  ASSUME NEW ft, NEW m, NEW creator, NEW b \in Nat,
         \A k \in DOMAIN ft : ft[k] \in Nat /\ ft[k] <= b,
         NEW k \in DOMAIN ft, ft[k] >= m, k \in DOMAIN creator
  PROVE  /\ creator[k] \in DOMAIN derive_creator_flag_table(ft, m, creator)
         /\ ft[k] <= derive_creator_flag_table(ft, m, creator)[creator[k]]
<1>. DEFINE found == {j \in DOMAIN ft : ft[j] >= m /\ j \in DOMAIN creator}
            c == creator[k]
            S == {ft[j] : j \in {x \in found : creator[x] = c}}
<1>1. c \in DOMAIN derive_creator_flag_table(ft, m, creator)
  BY DeriveDomain
<1>2. derive_creator_flag_table(ft, m, creator)[c] = Max(S)
  BY <1>1 DEF derive_creator_flag_table
<1>3. ft[k] \in S /\ S \subseteq Nat /\ \A x \in S : x <= b
  OBVIOUS
<1>. HIDE DEF S
<1>4. \A x \in S : x <= Max(S)
  BY <1>3, MaxProperty
<1>. QED  BY <1>1, <1>2, <1>3, <1>4

(* insert_event finalises up to what the new event decides, or, when that  *)
(* is not above what is final already, nothing (core.rs:260-278).          *)
LEMMA InsertDecided ==
  ASSUME NEW n, NEW d, NEW e, InsertContext(n, d, e)
  PROVE  NewOpen(n, d, e) = IF DecidedIn(d, e) > first_not_finalised_frame(n) THEN DecidedIn(d, e)
                            ELSE first_not_finalised_frame(n)
<1>. DEFINE first == first_not_finalised_frame(n)
            ft == NewTable(n, d, e)
            stored == DOMAIN event[n] \cup {e}
            cft == derive_creator_flag_table(ft, first + 1, CreatorOf(stored))
            creators == {Creator(r) : r \in d[e].roots}
            top(p) == TopRootIn(d, e, p)
<1>1. first \in Nat /\ DagOK(d) /\ e \in DOMAIN d /\ stored \subseteq DOMAIN d
  BY DEF InsertContext, NodeOK
<1>2. /\ DOMAIN ft \subseteq d[e].roots /\ d[e].roots \subseteq stored
      /\ \A r \in DOMAIN ft : ft[r] = d[r].frame
      /\ \A r \in d[e].roots : d[r].frame >= first => r \in DOMAIN ft
  BY InsertTable DEF FaithfulAt
<1>3. /\ d[e].frame \in Nat
      /\ \A k \in d[e].roots : d[k].frame \in Nat /\ d[k].frame <= d[e].frame /\ Creator(k) \in Peers
  <2>1. \A k \in d[e].roots : k \in DOMAIN d /\ k \in Events
    BY <1>1 DEF DagOK, RootsOK
  <2>. QED  BY <1>1, <2>1 DEF DagOK, RootsOK, EventContent, Events, Creator
<1>4. \A k \in DOMAIN ft : ft[k] \in Nat /\ ft[k] <= d[e].frame
  BY <1>2, <1>3
<1>5. creators \subseteq Peers
  BY <1>3
<1>6. ASSUME NEW r \in d[e].roots, d[r].frame >= first + 1
      PROVE  Creator(r) \in DOMAIN cft /\ d[r].frame <= cft[Creator(r)]
  <2>1. r \in DOMAIN ft /\ ft[r] = d[r].frame
    BY <1>1, <1>2, <1>3, <1>6
  <2>2. r \in DOMAIN CreatorOf(stored) /\ CreatorOf(stored)[r] = Creator(r)
    BY <1>2 DEF CreatorOf
  <2>. HIDE DEF ft, stored
  <2>. QED  BY <1>3, <1>4, <1>6, <2>1, <2>2, DeriveGreatest
<1>7. ASSUME NEW c \in DOMAIN cft
      PROVE  c \in creators /\ cft[c] = top(c) /\ cft[c] \in Nat /\ cft[c] >= first + 1
  <2>1. PICK k \in DOMAIN ft : /\ k \in DOMAIN CreatorOf(stored) /\ CreatorOf(stored)[k] = c
                               /\ cft[c] = ft[k] /\ ft[k] >= first + 1
    BY <1>3, <1>4, DeriveValue
  <2>2. /\ k \in d[e].roots /\ Creator(k) = c /\ cft[c] = d[k].frame /\ d[k].frame >= first + 1
    BY <1>2, <2>1 DEF CreatorOf
  <2>3. c \in creators
    BY <2>2
  <2>4. /\ top(c) \in Nat
        /\ \E r \in d[e].roots : Creator(r) = c /\ d[r].frame = top(c)
        /\ \A r \in d[e].roots : Creator(r) = c => d[r].frame <= top(c)
    BY <1>1, <2>3, TopRootProperty
  <2>5. PICK r \in d[e].roots : Creator(r) = c /\ d[r].frame = top(c)
    BY <2>4
  <2>. HIDE DEF cft, top, creators, first
  <2>6. d[r].frame >= first + 1
    BY <1>1, <1>3, <2>2, <2>4, <2>5
  <2>7. d[r].frame <= cft[c]
    BY <1>6, <2>5, <2>6
  <2>. QED  BY <1>1, <1>3, <2>2, <2>3, <2>4, <2>5, <2>7
<1>8. /\ DecidedIn(d, e) \in Nat
      /\ creators # Peers => DecidedIn(d, e) = 0
      /\ creators = Peers =>
           /\ \E p \in Peers : DecidedIn(d, e) = top(p)
           /\ \A p \in Peers : DecidedIn(d, e) <= top(p)
  BY <1>1, DecidedProperty DEF DecidedIn
<1>9. IsFiniteSet(Peers) /\ Cardinality(Peers) = N
  BY FS_Interval, NAssumption DEF Peers
<1>10. CASE Cardinality(DOMAIN cft) = N
  <2>1. DOMAIN cft \in SUBSET Peers
    BY <1>5, <1>7
  <2>2. DOMAIN cft = Peers
    BY <1>9, <1>10, <2>1, FS_Subset
  <2>3. creators = Peers
    BY <1>5, <1>7, <2>2
  <2>4. NewOpen(n, d, e) = min_frame(cft)
    BY <1>10 DEF NewOpen, FrameUpto
  <2>5. DOMAIN cft # {} /\ \A c \in DOMAIN cft : cft[c] \in Nat
    <3>1. 1 \in Peers
      BY NAssumption DEF Peers
    <3>. QED  BY <1>7, <2>2, <3>1
  <2>6. /\ min_frame(cft) \in Nat
        /\ \E c \in DOMAIN cft : min_frame(cft) = cft[c]
        /\ \A c \in DOMAIN cft : min_frame(cft) <= cft[c]
    <3>. HIDE DEF cft
    <3>. QED  BY <2>5, MinFrame
  <2>. HIDE DEF cft, top, creators, first
  <2>7. min_frame(cft) = DecidedIn(d, e)
    BY <1>7, <1>8, <2>2, <2>3, <2>6
  <2>8. DecidedIn(d, e) > first
    <3>1. PICK c \in DOMAIN cft : min_frame(cft) = cft[c]
      BY <2>6
    <3>2. cft[c] \in Nat /\ cft[c] >= first + 1
      BY <1>7
    <3>. QED  BY <1>1, <2>7, <3>1, <3>2
  <2>. QED  BY <2>4, <2>7, <2>8 DEF first
<1>11. CASE Cardinality(DOMAIN cft) # N
  <2>1. NewOpen(n, d, e) = first
    BY <1>11 DEF NewOpen, FrameUpto
  <2>2. DecidedIn(d, e) <= first
    <3>. SUFFICES ASSUME DecidedIn(d, e) > first PROVE FALSE
      BY <1>1, <1>8
    <3>1. creators = Peers
      BY <1>1, <1>8
    <3>2. ASSUME NEW p \in Peers PROVE p \in DOMAIN cft
      <4>1. PICK r \in d[e].roots : Creator(r) = p /\ d[r].frame = top(p)
        BY <1>1, <3>1, TopRootProperty
      <4>2. d[r].frame >= first + 1
        <5>. HIDE DEF top, first, creators
        <5>. QED  BY <1>1, <1>3, <1>8, <3>1, <4>1
      <4>. QED  BY <1>6, <4>1, <4>2
    <3>3. DOMAIN cft = Peers
      BY <1>5, <1>7, <3>2
    <3>. QED  BY <1>9, <1>11, <3>3
  <2>. QED  BY <1>1, <1>8, <2>1, <2>2
<1>. QED  BY <1>10, <1>11

(* The first open frame is the greatest frame a stored event decides.      *)
ExactInv ==
  \A n \in Peers :
    /\ \A e \in DOMAIN event[n] : DecidedIn(dag, e) <= first_not_finalised_frame(n)
    /\ \E e \in DOMAIN event[n] : DecidedIn(dag, e) = first_not_finalised_frame(n)

(* A leaf event decides nothing: it sees no root but itself.               *)
LEMMA InitExact == Init => ExactInv
<1>. SUFFICES ASSUME Init PROVE ExactInv
  OBVIOUS
<1>1. 1 \in Peers /\ 2 \in Peers
  BY NAssumption DEF Peers
<1>2. ASSUME NEW e \in Leaves PROVE DecidedIn(dag, e) = 0
  <2>1. {Creator(r) : r \in dag[e].roots} = {Creator(e)}
    BY <1>2 DEF Init
  <2>2. {Creator(r) : r \in dag[e].roots} # Peers
    BY <1>1, <2>1
  <2>. QED  BY <2>2 DEF DecidedIn
<1>3. \A n \in Peers : DOMAIN event[n] = Leaves /\ first_not_finalised_frame(n) = 0
  BY DEF Init, first_not_finalised_frame
<1>4. Leaf(1) \in Leaves
  BY <1>1 DEF Leaves
<1>. QED  BY <1>2, <1>3, <1>4 DEF ExactInv

(* No step opens a frame late or closes one early.                         *)
LEMMA StepExact ==
  ASSUME IInv, ExactInv, [Next]_vars
  PROVE  ExactInv'
<1>1. CASE UNCHANGED <<dag, event, flag_table, frame, last_finalised_frame>>
  <2>1. \A n \in Peers : first_not_finalised_frame(n)' = first_not_finalised_frame(n)
    BY <1>1 DEF first_not_finalised_frame
  <2>. QED  BY <1>1, <2>1 DEF ExactInv
<1>2. ASSUME NEW n \in Peers, NEW e \in DOMAIN dag', Inserts(n, e)
      PROVE  ExactInv'
  <2>1. Shape /\ insert_event(n, e, dag') /\ InsertContext(n, dag', e)
    BY <1>2 DEF Inserts, IInv
  <2>2. ASSUME NEW m \in Peers, NEW x \in DOMAIN event[m]
        PROVE  DecidedIn(dag', x) = DecidedIn(dag, x)
    <3>1. x \in DOMAIN dag /\ DagOK(dag) /\ Extends(dag', dag)
      BY <1>2 DEF Inserts, IInv, NodeOK
    <3>. QED  BY <3>1, DecidedSame
  <2>. DEFINE upto == NewOpen(n, dag', e)
              first == first_not_finalised_frame(n)
  <2>3. upto = IF DecidedIn(dag', e) > first THEN DecidedIn(dag', e) ELSE first
    BY <2>1, InsertDecided
  <2>4. first_not_finalised_frame(n)' = upto
    <3>1. last_finalised_frame'[n] = upto - 1
      BY <2>1, InsertChanges
    <3>2. upto \in Nat
      BY <2>1, InsertUpto
    <3>. HIDE DEF upto
    <3>. QED  BY <3>1, <3>2 DEF first_not_finalised_frame
  <2>5. DOMAIN event'[n] = DOMAIN event[n] \cup {e}
    BY <2>1, InsertNode
  <2>6. first \in Nat /\ DecidedIn(dag', e) \in Nat
    <3>1. DagOK(dag') /\ e \in DOMAIN dag'
      BY <1>2 DEF Inserts
    <3>2. DecidedIn(dag', e) \in Nat
      BY <3>1, DecidedProperty
    <3>. QED  BY <3>2 DEF IInv, NodeOK
  <2>7. ASSUME NEW x \in DOMAIN event[n]
        PROVE  DecidedIn(dag, x) \in Nat /\ DecidedIn(dag, x) <= first
    <3>1. DagOK(dag) /\ x \in DOMAIN dag
      BY DEF IInv, NodeOK
    <3>. QED  BY <3>1, DecidedProperty DEF ExactInv
  <2>8. /\ \A x \in DOMAIN event'[n] : DecidedIn(dag', x) <= upto
        /\ \E x \in DOMAIN event'[n] : DecidedIn(dag', x) = upto
    <3>1. PICK y \in DOMAIN event[n] : DecidedIn(dag, y) = first
      BY DEF ExactInv
    <3>. HIDE DEF upto, first
    <3>2. ASSUME NEW x \in DOMAIN event'[n] PROVE DecidedIn(dag', x) <= upto
      BY <2>2, <2>3, <2>5, <2>6, <2>7
    <3>3. \E x \in DOMAIN event'[n] : DecidedIn(dag', x) = upto
      BY <2>2, <2>3, <2>5, <3>1
    <3>. QED  BY <3>2, <3>3
  <2>9. ASSUME NEW m \in Peers, m # n
        PROVE  /\ \A x \in DOMAIN event'[m] : DecidedIn(dag', x) <= first_not_finalised_frame(m)'
               /\ \E x \in DOMAIN event'[m] : DecidedIn(dag', x) = first_not_finalised_frame(m)'
    <3>1. event'[m] = event[m] /\ last_finalised_frame'[m] = last_finalised_frame[m]
      BY <2>1, <2>9, InsertOthers
    <3>2. first_not_finalised_frame(m)' = first_not_finalised_frame(m)
      BY <3>1 DEF first_not_finalised_frame
    <3>. QED  BY <2>2, <3>1, <3>2 DEF ExactInv
  <2>. HIDE DEF upto
  <2>. QED  BY <2>4, <2>8, <2>9 DEF ExactInv
<1>. QED  BY <1>1, <1>2, StepInserts

(* A node has finalised exactly what its events decide, in whatever order  *)
(* they came (core.rs:260-263, 277-278).                                   *)
THEOREM FinalisationExactHolds == Spec => []FinalisationExact
<1>1. Init => ExactInv
  BY InitExact
<1>2. IInv /\ ExactInv /\ [Next]_vars => ExactInv'
  BY StepExact
<1>3. IInv /\ ExactInv => FinalisationExact
  <2>. SUFFICES ASSUME IInv, ExactInv, NEW n \in Peers
                PROVE  first_not_finalised_frame(n) = Max({DecidedUpto(e) : e \in DOMAIN event[n]})
    BY DEF FinalisationExact
  <2>. DEFINE first == first_not_finalised_frame(n)
              S == {DecidedUpto(e) : e \in DOMAIN event[n]}
  <2>1. \A e : DecidedUpto(e) = DecidedIn(dag, e)
    BY DEF DecidedUpto, DecidedIn, TopRoot, TopRootIn
  <2>2. \A e \in DOMAIN event[n] : DecidedIn(dag, e) \in Nat
    <3>1. DagOK(dag) /\ DOMAIN event[n] \subseteq DOMAIN dag
      BY DEF IInv, NodeOK
    <3>. QED  BY <3>1, DecidedProperty
  <2>3. first \in Nat
    BY DEF IInv, NodeOK
  <2>4. S \subseteq Nat /\ first \in S /\ \A x \in S : x <= first
    <3>. HIDE DEF first
    <3>1. S \subseteq Nat
      BY <2>1, <2>2
    <3>2. first \in S /\ \A x \in S : x <= first
      BY <2>1 DEF ExactInv, first
    <3>. QED  BY <3>1, <3>2
  <2>. HIDE DEF S, first
  <2>5. Max(S) \in S /\ \A x \in S : x <= Max(S)
    BY <2>3, <2>4, MaxProperty
  <2>6. Max(S) \in Nat /\ Max(S) <= first /\ first <= Max(S)
    BY <2>4, <2>5
  <2>7. first = Max(S)
    BY <2>3, <2>6
  <2>. QED  BY <2>7 DEF S, first
<1>. QED  BY <1>1, <1>2, <1>3, Invariance, PTL DEF Spec

-----------------------------------------------------------------------------
(* The core implements the one log of frames (module FrameLog). *)

(* One of finitely many integers is the greatest. *)
LEMMA GreatestExists ==
  ASSUME NEW M \in Nat \ {0}, NEW g, \A i \in 1 .. M : g[i] \in Int
  PROVE  \E n \in 1 .. M : \A m \in 1 .. M : g[m] <= g[n]
<1>. DEFINE Bad == {k \in 1 .. M : ~ \E n \in 1 .. k : \A m \in 1 .. k : g[m] <= g[n]}
<1>1. Bad = {}
  <2>. SUFFICES ASSUME Bad # {} PROVE FALSE
    OBVIOUS
  <2>1. Bad \subseteq Nat
    OBVIOUS
  <2>2. PICK k \in Bad : \A j \in Bad : k <= j
    <3>. HIDE DEF Bad
    <3>. QED  BY <2>1, MinProperty
  <2>3. k # 1
    OBVIOUS
  <2>4. k \in 1 .. M /\ k - 1 \in 1 .. M /\ k - 1 < k
    BY <2>3
  <2>5. k - 1 \notin Bad
    <3>. HIDE DEF Bad
    <3>. QED  BY <2>2, <2>4
  <2>6. PICK n \in 1 .. (k - 1) : \A m \in 1 .. (k - 1) : g[m] <= g[n]
    BY <2>4, <2>5
  <2>7. \A m \in 1 .. k : m \in 1 .. (k - 1) \/ m = k
    BY <2>4
  <2>8. g[n] \in Int /\ g[k] \in Int /\ \A m \in 1 .. (k - 1) : g[m] \in Int
    BY <2>4, <2>6
  <2>9. \E j \in 1 .. k : \A m \in 1 .. k : g[m] <= g[j]
    <3>1. CASE g[n] <= g[k]
      <4>1. \A m \in 1 .. k : g[m] <= g[k]
        BY <2>6, <2>7, <2>8, <3>1
      <4>. QED  BY <2>4, <4>1
    <3>2. CASE g[k] <= g[n]
      <4>1. n \in 1 .. k /\ \A m \in 1 .. k : g[m] <= g[n]
        BY <2>4, <2>6, <2>7, <3>2
      <4>. QED  BY <4>1
    <3>. QED  BY <2>8, <3>1, <3>2
  <2>. QED  BY <2>9
<1>2. M \in 1 .. M
  OBVIOUS
<1>. QED  BY <1>1, <1>2

(* A function on 1 .. a is a sequence of length a. *)
LEMMA IsSeq ==
  ASSUME NEW s, NEW a \in Nat, s = [i \in 1 .. a |-> s[i]]
  PROVE  s \in Seq(Range(s)) /\ Len(s) = a
<1>1. s \in [1 .. a -> Range(s)]
  BY DEF Range
<1>. QED  BY <1>1

(* A sequence that another one continues is its prefix. *)
LEMMA PrefixBy ==
  ASSUME NEW s, NEW t, NEW a \in Nat, NEW b \in Nat, a <= b,
         s = [i \in 1 .. a |-> s[i]], t = [i \in 1 .. b |-> t[i]],
         \A i \in 1 .. a : s[i] = t[i]
  PROVE  Log!IsPrefix(s, t)
<1>1. s \in Seq(Range(s)) /\ Len(s) = a
  BY IsSeq
<1>2. t \in Seq(Range(t)) /\ Len(t) = b
  BY IsSeq
<1>3. SubSeq(s, 1, a) = SubSeq(t, 1, a)
  <2>1. SubSeq(s, 1, a) = [i \in 1 .. a |-> s[i]]
    BY <1>1
  <2>2. SubSeq(t, 1, a) = [i \in 1 .. a |-> t[i]]
    BY <1>2
  <2>. QED  BY <2>1, <2>2
<1>. QED  BY <1>1, <1>2, <1>3 DEF Log!IsPrefix

(* What a node has finalised is a prefix of what any node has that is not  *)
(* behind it.                                                              *)
LogsAgree ==
  /\ \A n, m \in Peers :
       last_finalised_frame[n] <= last_finalised_frame[m] =>
         \A i \in 1 .. first_not_finalised_frame(n) :
           FinalisedFrames(n)[i] = FinalisedFrames(m)[i]
  /\ \A n \in Peers :
       /\ first_not_finalised_frame(n) \in Nat
       /\ last_finalised_frame[n] = first_not_finalised_frame(n) - 1
       /\ FinalisedFrames(n)
            = [i \in 1 .. first_not_finalised_frame(n) |-> FinalisedFrames(n)[i]]
       /\ \A i \in 1 .. first_not_finalised_frame(n) :
            /\ FinalisedFrames(n)[i] # <<>>
            /\ \A j \in 1 .. (i - 1) :
                 Log!Range(FinalisedFrames(n)[i]) \cap Log!Range(FinalisedFrames(n)[j]) = {}
  /\ Furthest \in Peers
  /\ \A m \in Peers : last_finalised_frame[m] <= last_finalised_frame[Furthest]

LEMMA LogsAgreeHolds == IInv /\ FramesInv => LogsAgree
<1>. SUFFICES ASSUME IInv, FramesInv PROVE LogsAgree
  OBVIOUS
<1>1. ASSUME NEW n \in Peers
      PROVE  /\ first_not_finalised_frame(n) \in Nat
             /\ last_finalised_frame[n] = first_not_finalised_frame(n) - 1
             /\ last_finalised_frame[n] \in Int
  BY DEF IInv, NodeOK, Shape, first_not_finalised_frame
<1>2. ASSUME NEW n \in Peers, NEW m \in Peers, last_finalised_frame[n] <= last_finalised_frame[m],
             NEW i \in 1 .. first_not_finalised_frame(n)
      PROVE  FinalisedFrames(n)[i] = FinalisedFrames(m)[i]
  <2>1. i - 1 \in 0 .. last_finalised_frame[n] /\ i - 1 <= last_finalised_frame[m]
    BY <1>1, <1>2
  <2>2. frame[n][i - 1] = frame[m][i - 1]
    BY <2>1, FinalFrameSame
  <2>3. i \in 1 .. first_not_finalised_frame(m)
    BY <1>1, <1>2
  <2>. QED  BY <2>2, <2>3 DEF FinalisedFrames
<1>3. ASSUME NEW n \in Peers
      PROVE  /\ FinalisedFrames(n)
                  = [i \in 1 .. first_not_finalised_frame(n) |-> FinalisedFrames(n)[i]]
             /\ \A i \in 1 .. first_not_finalised_frame(n) :
                  FinalisedFrames(n)[i] = frame[n][i - 1]
  BY DEF FinalisedFrames
<1>4. ASSUME NEW n \in Peers, NEW f \in 0 .. last_finalised_frame[n]
      PROVE  /\ frame[n][f] # <<>>
             /\ Log!Range(frame[n][f]) = {x \in DOMAIN event[n] : event[n][x] = f}
  <2>1. f \in 0 .. (first_not_finalised_frame(n) - 1)
    BY <1>1
  <2>2. frame[n][f] # <<>> /\ Lists(frame[n][f], {x \in DOMAIN event[n] : event[n][x] = f})
    BY <2>1 DEF FramesInv, FramesOK
  <2>. DEFINE S == {x \in DOMAIN event[n] : event[n][x] = f}
  <2>3. Log!Range(frame[n][f]) = S
    <3>1. Lists(frame[n][f], S)
      BY <2>2
    <3>. HIDE DEF S
    <3>. QED  BY <3>1, SMTT(30) DEF Lists, Log!Range
  <2>. QED  BY <2>2, <2>3
<1>5. ASSUME NEW n \in Peers, NEW i \in 1 .. first_not_finalised_frame(n)
      PROVE  /\ FinalisedFrames(n)[i] # <<>>
             /\ \A j \in 1 .. (i - 1) :
                  Log!Range(FinalisedFrames(n)[i]) \cap Log!Range(FinalisedFrames(n)[j]) = {}
  <2>1. i - 1 \in 0 .. last_finalised_frame[n]
    BY <1>1
  <2>2. ASSUME NEW j \in 1 .. (i - 1)
        PROVE  Log!Range(FinalisedFrames(n)[i]) \cap Log!Range(FinalisedFrames(n)[j]) = {}
    <3>1. /\ j \in 1 .. first_not_finalised_frame(n) /\ j - 1 \in 0 .. last_finalised_frame[n]
          /\ i - 1 # j - 1
      BY <1>1
    <3>2. /\ Log!Range(frame[n][i - 1]) = {x \in DOMAIN event[n] : event[n][x] = i - 1}
          /\ Log!Range(frame[n][j - 1]) = {x \in DOMAIN event[n] : event[n][x] = j - 1}
      BY <1>4, <2>1, <3>1
    <3>3. FinalisedFrames(n)[i] = frame[n][i - 1] /\ FinalisedFrames(n)[j] = frame[n][j - 1]
      BY <1>3, <3>1
    <3>. QED  BY <3>1, <3>2, <3>3
  <2>3. FinalisedFrames(n)[i] # <<>>
    BY <1>3, <1>4, <2>1
  <2>. QED  BY <2>2, <2>3
<1>6. \E n \in Peers : \A m \in Peers : last_finalised_frame[m] <= last_finalised_frame[n]
  <2>1. \A i \in 1 .. N : last_finalised_frame[i] \in Int
    BY <1>1 DEF Peers
  <2>2. N \in Nat \ {0}
    BY NAssumption
  <2>. QED  BY <2>1, <2>2, GreatestExists DEF Peers
<1>7. Furthest \in Peers /\ \A m \in Peers : last_finalised_frame[m] <= last_finalised_frame[Furthest]
  BY <1>6 DEF Furthest
<1>. QED  BY <1>1, <1>2, <1>3, <1>5, <1>7 DEF LogsAgree

(* What insert_event finalises continues the log, or is in it already.     *)
LEMMA InsertLogs ==
  ASSUME IInv, LogsAgree, LogsAgree', NEW n \in Peers, StepOK,
         \A m \in Peers \ {n} : /\ last_finalised_frame'[m] = last_finalised_frame[m]
                                /\ frame'[m] = frame[m]
  PROVE  [Log!LogNext]_(Log!logVars)
<1>. DEFINE last(m) == last_finalised_frame[m]
            first(m) == first_not_finalised_frame(m)
            log(m) == FinalisedFrames(m)
            known == [m \in Peers |-> FinalisedFrames(m)]
<1>f. PICK F : F = Furthest
  OBVIOUS
<1>g. PICK G : G = Furthest'
  OBVIOUS
<1>1. \A m \in Peers : /\ first(m) \in Nat /\ last(m) = first(m) - 1
                       /\ first(m)' \in Nat /\ last(m)' = first(m)' - 1
  BY DEF LogsAgree
<1>2. \A m \in Peers : first(m)' >= first(m) /\ (m # n => first(m)' = first(m))
  <2>1. \A m \in Peers : last(m)' >= last(m)
    BY DEF StepOK
  <2>2. \A m \in Peers \ {n} : last(m)' = last(m)
    OBVIOUS
  <2>. HIDE DEF last, first
  <2>. QED  BY <1>1, <2>1, <2>2
<1>3. ASSUME NEW m \in Peers, NEW i \in 1 .. first(m)
      PROVE  log(m)'[i] = log(m)[i]
  <2>1. i - 1 \in 0 .. last_finalised_frame[m] /\ i \in 1 .. first(m)'
    BY <1>1, <1>2
  <2>2. frame'[m][i - 1] = frame[m][i - 1]
    BY <2>1 DEF StepOK
  <2>. QED  BY <2>1, <2>2 DEF FinalisedFrames
<1>4. /\ \A m \in Peers : log(m) = [i \in 1 .. first(m) |-> log(m)[i]]
      /\ \A m \in Peers : log(m)' = [i \in 1 .. first(m)' |-> log(m)'[i]]
  BY DEF LogsAgree
<1>5. /\ F \in Peers /\ \A m \in Peers : first(m) <= first(F)
      /\ G \in Peers /\ \A m \in Peers : first(m)' <= first(G)'
  <2>1. /\ F \in Peers /\ \A m \in Peers : last(m) <= last(F)
        /\ G \in Peers /\ \A m \in Peers : last(m)' <= last(G)'
    BY <1>f, <1>g DEF LogsAgree
  <2>. HIDE DEF last, first
  <2>. QED  BY <1>1, <2>1
<1>6. ASSUME NEW m \in Peers, NEW p \in Peers, first(m)' <= first(p)', NEW i \in 1 .. first(m)'
      PROVE  log(m)'[i] = log(p)'[i]
  <2>1. last(m)' <= last(p)'
    <3>. HIDE DEF last, first
    <3>. QED  BY <1>1, <1>6
  <2>2. (\A q, r \in Peers :
           last_finalised_frame[q] <= last_finalised_frame[r] =>
             \A k \in 1 .. first_not_finalised_frame(q) :
               FinalisedFrames(q)[k] = FinalisedFrames(r)[k])'
    BY DEF LogsAgree
  <2>. QED  BY <1>6, <2>1, <2>2
<1>7. first(F) <= first(G)' /\ \A i \in 1 .. first(F) : log(F)[i] = log(G)'[i]
  <2>1. first(F) <= first(F)' /\ first(F)' <= first(G)'
    BY <1>2, <1>5
  <2>. HIDE DEF last, first, log
  <2>2. first(F) <= first(G)'
    BY <1>1, <1>5, <2>1
  <2>3. ASSUME NEW i \in 1 .. first(F) PROVE log(F)[i] = log(G)'[i]
    <3>1. i \in 1 .. first(F)'
      BY <1>1, <1>5, <2>1
    <3>. QED  BY <1>3, <1>5, <1>6, <2>1, <3>1
  <2>. QED  BY <2>2, <2>3
<1>8. log(G)' = FinalisedFrames(Furthest)' /\ log(F) = FinalisedFrames(Furthest)
  BY <1>f, <1>g DEF FinalisedFrames, first_not_finalised_frame
<1>9. CASE first(n)' = first(n)
  <2>. HIDE DEF last, first
  <2>1. \A m \in Peers : first(m)' = first(m)
    BY <1>2, <1>9
  <2>2. \A m \in Peers : log(m)' = log(m)
    <3>. SUFFICES ASSUME NEW m \in Peers PROVE log(m)' = log(m)
      OBVIOUS
    <3>. HIDE DEF log
    <3>1. first(m)' = first(m)
      BY <2>1
    <3>2. log(m)' = [i \in 1 .. first(m) |-> log(m)'[i]]
      BY <1>4, <3>1
    <3>. QED  BY <1>3, <1>4, <3>2
  <2>3. first(G)' = first(F)
    BY <1>1, <1>5, <2>1
  <2>4. log(G)' = log(F)
    <3>. HIDE DEF log
    <3>1. log(G)' = [i \in 1 .. first(F) |-> log(G)'[i]]
      BY <1>4, <1>5, <2>3
    <3>. QED  BY <1>4, <1>5, <1>7, <3>1
  <2>5. known' = known
    BY <2>2
  <2>. QED  BY <1>8, <2>4, <2>5 DEF Log!logVars
<1>10. CASE first(n)' # first(n)
  <2>. HIDE DEF last, first
  <2>1. first(n)' > first(n) /\ first(n)' \in Nat /\ first(n) \in Nat
    BY <1>1, <1>2, <1>10
  <2>2. \A m \in Peers \ {n} : log(m)' = log(m)
    <3>. SUFFICES ASSUME NEW m \in Peers \ {n} PROVE log(m)' = log(m)
      OBVIOUS
    <3>. HIDE DEF log
    <3>1. first(m)' = first(m)
      BY <1>2
    <3>2. log(m)' = [i \in 1 .. first(m) |-> log(m)'[i]]
      BY <1>4, <3>1
    <3>. QED  BY <1>3, <1>4, <3>2
  <2>3. known' = [known EXCEPT ![n] = known'[n]]
    BY <2>2
  <2>4. known[n] = log(n) /\ known'[n] = log(n)'
    OBVIOUS
  <2>. HIDE DEF known, log
  <2>5. Log!NewFrames(log(F), log(G)')
    <3>1. Log!IsPrefix(log(F), log(G)')
      BY <1>1, <1>4, <1>5, <1>7, PrefixBy, SMTT(30)
    <3>2. Len(log(F)) = first(F) /\ Len(log(G)') = first(G)'
      BY <1>1, <1>4, <1>5, IsSeq
    <3>3. ASSUME NEW i \in (first(F) + 1) .. first(G)'
          PROVE  /\ log(G)'[i] # <<>>
                 /\ \A j \in 1 .. (i - 1) : Log!Range(log(G)'[i]) \cap Log!Range(log(G)'[j]) = {}
      <4>1. i \in 1 .. first(G)'
        BY <1>1, <1>5
      <4>. QED  BY <1>5, <4>1 DEF LogsAgree, log, first
    <3>. QED  BY <3>1, <3>2, <3>3 DEF Log!NewFrames
  <2>6. log(n)' # log(n)
    <3>1. Len(log(n)) = first(n) /\ Len(log(n)') = first(n)'
      BY <1>1, <1>4, IsSeq
    <3>. QED  BY <2>1, <3>1
  <2>7. Log!IsPrefix(log(n), log(n)')
    BY <1>3, <1>4, <2>1, PrefixBy
  <2>8. Log!IsPrefix(log(n)', log(G)')
    <3>1. G \in Peers /\ first(n)' <= first(G)' /\ first(n)' \in Nat /\ first(G)' \in Nat
      BY <1>1, <1>5
    <3>2. \A i \in 1 .. first(n)' : log(n)'[i] = log(G)'[i]
      BY <1>6, <3>1
    <3>. QED  BY <1>4, <3>1, <3>2, PrefixBy
  <2>9. ASSUME log(G)' # log(F) PROVE log(n)' = log(G)'
    <3>1. CASE first(n)' = first(G)'
      <4>1. log(n)' = [i \in 1 .. first(G)' |-> log(n)'[i]]
        BY <1>4, <3>1
      <4>2. \A i \in 1 .. first(G)' : log(n)'[i] = log(G)'[i]
        BY <1>1, <1>5, <1>6, <3>1
      <4>. QED  BY <1>4, <1>5, <4>1, <4>2
    <3>2. CASE first(n)' # first(G)'
      <4>1. first(G)' = first(G)
        BY <1>2, <1>5, <3>2
      <4>2. first(G)' = first(F)
        BY <1>1, <1>2, <1>5, <4>1
      <4>3. log(G)' = [i \in 1 .. first(F) |-> log(G)'[i]]
        BY <1>4, <1>5, <4>2
      <4>4. log(G)' = log(F)
        BY <1>4, <1>5, <1>7, <4>3
      <4>. QED  BY <2>9, <4>4
    <3>. QED  BY <3>1, <3>2
  <2>10. Log!Finalise(n)
    BY <1>8, <2>3, <2>4, <2>5, <2>6, <2>7, <2>8, <2>9 DEF Log!Finalise, known
  <2>. QED  BY <2>10 DEF Log!LogNext
<1>. QED  BY <1>9, <1>10

(* The leaf events of DAGcore::new decide nothing.                         *)
LEMMA InitLog == Init => Log!LogInit
<1>. SUFFICES ASSUME Init PROVE Log!LogInit
  OBVIOUS
<1>1. IInv /\ FramesInv
  BY InitInv, InitFrames
<1>2. Furthest \in Peers
  BY <1>1, LogsAgreeHolds DEF LogsAgree
<1>3. ASSUME NEW n \in Peers PROVE FinalisedFrames(n) = <<>>
  <2>1. first_not_finalised_frame(n) = 0
    BY DEF Init, first_not_finalised_frame
  <2>2. DOMAIN FinalisedFrames(n) = {}
    BY <2>1 DEF FinalisedFrames
  <2>. QED  BY <2>1 DEF FinalisedFrames
<1>. QED  BY <1>2, <1>3 DEF Log!LogInit

(* Every step continues the log, or leaves it alone.                       *)
LEMMA StepLog ==
  ASSUME IInv, FramesInv, [Next]_vars, LogsAgree'
  PROVE  [Log!LogNext]_(Log!logVars)
<1>1. LogsAgree
  BY LogsAgreeHolds
<1>2. CASE UNCHANGED <<dag, event, flag_table, frame, last_finalised_frame>>
  <2>1. \A n \in Peers : FinalisedFrames(n)' = FinalisedFrames(n)
    BY <1>2 DEF FinalisedFrames, first_not_finalised_frame
  <2>2. Furthest' = Furthest /\ Furthest \in Peers
    BY <1>1, <1>2 DEF Furthest, LogsAgree
  <2>3. FinalisedFrames(Furthest)' = FinalisedFrames(Furthest)
    BY <1>2, <2>2 DEF FinalisedFrames, first_not_finalised_frame
  <2>. QED  BY <2>1, <2>3 DEF Log!logVars
<1>3. ASSUME NEW n \in Peers, NEW e \in DOMAIN dag', Inserts(n, e)
      PROVE  [Log!LogNext]_(Log!logVars)
  <2>1. StepOK
    BY StepInv
  <2>2. \A m \in Peers \ {n} : /\ last_finalised_frame'[m] = last_finalised_frame[m]
                               /\ frame'[m] = frame[m]
    BY <1>3, InsertOthers DEF Inserts, IInv
  <2>. QED  BY <1>1, <2>1, <2>2, InsertLogs
<1>. QED  BY <1>2, <1>3, StepInserts

(* The core implements the one log of frames: what a node has finalised is *)
(* a prefix of one sequence of frames with no event in common, whatever    *)
(* the order in which the events reach it (core.rs:277-306).               *)
THEOREM ImplementsFrameLogHolds == Spec => ImplementsFrameLog
<1>1. (IInv /\ FramesInv => LogsAgree)'
  BY LogsAgreeHolds, PTL
<1>2. IInv /\ FramesInv /\ [Next]_vars => [Log!LogNext]_(Log!logVars)
  <2>. SUFFICES ASSUME IInv, FramesInv, [Next]_vars PROVE [Log!LogNext]_(Log!logVars)
    OBVIOUS
  <2>1. IInv' /\ FramesInv'
    BY StepInv, StepFrames DEF StepOK
  <2>. QED  BY <1>1, <2>1, StepLog
<1>. QED  BY <1>2, InitLog, Invariance, FramesInvariance, PTL
          DEF Spec, ImplementsFrameLog, Log!LogSpec

-----------------------------------------------------------------------------
(* What is in a final frame. *)

FrameCreators(d, f) == {Creator(x) : x \in {y \in DOMAIN d : d[y].frame = f}}

(* Below every event of the DAG, each frame has events of a majority.      *)
MajorityBelow(d) ==
  \A e \in DOMAIN d : \A f \in Nat :
    f < d[e].frame => Cardinality(FrameCreators(d, f)) >= root_majority(N)

(* The time stamps rise along the chain of a creator.                      *)
StampsRise(d) ==
  \A p \in Peers : \A h, k \in Nat : h < k /\ <<p, k>> \in DOMAIN d =>
    d[<<p, h>>].lamport_timestamp < d[<<p, k>>].lamport_timestamp

(* A clock covers the events the node stores.                              *)
ClocksCover ==
  \A n \in Peers : \A x \in DOMAIN event[n] : dag[x].lamport_timestamp <= lamport_time[n]

ChainInv == MajorityBelow(dag) /\ StampsRise(dag) /\ ClocksCover

(* The events of a frame become more as the DAG grows.                     *)
LEMMA CreatorsGrow ==
  ASSUME NEW d, NEW d2, DagOK(d2), Extends(d2, d), NEW f
  PROVE  /\ Cardinality(FrameCreators(d, f)) \in Nat /\ Cardinality(FrameCreators(d2, f)) \in Nat
         /\ Cardinality(FrameCreators(d, f)) <= Cardinality(FrameCreators(d2, f))
<1>1. FrameCreators(d, f) \subseteq FrameCreators(d2, f)
  BY DEF FrameCreators, Extends
<1>2. FrameCreators(d2, f) \in SUBSET Peers
  BY DEF FrameCreators, DagOK, Events, Creator
<1>3. IsFiniteSet(Peers)
  BY FS_Interval, NAssumption DEF Peers
<1>4. IsFiniteSet(FrameCreators(d2, f))
  BY <1>2, <1>3, FS_Subset
<1>5. /\ IsFiniteSet(FrameCreators(d, f))
      /\ Cardinality(FrameCreators(d, f)) <= Cardinality(FrameCreators(d2, f))
  BY <1>1, <1>4, FS_Subset
<1>. QED  BY <1>4, <1>5, FS_CardinalityType

(* A new event is in the frame of a parent, or one above a frame of which  *)
(* it sees roots of a majority (core.rs:198-227).                          *)
LEMMA MajorityStays ==
  ASSUME NEW d, NEW d2, DagOK(d), DagOK(d2), Extends(d2, d), MajorityBelow(d),
         NEW e, DOMAIN d2 = DOMAIN d \cup {e}, e \notin DOMAIN d,
         d2[e].self_parent \in DOMAIN d, d2[e].other_parent \in DOMAIN d
  PROVE  MajorityBelow(d2)
<1>. DEFINE sp == d2[e].self_parent
            op == d2[e].other_parent
            seen == {r \in d2[sp].roots \cup d2[op].roots : d2[r].frame = d2[sp].frame}
<1>1. ASSUME NEW x \in DOMAIN d, NEW f \in Nat, f < d2[x].frame
      PROVE  Cardinality(FrameCreators(d2, f)) >= root_majority(N)
  <2>1. f < d[x].frame
    BY <1>1 DEF Extends
  <2>2. Cardinality(FrameCreators(d, f)) >= root_majority(N)
    BY <2>1 DEF MajorityBelow
  <2>3. root_majority(N) \in Nat
    BY NAssumption DEF root_majority
  <2>. QED  BY <2>2, <2>3, CreatorsGrow
<1>2. d2[e].frame = CompleteFrame(d2, sp, op)
  BY DEF DagOK, ContentOK
<1>3. d2[sp].frame \in Nat /\ d2[op].frame \in Nat
  BY DEF DagOK, EventContent
<1>4. ASSUME NEW f \in Nat, f < d2[e].frame
      PROVE  Cardinality(FrameCreators(d2, f)) >= root_majority(N)
  <2>1. CASE f < d2[sp].frame
    BY <1>1, <2>1
  <2>2. CASE f < d2[op].frame
    BY <1>1, <2>2
  <2>3. CASE ~ (f < d2[sp].frame) /\ ~ (f < d2[op].frame)
    <3>1. f = d2[sp].frame /\ Cardinality({Creator(r) : r \in seen}) >= root_majority(N)
      BY <1>2, <1>3, <1>4, <2>3 DEF CompleteFrame
    <3>2. {Creator(r) : r \in seen} \subseteq FrameCreators(d2, f)
      BY <3>1 DEF FrameCreators, DagOK, RootsOK
    <3>3. FrameCreators(d2, f) \in SUBSET Peers
      BY DEF FrameCreators, DagOK, Events, Creator
    <3>4. IsFiniteSet(Peers)
      BY FS_Interval, NAssumption DEF Peers
    <3>5. IsFiniteSet(FrameCreators(d2, f))
      BY <3>3, <3>4, FS_Subset
    <3>. HIDE DEF seen
    <3>6. /\ IsFiniteSet({Creator(r) : r \in seen})
          /\ Cardinality({Creator(r) : r \in seen}) <= Cardinality(FrameCreators(d2, f))
      BY <3>2, <3>5, FS_Subset
    <3>7. /\ Cardinality({Creator(r) : r \in seen}) \in Nat
          /\ Cardinality(FrameCreators(d2, f)) \in Nat
      BY <3>5, <3>6, FS_CardinalityType
    <3>8. root_majority(N) \in Nat
      BY NAssumption DEF root_majority
    <3>. QED  BY <3>1, <3>6, <3>7, <3>8
  <2>. QED  BY <2>1, <2>2, <2>3
<1>. QED  BY <1>1, <1>4 DEF MajorityBelow

(* The leaves are in frame 0, with stamp 0.                                *)
LEMMA InitChain == Init => ChainInv
<1>. SUFFICES ASSUME Init PROVE ChainInv
  OBVIOUS
<1>1. DOMAIN dag = Leaves /\ \A x \in Leaves : dag[x].frame = 0 /\ dag[x].lamport_timestamp = 0
  BY DEF Init
<1>2. \A p \in Peers : \A k \in Nat : <<p, k>> \in Leaves => k = 0
  BY DEF Leaves, Leaf
<1>3. MajorityBelow(dag)
  BY <1>1 DEF MajorityBelow
<1>4. StampsRise(dag)
  BY <1>1, <1>2 DEF StampsRise
<1>5. ClocksCover
  BY <1>1 DEF Init, ClocksCover
<1>. QED  BY <1>3, <1>4, <1>5 DEF ChainInv

(* procedure_a stamps an event later than all that its node stores         *)
(* (lib.rs:286-290).                                                       *)
LEMMA CreateChain ==
  ASSUME IInv, ChainInv, NEW n \in Peers, NEW p \in Partners(n), CreateEvent(n, p)
  PROVE  ChainInv'
<1>. DEFINE k == height[n][n]
            e == <<n, k + 1>>
            sp == <<n, k>>
            op == <<p, height[n][p]>>
            content == [self_parent |-> sp, other_parent |-> op,
                        lamport_timestamp |-> lamport_time[n] + 1,
                        frame |-> CompleteFrame(dag, sp, op),
                        roots |-> CompleteRoots(dag, e, sp, op)]
<1>1. p \in Peers
  BY PartnersArePeers
<1>2. /\ k \in Nat /\ lamport_time[n] \in Nat
      /\ sp \in DOMAIN event[n] /\ op \in DOMAIN event[n] /\ DOMAIN event[n] \subseteq DOMAIN dag
      /\ DagOK(dag)
  BY <1>1 DEF IInv, HeightsOK, NodeOK
<1>3. e \notin DOMAIN dag /\ e \notin DOMAIN event[n]
  BY <1>2 DEF IInv, HeightsOK
<1>4. /\ dag' = insert(dag, e, content)
      /\ lamport_time' = [lamport_time EXCEPT ![n] = @ + 1]
      /\ insert_event(n, e, insert(dag, e, content))
  <2>1. (k + 1) - 1 = k
    BY <1>2
  <2>. QED  BY <2>1 DEF CreateEvent, NewEvent
<1>5. DagOK(dag') /\ Extends(dag', dag)
  <2>1. sp \in DOMAIN dag /\ op \in DOMAIN dag
    BY <1>2
  <2>2. lamport_time[n] + 1 \in Nat
    BY <1>2
  <2>. QED  BY <1>2, <1>3, <1>4, <2>1, <2>2, DagGrows
<1>6. /\ DOMAIN dag' = DOMAIN dag \cup {e}
      /\ dag'[e].self_parent = sp /\ dag'[e].other_parent = op
      /\ dag'[e].lamport_timestamp = lamport_time[n] + 1
      /\ \A x \in DOMAIN dag : dag'[x] = dag[x]
  BY <1>3, <1>4 DEF insert
<1>7. DOMAIN event'[n] = DOMAIN event[n] \cup {e}
      /\ \A m \in Peers : m # n => event'[m] = event[m]
  <2>1. insert_event(n, e, dag')
    BY <1>4
  <2>2. NodeOK(dag', event[n], flag_table[n], first_not_finalised_frame(n)) /\ Shape
    BY <1>5, NodeExtends DEF IInv, DagOK
  <2>3. InsertContext(n, dag', e)
    <3>. HIDE DEF e, sp, op
    <3>. QED  BY <1>2, <1>3, <1>5, <1>6, <2>2 DEF InsertContext
  <2>. HIDE DEF e
  <2>. QED  BY <2>1, <2>2, <2>3, InsertNode, InsertOthers
<1>8. MajorityBelow(dag')
  <2>1. dag'[e].self_parent \in DOMAIN dag /\ dag'[e].other_parent \in DOMAIN dag
    BY <1>2, <1>6
  <2>. HIDE DEF e
  <2>. QED  BY <1>2, <1>3, <1>5, <1>6, <2>1, MajorityStays DEF ChainInv
<1>9. StampsRise(dag')
  <2>. SUFFICES ASSUME NEW q \in Peers, NEW h \in Nat, NEW j \in Nat, h < j,
                       <<q, j>> \in DOMAIN dag'
                PROVE  dag'[<<q, h>>].lamport_timestamp < dag'[<<q, j>>].lamport_timestamp
    BY DEF StampsRise
  <2>1. CASE <<q, j>> \in DOMAIN dag
    <3>1. <<q, h>> \in DOMAIN dag
      BY <1>2, <2>1 DEF DagOK, ChainsOK
    <3>. QED  BY <1>6, <2>1, <3>1 DEF ChainInv, StampsRise
  <2>2. CASE <<q, j>> \notin DOMAIN dag
    <3>1. q = n /\ j = k + 1 /\ <<q, j>> = e
      BY <1>6, <2>2
    <3>2. <<q, h>> \in DOMAIN event[n]
      <4>1. h \in 0 .. k
        BY <1>2, <3>1
      <4>. QED  BY <1>2, <3>1, <4>1 DEF IInv, NodeOK, PrefixOK
    <3>3. dag[<<q, h>>].lamport_timestamp <= lamport_time[n]
      BY <3>2 DEF ChainInv, ClocksCover
    <3>4. dag[<<q, h>>].lamport_timestamp \in Nat /\ dag'[<<q, h>>] = dag[<<q, h>>]
      BY <1>2, <1>6, <3>2 DEF DagOK, EventContent
    <3>. QED  BY <1>2, <1>6, <3>1, <3>3, <3>4
  <2>. QED  BY <2>1, <2>2
<1>10. ClocksCover'
  <2>. SUFFICES ASSUME NEW m \in Peers, NEW x \in DOMAIN event'[m]
                PROVE  dag'[x].lamport_timestamp <= lamport_time'[m]
    BY DEF ClocksCover
  <2>1. lamport_time'[m] \in Nat /\ lamport_time[m] \in Nat /\ lamport_time[m] <= lamport_time'[m]
        /\ lamport_time'[n] = lamport_time[n] + 1
    BY <1>4 DEF IInv
  <2>2. CASE x \in DOMAIN event[m]
    <3>1. x \in DOMAIN dag /\ dag[x].lamport_timestamp \in Nat
      BY <2>2 DEF IInv, NodeOK, DagOK, EventContent
    <3>2. dag[x].lamport_timestamp <= lamport_time[m]
      BY <2>2 DEF ChainInv, ClocksCover
    <3>. QED  BY <1>6, <2>1, <3>1, <3>2
  <2>3. CASE x \notin DOMAIN event[m]
    <3>1. m = n /\ x = e
      BY <1>7, <2>3
    <3>. QED  BY <1>6, <2>1, <3>1
  <2>. QED  BY <2>2, <2>3
<1>. QED  BY <1>8, <1>9, <1>10 DEF ChainInv

(* The listener has merged the clock before it inserts (lib.rs:115-135).   *)
LEMMA ReceiveChain ==
  ASSUME IInv, ChainInv, NEW n \in Peers, NEW e \in DOMAIN dag \ DOMAIN event[n],
         ReceiveEvent(n, e)
  PROVE  ChainInv'
<1>1. /\ dag' = dag /\ lamport_time' = lamport_time /\ insert_event(n, e, dag)
      /\ dag[e].self_parent \in DOMAIN event[n] /\ dag[e].other_parent \in DOMAIN event[n]
      /\ dag[e].lamport_timestamp <= lamport_time[n]
  BY DEF ReceiveEvent, Receivable
<1>2. InsertContext(n, dag, e) /\ Shape
  BY <1>1 DEF InsertContext, IInv
<1>3. DOMAIN event'[n] = DOMAIN event[n] \cup {e}
  BY <1>1, <1>2, InsertNode
<1>4. \A m \in Peers : m # n => event'[m] = event[m]
  BY <1>1, <1>2, InsertOthers
<1>5. ASSUME NEW m \in Peers, NEW x \in DOMAIN event'[m]
      PROVE  dag'[x].lamport_timestamp <= lamport_time'[m]
  <2>1. x \in DOMAIN event[m] \/ (m = n /\ x = e)
    BY <1>3, <1>4, <1>5
  <2>. QED  BY <1>1, <2>1 DEF ChainInv, ClocksCover
<1>6. ClocksCover'
  BY <1>5 DEF ClocksCover
<1>. QED  BY <1>1, <1>6 DEF ChainInv

(* A merge of the clock only raises it (core.rs:118-122).                  *)
LEMMA ClockChain ==
  ASSUME IInv, ChainInv, NEW n \in Peers, UpdateLamportTime(n)
  PROVE  ChainInv'
<1>1. /\ UNCHANGED <<dag, event>>
      /\ \E m \in Peers \ {n} : \E time \in (lamport_time[n] + 1) .. lamport_time[m] :
           lamport_time' = [lamport_time EXCEPT ![n] = time]
  BY DEF UpdateLamportTime
<1>2. \A m \in Peers : /\ lamport_time[m] \in Nat /\ lamport_time'[m] \in Nat
                       /\ lamport_time[m] <= lamport_time'[m]
  BY <1>1 DEF IInv
<1>3. \A m \in Peers : \A x \in DOMAIN event[m] : dag[x].lamport_timestamp \in Nat
  BY DEF IInv, NodeOK, DagOK, EventContent
<1>4. ClocksCover'
  BY <1>1, <1>2, <1>3 DEF ChainInv, ClocksCover
<1>. QED  BY <1>1, <1>4 DEF ChainInv

(* Frames have a majority below every event, and time stamps rise along    *)
(* every chain, in every reachable state (core.rs:183-308).                *)
THEOREM ChainInvariance == Spec => []ChainInv
<1>1. ASSUME IInv, ChainInv, Next PROVE ChainInv'
  <2>1. PICK n \in Peers :
          \/ \E p \in Partners(n) : CreateEvent(n, p)
          \/ UpdateLamportTime(n)
          \/ \E e \in DOMAIN dag \ DOMAIN event[n] : ReceiveEvent(n, e)
    BY <1>1 DEF Next
  <2>2. ASSUME NEW p \in Partners(n), CreateEvent(n, p) PROVE ChainInv'
    BY <1>1, <2>2, CreateChain
  <2>3. CASE UpdateLamportTime(n)
    BY <1>1, <2>3, ClockChain
  <2>4. ASSUME NEW e \in DOMAIN dag \ DOMAIN event[n], ReceiveEvent(n, e) PROVE ChainInv'
    BY <1>1, <2>4, ReceiveChain
  <2>. QED  BY <2>1, <2>2, <2>3, <2>4
<1>2. ASSUME ChainInv, UNCHANGED vars PROVE ChainInv'
  BY <1>2 DEF vars, ChainInv, ClocksCover
<1>3. IInv /\ ChainInv /\ [Next]_vars => ChainInv'
  BY <1>1, <1>2
<1>. QED  BY <1>3, InitChain, Invariance, PTL DEF Spec

(* An entry of a listing is one of the set. *)
LEMMA ListMember ==
  ASSUME NEW S, NEW s, Lists(s, S), NEW i \in DOMAIN s
  PROVE  s[i] \in S /\ i \in 1 .. Len(s)
BY DEF Lists

(* What a final frame has: all events of the DAG with its number.          *)
LEMMA FinalFrame ==
  ASSUME IInv, FramesInv, NEW n \in Peers, NEW f \in 0 .. last_finalised_frame[n]
  PROVE  /\ Lists(frame[n][f], {e \in DOMAIN dag : dag[e].frame = f})
         /\ Sorted(dag, frame[n][f])
         /\ \E e \in DOMAIN dag : f < dag[e].frame
<1>. DEFINE first == first_not_finalised_frame(n)
            S == {e \in DOMAIN dag : dag[e].frame = f}
<1>1. /\ f \in 0 .. (first - 1) /\ f < first /\ first \in Nat /\ f \in Nat
  BY DEF IInv, Shape, first_not_finalised_frame
<1>2. NodeOK(dag, event[n], flag_table[n], first) /\ DagOK(dag)
  BY DEF IInv
<1>3. {x \in DOMAIN event[n] : event[n][x] = f} = S
  <2>1. \A x \in DOMAIN event[n] : x \in DOMAIN dag /\ event[n][x] = dag[x].frame
    BY <1>2 DEF NodeOK
  <2>2. \A x \in DOMAIN dag : x \notin DOMAIN event[n] => dag[x].frame >= first
    BY <1>2, Fresh
  <2>3. \A x \in DOMAIN dag : dag[x].frame = f => x \in DOMAIN event[n]
    BY <1>1, <2>2
  <2>. QED  BY <2>1, <2>3
<1>4. f \in DOMAIN frame[n] /\ Sorted(dag, frame[n][f])
  BY <1>1 DEF FramesInv, FramesOK
<1>5. Lists(frame[n][f], {x \in DOMAIN event[n] : event[n][x] = f})
  BY <1>4 DEF FramesInv, FramesOK
<1>6. PICK h \in Nat : <<1, h>> \in DOMAIN event[n] /\ dag[<<1, h>>].frame >= first
  <2>1. 1 \in Peers
    BY NAssumption DEF Peers
  <2>. QED  BY <1>2, <2>1 DEF NodeOK, Reached
<1>7. <<1, h>> \in DOMAIN dag /\ dag[<<1, h>>].frame \in Nat
  BY <1>2, <1>6 DEF NodeOK, DagOK, EventContent
<1>8. f < dag[<<1, h>>].frame
  <2>. HIDE DEF first
  <2>. QED  BY <1>1, <1>6, <1>7
<1>. HIDE DEF first, S
<1>9. Lists(frame[n][f], S) /\ Sorted(dag, frame[n][f])
  BY <1>3, <1>4, <1>5
<1>. QED  BY <1>7, <1>8, <1>9 DEF S

(* A final frame has an event of a majority of the peers (core.rs:198-227, *)
(* 277-278), as module Delivery takes for granted of its frames.           *)
THEOREM FinalFramesHaveMajorityHolds == Spec => []FinalFramesHaveMajority
<1>1. IInv /\ FramesInv /\ ChainInv => FinalFramesHaveMajority
  <2>. SUFFICES ASSUME IInv, FramesInv, ChainInv,
                       NEW n \in Peers, NEW f \in 0 .. last_finalised_frame[n]
                PROVE  Cardinality({Creator(e) : e \in Range(frame[n][f])}) >= root_majority(N)
    BY DEF FinalFramesHaveMajority
  <2>1. /\ Lists(frame[n][f], {e \in DOMAIN dag : dag[e].frame = f})
        /\ \E e \in DOMAIN dag : f < dag[e].frame
    BY FinalFrame
  <2>2. Range(frame[n][f]) = {e \in DOMAIN dag : dag[e].frame = f}
    BY <2>1 DEF Lists, Range
  <2>3. f \in Nat
    OBVIOUS
  <2>4. Cardinality(FrameCreators(dag, f)) >= root_majority(N)
    BY <2>1, <2>3 DEF ChainInv, MajorityBelow
  <2>. QED  BY <2>2, <2>4 DEF FrameCreators
<1>. QED  BY <1>1, Invariance, FramesInvariance, ChainInvariance, PTL

(* The final frames, one after the other, have the events of a creator in  *)
(* the order of its chain (core.rs:198-227, lib.rs:286-290,                *)
(* frame.rs:39-54), as module Transactions takes for granted.              *)
THEOREM FinalFramesFollowChainsHolds == Spec => []FinalFramesFollowChains
<1>1. IInv /\ FramesInv /\ ChainInv => FinalFramesFollowChains
  <2>. SUFFICES ASSUME IInv, FramesInv, ChainInv, NEW n \in Peers,
                       NEW f \in 0 .. last_finalised_frame[n],
                       NEW g \in 0 .. last_finalised_frame[n],
                       NEW i \in DOMAIN frame[n][f], NEW j \in DOMAIN frame[n][g],
                       Creator(frame[n][f][i]) = Creator(frame[n][g][j]),
                       frame[n][f][i][2] < frame[n][g][j][2]
                PROVE  f < g \/ (f = g /\ i < j)
    BY DEF FinalFramesFollowChains
  <2>. DEFINE a == frame[n][f][i]
              b == frame[n][g][j]
  <2>1. /\ Lists(frame[n][f], {e \in DOMAIN dag : dag[e].frame = f}) /\ Sorted(dag, frame[n][f])
        /\ Lists(frame[n][g], {e \in DOMAIN dag : dag[e].frame = g})
    BY FinalFrame
  <2>2. /\ a \in DOMAIN dag /\ dag[a].frame = f /\ i \in 1 .. Len(frame[n][f])
        /\ b \in DOMAIN dag /\ dag[b].frame = g /\ j \in 1 .. Len(frame[n][g])
    BY <2>1, ListMember
  <2>3. DagOK(dag)
    BY DEF IInv
  <2>4. PICK p \in Peers, h \in Nat, k \in Nat : a = <<p, h>> /\ b = <<p, k>> /\ h < k
    <3>1. a \in Events /\ b \in Events /\ a[1] = b[1] /\ a[2] < b[2]
      BY <2>2, <2>3 DEF DagOK, Creator
    <3>. HIDE DEF a, b
    <3>. QED  BY <3>1 DEF Events
  <2>5. dag[a].frame <= dag[b].frame
    <3>1. h \in 0 .. k
      BY <2>4
    <3>. HIDE DEF a, b
    <3>. QED  BY <2>2, <2>3, <2>4, <3>1 DEF DagOK, ChainsOK
  <2>6. dag[a].lamport_timestamp < dag[b].lamport_timestamp
    <3>. HIDE DEF a, b
    <3>. QED  BY <2>2, <2>4 DEF ChainInv, StampsRise
  <2>7. dag[a].lamport_timestamp \in Nat /\ dag[b].lamport_timestamp \in Nat
    BY <2>2, <2>3 DEF DagOK, EventContent
  <2>8. ~ Before(dag, b, a)
    BY <2>6, <2>7 DEF Before
  <2>9. CASE f = g
    <3>1. i # j
      <4>1. a # b
        <5>. HIDE DEF a, b
        <5>. QED  BY <2>4
      <4>. QED  BY <2>9, <4>1
    <3>2. ~ (j < i)
      BY <2>1, <2>2, <2>8, <2>9 DEF Sorted
    <3>3. i \in Int /\ j \in Int
      BY <2>2
    <3>. QED  BY <2>9, <3>1, <3>2, <3>3
  <2>. HIDE DEF a, b
  <2>. QED  BY <2>2, <2>5, <2>9
<1>. QED  BY <1>1, Invariance, FramesInvariance, ChainInvariance, PTL
-----------------------------------------------------------------------------
(* Sorting what may have an entry twice. *)

(* The entries of s that are before x, and those that are not after it. *)
Below(d, s, x) == {j \in 1 .. Len(s) : Before(d, s[j], x)}
NotAfter(d, s, x) == {j \in 1 .. Len(s) : ~ Before(d, x, s[j])}

LEMMA RankTypes ==
  ASSUME NEW d, NEW S, Comparable(d, S), NEW s \in Seq(S), NEW x \in S
  PROVE  /\ IsFiniteSet(Below(d, s, x)) /\ IsFiniteSet(NotAfter(d, s, x))
         /\ Cardinality(Below(d, s, x)) \in Nat /\ Cardinality(NotAfter(d, s, x)) \in Nat
         /\ Cardinality(NotAfter(d, s, x)) <= Len(s)
         /\ Below(d, s, x) \subseteq NotAfter(d, s, x)
<1>1. Len(s) \in Nat /\ \A j \in 1 .. Len(s) : s[j] \in S
  OBVIOUS
<1>2. IsFiniteSet(1 .. Len(s)) /\ Cardinality(1 .. Len(s)) = Len(s)
  BY <1>1, FS_Interval, SMTT(30)
<1>3. Below(d, s, x) \in SUBSET (1 .. Len(s)) /\ NotAfter(d, s, x) \in SUBSET (1 .. Len(s))
  BY DEF Below, NotAfter
<1>4. Below(d, s, x) \subseteq NotAfter(d, s, x)
  BY <1>1, BeforeOrder DEF Below, NotAfter
<1>5. /\ IsFiniteSet(Below(d, s, x)) /\ IsFiniteSet(NotAfter(d, s, x))
      /\ Cardinality(NotAfter(d, s, x)) <= Len(s)
  BY <1>2, <1>3, FS_Subset
<1>. QED  BY <1>4, <1>5, FS_CardinalityType

(* What is not after x is before every later entry. *)
LEMMA RanksRise ==
  ASSUME NEW d, NEW S, Comparable(d, S), NEW s \in Seq(S), NEW x \in S, NEW y \in S, Before(d, x, y)
  PROVE  Cardinality(NotAfter(d, s, x)) <= Cardinality(Below(d, s, y))
<1>1. \A j \in 1 .. Len(s) : s[j] \in S
  OBVIOUS
<1>2. ASSUME NEW z \in S, ~ Before(d, x, z) PROVE Before(d, z, y)
  BY <1>2, BeforeOrder
<1>3. NotAfter(d, s, x) \in SUBSET Below(d, s, y)
  BY <1>1, <1>2 DEF Below, NotAfter
<1>4. IsFiniteSet(Below(d, s, y))
  BY RankTypes
<1>. QED  BY <1>3, <1>4, FS_Subset

(* An entry is not before itself, nor after itself. *)
LEMMA RankOf ==
  ASSUME NEW d, NEW S, Comparable(d, S), NEW s \in Seq(S), NEW k \in 1 .. Len(s)
  PROVE  /\ s[k] \in S
         /\ Cardinality(Below(d, s, s[k])) + 1 <= Cardinality(NotAfter(d, s, s[k]))
         /\ \A l \in 1 .. Len(s) : l # k /\ s[l] = s[k] =>
              Cardinality(Below(d, s, s[k])) + 2 <= Cardinality(NotAfter(d, s, s[k]))
<1>. DEFINE B == Below(d, s, s[k])
            A == NotAfter(d, s, s[k])
<1>1. s[k] \in S
  OBVIOUS
<1>2. IsFiniteSet(B) /\ IsFiniteSet(A) /\ Cardinality(B) \in Nat /\ Cardinality(A) \in Nat
      /\ B \subseteq A
  BY <1>1, RankTypes
<1>3. ASSUME NEW l \in 1 .. Len(s), s[l] = s[k] PROVE l \in A /\ l \notin B
  BY <1>1, <1>3, BeforeOrder DEF Below, NotAfter
<1>. HIDE DEF A, B
<1>4. IsFiniteSet(B \cup {k}) /\ Cardinality(B \cup {k}) = Cardinality(B) + 1
  BY <1>2, <1>3, FS_AddElement
<1>5. Cardinality(B \cup {k}) <= Cardinality(A)
  <2>1. B \cup {k} \in SUBSET A
    BY <1>2, <1>3
  <2>. QED  BY <2>1, <1>2, FS_Subset
<1>6. ASSUME NEW l \in 1 .. Len(s), l # k, s[l] = s[k]
      PROVE  Cardinality(B) + 2 <= Cardinality(A)
  <2>1. l \notin B \cup {k} /\ (B \cup {k}) \cup {l} \in SUBSET A
    BY <1>2, <1>3, <1>6
  <2>2. Cardinality((B \cup {k}) \cup {l}) = Cardinality(B) + 1 + 1
    BY <1>4, <2>1, FS_AddElement
  <2>3. Cardinality((B \cup {k}) \cup {l}) <= Cardinality(A)
    BY <1>2, <2>1, FS_Subset
  <2>. QED  BY <1>2, <2>2, <2>3
<1>. QED  BY <1>1, <1>2, <1>4, <1>5, <1>6 DEF A, B

(* There is an entry for every position. *)
LEMMA RankTaken ==
  ASSUME NEW d, NEW S, Comparable(d, S), NEW s \in Seq(S), NEW i \in 1 .. Len(s)
  PROVE  \E k \in 1 .. Len(s) : /\ Cardinality(Below(d, s, s[k])) < i
                                /\ Cardinality(NotAfter(d, s, s[k])) >= i
<1>. DEFINE n == Len(s)
            L == [k \in 1 .. n |-> Cardinality(Below(d, s, s[k]))]
            U == [k \in 1 .. n |-> Cardinality(NotAfter(d, s, s[k]))]
<1>1. n \in Nat /\ i \in Nat /\ 1 <= i /\ i <= n /\ \A k \in 1 .. n : s[k] \in S
  OBVIOUS
<1>2. ASSUME NEW k \in 1 .. n
      PROVE  L[k] \in Nat /\ U[k] \in Nat /\ L[k] < U[k] /\ U[k] <= n
  <2>1. Cardinality(Below(d, s, s[k])) + 1 <= Cardinality(NotAfter(d, s, s[k])) /\ s[k] \in S
    BY RankOf
  <2>2. Cardinality(Below(d, s, s[k])) \in Nat /\ Cardinality(NotAfter(d, s, s[k])) \in Nat
        /\ Cardinality(NotAfter(d, s, s[k])) <= n
    BY <2>1, RankTypes
  <2>. QED  BY <2>1, <2>2
<1>3. ASSUME NEW k \in 1 .. n, NEW l \in 1 .. n, Before(d, s[k], s[l])
      PROVE  U[k] <= L[l]
  BY <1>1, <1>3, RanksRise
<1>4. ASSUME NEW K, K \subseteq 1 .. n, K # {}
      PROVE  \E k \in K : \A l \in K : U[l] <= U[k]
  <2>. DEFINE H == {U[k] : k \in K}
  <2>1. H \subseteq Nat /\ H # {} /\ \A u \in H : u <= n
    <3>. HIDE DEF U, n
    <3>. QED  BY <1>2, <1>4
  <2>2. Max(H) \in H /\ \A u \in H : u <= Max(H)
    <3>. HIDE DEF H, n
    <3>. QED  BY <1>1, <2>1, MaxProperty
  <2>3. PICK k \in K : Max(H) = U[k]
    BY <2>2
  <2>4. \A l \in K : U[l] \in H
    OBVIOUS
  <2>. QED  BY <2>2, <2>3, <2>4
<1>5. \E k \in 1 .. n : U[k] >= i
  <2>1. PICK k \in 1 .. n : \A l \in 1 .. n : U[l] <= U[k]
    BY <1>1, <1>4
  <2>2. ASSUME NEW l \in 1 .. n PROVE ~ Before(d, s[k], s[l])
    <3>. HIDE DEF U, L, n
    <3>. QED  BY <1>2, <1>3, <2>1
  <2>3. NotAfter(d, s, s[k]) = 1 .. n
    BY <2>2 DEF NotAfter
  <2>4. Cardinality(1 .. n) = n
    <3>1. n \in Int /\ 1 <= n
      BY <1>1
    <3>. HIDE DEF U, L, n
    <3>. QED  BY <3>1, FS_Interval
  <2>5. U[k] = n
    BY <2>3, <2>4
  <2>6. n >= i
    BY <1>1
  <2>. HIDE DEF U, n
  <2>. QED  BY <2>5, <2>6
<1>6. PICK k \in 1 .. n : U[k] >= i /\ \A l \in 1 .. n : U[l] >= i => U[k] <= U[l]
  <2>. DEFINE G == {U[l] : l \in {m \in 1 .. n : U[m] >= i}}
  <2>1. G \subseteq Nat /\ G # {}
    <3>. HIDE DEF U, n
    <3>. QED  BY <1>2, <1>5
  <2>2. Min(G) \in G /\ \A u \in G : Min(G) <= u
    <3>. HIDE DEF G
    <3>. QED  BY <2>1, MinProperty
  <2>3. PICK m \in 1 .. n : U[m] >= i /\ Min(G) = U[m]
    BY <2>2
  <2>4. \A l \in 1 .. n : U[l] >= i => U[l] \in G
    OBVIOUS
  <2>. QED  BY <2>2, <2>3, <2>4
<1>7. L[k] < i
  <2>. SUFFICES ASSUME L[k] >= i PROVE FALSE
    BY <1>1, <1>2
  <2>. DEFINE B == Below(d, s, s[k])
  <2>1. IsFiniteSet(B) /\ B \subseteq 1 .. n /\ L[k] = Cardinality(B)
    BY <1>1, RankTypes DEF Below
  <2>2. B # {}
    <3>. SUFFICES ASSUME B = {} PROVE FALSE
      OBVIOUS
    <3>. HIDE DEF L, B, n
    <3>. QED  BY <1>1, <2>1, FS_EmptySet
  <2>3. PICK j \in B : \A l \in B : U[l] <= U[j]
    <3>. HIDE DEF B, U, n
    <3>. QED  BY <1>4, <2>1, <2>2
  <2>4. j \in 1 .. n /\ Before(d, s[j], s[k])
    BY <2>3 DEF Below
  <2>5. ASSUME NEW l \in B PROVE ~ Before(d, s[j], s[l])
    <3>1. l \in 1 .. n
      BY <2>1
    <3>2. U[l] <= U[j] /\ L[l] \in Nat /\ U[l] \in Nat /\ U[j] \in Nat /\ L[l] < U[l]
      BY <1>2, <2>3, <2>4, <3>1
    <3>3. Before(d, s[j], s[l]) => U[j] <= L[l]
      BY <1>3, <2>4, <3>1
    <3>. HIDE DEF U, L, n
    <3>. QED  BY <3>2, <3>3
  <2>6. B \in SUBSET NotAfter(d, s, s[j])
    BY <2>1, <2>5 DEF NotAfter
  <2>7. Cardinality(B) <= U[j]
    <3>1. IsFiniteSet(NotAfter(d, s, s[j]))
      BY <1>1, <2>4, RankTypes
    <3>2. Cardinality(B) <= Cardinality(NotAfter(d, s, s[j]))
      BY <2>6, <3>1, FS_Subset
    <3>. QED  BY <2>4, <3>2
  <2>8. U[j] <= L[k] /\ L[k] < U[k] /\ U[k] \in Nat /\ U[j] \in Nat /\ L[k] \in Nat
    BY <1>2, <1>3, <2>4
  <2>9. U[j] >= i => U[k] <= U[j]
    BY <1>6, <2>4
  <2>. HIDE DEF U, L, B, n
  <2>. QED  BY <1>1, <2>1, <2>7, <2>8, <2>9
<1>. QED  BY <1>6, <1>7

(* finalise puts an entry at each of the positions that its rank allows. *)
LEMMA FinaliseAt ==
  ASSUME NEW d, NEW S, Comparable(d, S), NEW s \in Seq(S), NEW i \in 1 .. Len(s),
         NEW k \in 1 .. Len(s),
         Cardinality(Below(d, s, s[k])) < i, Cardinality(NotAfter(d, s, s[k])) >= i
  PROVE  finalise(d, s)[i] = s[k]
<1>1. DOMAIN s = 1 .. Len(s) /\ Len(s) \in Nat /\ i \in Nat /\ \A j \in 1 .. Len(s) : s[j] \in S
  OBVIOUS
<1>2. finalise(d, s)[i] = CHOOSE x \in Range(s) : /\ Cardinality(Below(d, s, x)) < i
                                                 /\ Cardinality(NotAfter(d, s, x)) >= i
  BY <1>1 DEF finalise, Below, NotAfter
<1>3. s[k] \in Range(s) /\ \A x \in Range(s) : x \in S
  BY <1>1 DEF Range
<1>4. PICK y \in S : /\ y = finalise(d, s)[i]
                     /\ Cardinality(Below(d, s, y)) < i /\ Cardinality(NotAfter(d, s, y)) >= i
  BY <1>2, <1>3
<1>5. /\ Cardinality(Below(d, s, y)) \in Nat /\ Cardinality(NotAfter(d, s, y)) \in Nat
      /\ Cardinality(Below(d, s, s[k])) \in Nat /\ Cardinality(NotAfter(d, s, s[k])) \in Nat
  BY <1>1, RankTypes
<1>6. ~ Before(d, y, s[k])
  <2>1. Before(d, y, s[k]) => Cardinality(NotAfter(d, s, y)) <= Cardinality(Below(d, s, s[k]))
    BY <1>1, RanksRise
  <2>. QED  BY <1>1, <1>4, <1>5, <2>1
<1>7. ~ Before(d, s[k], y)
  <2>1. Before(d, s[k], y) => Cardinality(NotAfter(d, s, s[k])) <= Cardinality(Below(d, s, y))
    BY <1>1, RanksRise
  <2>. QED  BY <1>1, <1>4, <1>5, <2>1
<1>8. y = s[k]
  BY <1>1, <1>6, <1>7, BeforeOrder
<1>. QED  BY <1>4, <1>8

(* finalise reorders a frame (frame.rs:39-54). *)
LEMMA FinaliseType ==
  ASSUME NEW d, NEW S, Comparable(d, S), NEW s \in Seq(S)
  PROVE  finalise(d, s) \in Seq(S) /\ Len(finalise(d, s)) = Len(s)
<1>1. DOMAIN s = 1 .. Len(s) /\ Len(s) \in Nat /\ \A j \in 1 .. Len(s) : s[j] \in S
  OBVIOUS
<1>2. ASSUME NEW i \in 1 .. Len(s) PROVE finalise(d, s)[i] \in S
  <2>1. PICK k \in 1 .. Len(s) : /\ Cardinality(Below(d, s, s[k])) < i
                                 /\ Cardinality(NotAfter(d, s, s[k])) >= i
    BY RankTaken
  <2>. QED  BY <1>1, <2>1, FinaliseAt
<1>3. finalise(d, s) = [i \in 1 .. Len(s) |-> finalise(d, s)[i]]
  <2>. DEFINE entry(i) ==
                CHOOSE x \in Range(s) :
                  /\ Cardinality({j \in DOMAIN s : Before(d, s[j], x)}) < i
                  /\ Cardinality({j \in DOMAIN s : ~ Before(d, x, s[j])}) >= i
  <2>1. finalise(d, s) = [i \in DOMAIN s |-> entry(i)]
    BY DEF finalise
  <2>. HIDE DEF entry
  <2>. QED  BY <1>1, <2>1
<1>4. finalise(d, s) \in [1 .. Len(s) -> S]
  BY <1>2, <1>3
<1>. QED  BY <1>1, <1>4

(* finalise loses no record.                                               *)
LEMMA FinaliseKeeps ==
  ASSUME NEW d, NEW S, Comparable(d, S), NEW s \in Seq(S), NEW k \in 1 .. Len(s)
  PROVE  \E i \in 1 .. Len(s) : finalise(d, s)[i] = s[k]
<1>. DEFINE u == Cardinality(NotAfter(d, s, s[k]))
<1>1. Len(s) \in Nat /\ s[k] \in S
  OBVIOUS
<1>2. Cardinality(Below(d, s, s[k])) \in Nat /\ u \in Nat /\ u <= Len(s)
  BY <1>1, RankTypes
<1>3. Cardinality(Below(d, s, s[k])) + 1 <= u
  BY RankOf
<1>4. u \in 1 .. Len(s) /\ Cardinality(Below(d, s, s[k])) < u /\ u >= u
  <2>. HIDE DEF u
  <2>. QED  BY <1>1, <1>2, <1>3
<1>5. finalise(d, s)[u] = s[k]
  BY <1>4, FinaliseAt
<1>. QED  BY <1>4, <1>5

(* Where a record is twice, finalise leaves it twice.                      *)
LEMMA FinaliseDoubles ==
  ASSUME NEW d, NEW S, Comparable(d, S), NEW s \in Seq(S),
         NEW k \in 1 .. Len(s), NEW l \in 1 .. Len(s), k # l, s[k] = s[l]
  PROVE  \E i, j \in 1 .. Len(s) : i # j /\ finalise(d, s)[i] = finalise(d, s)[j]
<1>. DEFINE u == Cardinality(NotAfter(d, s, s[k]))
<1>1. Len(s) \in Nat /\ s[k] \in S
  OBVIOUS
<1>2. Cardinality(Below(d, s, s[k])) \in Nat /\ u \in Nat /\ u <= Len(s)
  BY <1>1, RankTypes
<1>3. Cardinality(Below(d, s, s[k])) + 2 <= u
  BY RankOf
<1>4. /\ u \in 1 .. Len(s) /\ Cardinality(Below(d, s, s[k])) < u /\ u >= u
      /\ u - 1 \in 1 .. Len(s) /\ Cardinality(Below(d, s, s[k])) < u - 1 /\ u >= u - 1
      /\ u # u - 1
  <2>. HIDE DEF u
  <2>. QED  BY <1>1, <1>2, <1>3
<1>5. finalise(d, s)[u] = s[k]
  BY <1>4, FinaliseAt
<1>6. finalise(d, s)[u - 1] = s[k]
  BY <1>4, FinaliseAt
<1>. HIDE DEF u
<1>. QED  BY <1>4, <1>5, <1>6
-----------------------------------------------------------------------------
(* insert_event for any event, stored before or not. *)

(* Undisturbed, over any frames. *)
Single(frames) ==
  \A f, g \in DOMAIN frames : \A i \in DOMAIN frames[f], j \in DOMAIN frames[g] :
    frames[f][i] = frames[g][j] => f = g /\ i = j

(* What insert_event makes of the frames that set_event has pushed to. *)
Closed(d, pushed, final) ==
  [f \in DOMAIN pushed \cup final |->
     IF f \in final THEN finalise(d, get_frame(pushed, f)) ELSE pushed[f]]

(* A second record of an event is there for good (core.rs:277-306).        *)
LEMMA DoubledStays ==
  ASSUME NEW d, NEW S, Comparable(d, S), NEW pushed, NEW final,
         \A f \in DOMAIN pushed : pushed[f] \in Seq(S)
  PROVE  /\ \A f \in DOMAIN Closed(d, pushed, final) : Closed(d, pushed, final)[f] \in Seq(S)
         /\ Single(Closed(d, pushed, final)) => Single(pushed)
<1>. DEFINE frames == Closed(d, pushed, final)
<1>1. /\ DOMAIN frames = DOMAIN pushed \cup final
      /\ \A f \in DOMAIN frames :
           frames[f] = IF f \in final THEN finalise(d, get_frame(pushed, f)) ELSE pushed[f]
  BY DEF Closed
<1>2. ASSUME NEW f \in DOMAIN frames PROVE frames[f] \in Seq(S)
  <2>1. get_frame(pushed, f) \in Seq(S)
    BY DEF get_frame
  <2>2. finalise(d, get_frame(pushed, f)) \in Seq(S)
    BY <2>1, FinaliseType
  <2>. QED  BY <1>1, <2>2
<1>3. ASSUME NEW f \in DOMAIN pushed
      PROVE  /\ f \in DOMAIN frames /\ Len(pushed[f]) \in Nat /\ DOMAIN pushed[f] = 1 .. Len(pushed[f])
             /\ DOMAIN frames[f] = 1 .. Len(pushed[f])
             /\ frames[f] = pushed[f] \/ frames[f] = finalise(d, pushed[f])
  <2>1. f \in DOMAIN frames /\ pushed[f] \in Seq(S) /\ get_frame(pushed, f) = pushed[f]
    BY <1>1 DEF get_frame
  <2>2. frames[f] = pushed[f] \/ frames[f] = finalise(d, pushed[f])
    BY <1>1, <2>1
  <2>3. finalise(d, pushed[f]) \in Seq(S) /\ Len(finalise(d, pushed[f])) = Len(pushed[f])
    BY <2>1, FinaliseType
  <2>. HIDE DEF frames
  <2>. QED  BY <2>1, <2>2, <2>3
<1>. HIDE DEF frames
<1>4. ASSUME NEW f \in DOMAIN pushed, NEW k \in DOMAIN pushed[f]
      PROVE  \E i \in DOMAIN frames[f] : frames[f][i] = pushed[f][k]
  <2>1. CASE frames[f] = pushed[f]
    BY <2>1
  <2>2. CASE frames[f] = finalise(d, pushed[f])
    <3>1. k \in 1 .. Len(pushed[f])
      BY <1>3
    <3>2. \E i \in 1 .. Len(pushed[f]) : finalise(d, pushed[f])[i] = pushed[f][k]
      BY <3>1, FinaliseKeeps
    <3>. QED  BY <1>3, <2>2, <3>2
  <2>. QED  BY <1>3, <2>1, <2>2
<1>5. ASSUME NEW f \in DOMAIN pushed, NEW k \in DOMAIN pushed[f], NEW l \in DOMAIN pushed[f],
             k # l, pushed[f][k] = pushed[f][l]
      PROVE  \E i, j \in DOMAIN frames[f] : i # j /\ frames[f][i] = frames[f][j]
  <2>1. CASE frames[f] = pushed[f]
    BY <1>5, <2>1
  <2>2. CASE frames[f] = finalise(d, pushed[f])
    <3>1. k \in 1 .. Len(pushed[f]) /\ l \in 1 .. Len(pushed[f])
      BY <1>3
    <3>2. \E i, j \in 1 .. Len(pushed[f]) :
            i # j /\ finalise(d, pushed[f])[i] = finalise(d, pushed[f])[j]
      BY <1>5, <3>1, FinaliseDoubles
    <3>. QED  BY <1>3, <2>2, <3>2
  <2>. QED  BY <1>3, <2>1, <2>2
<1>6. ASSUME Single(frames) PROVE Single(pushed)
  <2>1. ASSUME NEW f \in DOMAIN pushed, NEW g \in DOMAIN pushed,
               NEW k \in DOMAIN pushed[f], NEW l \in DOMAIN pushed[g], pushed[f][k] = pushed[g][l]
        PROVE  f = g /\ k = l
    <3>1. PICK i \in DOMAIN frames[f] : frames[f][i] = pushed[f][k]
      BY <1>4
    <3>2. PICK j \in DOMAIN frames[g] : frames[g][j] = pushed[g][l]
      BY <1>4
    <3>3. f = g
      BY <1>3, <1>6, <2>1, <3>1, <3>2 DEF Single
    <3>4. ASSUME k # l PROVE FALSE
      <4>1. PICK a, b \in DOMAIN frames[f] : a # b /\ frames[f][a] = frames[f][b]
        BY <1>5, <2>1, <3>3, <3>4
      <4>. QED  BY <1>3, <1>6, <4>1 DEF Single
    <3>. QED  BY <3>3, <3>4
  <2>. QED  BY <2>1 DEF Single
<1>. QED  BY <1>2, <1>6 DEF frames

(* A push keeps the records there are, and adds one (store_sled.rs:69-83). *)
LEMMA PushDoubles ==
  ASSUME NEW frames, NEW number, NEW e, NEW S, \A f \in DOMAIN frames : frames[f] \in Seq(S)
  PROVE  LET pushed == push_record(frames, number, e)
         IN  /\ \A f \in DOMAIN pushed : pushed[f] \in Seq(S \cup {e})
             /\ Single(pushed) =>
                  Single(frames) /\ \A f \in DOMAIN frames : \A i \in DOMAIN frames[f] : frames[f][i] # e
<1>. DEFINE pushed == push_record(frames, number, e)
            old == get_frame(frames, number)
<1>1. /\ old \in Seq(S) /\ (number \in DOMAIN frames => old = frames[number])
      /\ Len(old) \in Nat /\ Append(old, e) \in Seq(S \cup {e})
  <2>1. old \in Seq(S) /\ (number \in DOMAIN frames => old = frames[number])
    BY DEF get_frame
  <2>. HIDE DEF old
  <2>. QED  BY <2>1
<1>2. /\ DOMAIN pushed = DOMAIN frames \cup {number}
      /\ pushed[number] = Append(old, e)
      /\ \A f \in DOMAIN frames : f # number => pushed[f] = frames[f]
  BY DEF push_record, insert
<1>. HIDE DEF pushed, old
<1>3. /\ Len(old) + 1 \in DOMAIN pushed[number] /\ pushed[number][Len(old) + 1] = e
      /\ \A i \in 1 .. Len(old) : i \in DOMAIN pushed[number] /\ pushed[number][i] = old[i]
  BY <1>1, <1>2
<1>4. ASSUME NEW f \in DOMAIN frames, NEW i \in DOMAIN frames[f]
      PROVE  f \in DOMAIN pushed /\ i \in DOMAIN pushed[f] /\ pushed[f][i] = frames[f][i]
             /\ (f = number => i # Len(old) + 1)
  <2>1. CASE f # number
    BY <1>2, <2>1
  <2>2. CASE f = number
    <3>1. i \in 1 .. Len(old)
      BY <1>1, <2>2
    <3>. QED  BY <1>1, <1>2, <1>3, <2>2, <3>1
  <2>. QED  BY <2>1, <2>2
<1>5. ASSUME NEW f \in DOMAIN pushed PROVE pushed[f] \in Seq(S \cup {e})
  <2>1. CASE f = number
    BY <1>1, <1>2, <2>1
  <2>2. CASE f # number
    <3>1. f \in DOMAIN frames /\ pushed[f] = frames[f] /\ frames[f] \in Seq(S)
      BY <1>2, <2>2
    <3>. QED  BY <3>1
  <2>. QED  BY <2>1, <2>2
<1>6. ASSUME Single(pushed) PROVE Single(frames)
  BY <1>4, <1>6 DEF Single
<1>7. ASSUME Single(pushed), NEW f \in DOMAIN frames, NEW i \in DOMAIN frames[f], frames[f][i] = e
      PROVE  FALSE
  <2>1. pushed[f][i] = pushed[number][Len(old) + 1] /\ number \in DOMAIN pushed
    BY <1>2, <1>3, <1>4, <1>7
  <2>2. f = number /\ i = Len(old) + 1
    BY <1>3, <1>4, <1>7, <2>1 DEF Single
  <2>. QED  BY <1>4, <2>2
<1>. QED  BY <1>5, <1>6, <1>7 DEF pushed

(* A flag table with frame numbers that have a bound. *)
Bounded(ft) ==
  /\ ft \in [DOMAIN ft -> Nat]
  /\ \E b \in Nat : \A k \in DOMAIN ft : ft[k] <= b

(* A node's store has its types, and its flag tables and frames have       *)
(* stored events only.                                                     *)
StoreTyped(d, ev, fts, frames) ==
  /\ DOMAIN ev \subseteq DOMAIN d
  /\ ev \in [DOMAIN ev -> Nat]
  /\ DOMAIN fts = DOMAIN ev
  /\ \A x \in DOMAIN ev : Bounded(fts[x]) /\ DOMAIN fts[x] \subseteq DOMAIN ev
  /\ \A f \in DOMAIN frames : frames[f] \in Seq(DOMAIN ev)

(* Merging two tables and adding an entry (flag_table.rs:60-84, core.rs:235-243). *)
LEMMA MergeBounded ==
  ASSUME NEW a, NEW b, Bounded(a), Bounded(b), NEW f, NEW k, NEW v \in Nat
  PROVE  /\ Bounded(open_merge_flag_table(a, b, f))
         /\ DOMAIN open_merge_flag_table(a, b, f) \subseteq DOMAIN a \cup DOMAIN b
         /\ Bounded(insert(open_merge_flag_table(a, b, f), k, v))
         /\ DOMAIN insert(open_merge_flag_table(a, b, f), k, v) \subseteq DOMAIN a \cup DOMAIN b \cup {k}
<1>. DEFINE m == open_merge_flag_table(a, b, f)
<1>1. PICK x \in Nat : \A j \in DOMAIN a : a[j] \in Nat /\ a[j] <= x
  BY DEF Bounded
<1>2. PICK y \in Nat : \A j \in DOMAIN b : b[j] \in Nat /\ b[j] <= y
  BY DEF Bounded
<1>3. /\ m = [j \in DOMAIN m |-> m[j]]
      /\ \A j \in DOMAIN m : (j \in DOMAIN a /\ m[j] = a[j]) \/ (j \in DOMAIN b /\ m[j] = b[j])
  BY DEF open_merge_flag_table
<1>. HIDE DEF m
<1>4. \A j \in DOMAIN m : m[j] \in Nat /\ m[j] <= x + y
  BY <1>1, <1>2, <1>3
<1>5. Bounded(m)
  BY <1>3, <1>4 DEF Bounded
<1>. DEFINE g == insert(m, k, v)
<1>6. /\ g = [j \in DOMAIN g |-> g[j]]
      /\ \A j \in DOMAIN g : g[j] = v \/ (j \in DOMAIN m /\ g[j] = m[j])
  BY DEF insert
<1>. HIDE DEF g
<1>7. \A j \in DOMAIN g : g[j] \in Nat /\ g[j] <= x + y + v
  BY <1>4, <1>6
<1>8. Bounded(g)
  <2>1. x + y + v \in Nat
    OBVIOUS
  <2>. QED  BY <1>6, <1>7, <2>1 DEF Bounded
<1>9. DOMAIN m \subseteq DOMAIN a \cup DOMAIN b
  BY <1>3
<1>10. DOMAIN g \subseteq DOMAIN a \cup DOMAIN b \cup {k}
  BY <1>9 DEF g, insert
<1>. QED  BY <1>5, <1>8, <1>9, <1>10 DEF m, g

(* The frames to finalise are numbered, whatever the table (core.rs:260-278). *)
LEMMA FrameUptoTyped ==
  ASSUME NEW n, NEW ft, Bounded(ft), NEW stored, first_not_finalised_frame(n) \in Nat
  PROVE  FrameUpto(n, ft, stored) \in Nat
<1>. DEFINE first == first_not_finalised_frame(n)
            cft == derive_creator_flag_table(ft, first + 1, CreatorOf(stored))
<1>1. PICK b \in Nat : \A k \in DOMAIN ft : ft[k] \in Nat /\ ft[k] <= b
  BY DEF Bounded
<1>2. ASSUME NEW c \in DOMAIN cft PROVE cft[c] \in Nat
  <2>1. \E k \in DOMAIN ft : cft[c] = ft[k]
    BY <1>1, <1>2, DeriveValue
  <2>. QED  BY <1>1, <2>1
<1>3. FrameUpto(n, ft, stored) =
        IF Cardinality(DOMAIN cft) = N THEN min_frame(cft) ELSE first
  BY DEF FrameUpto
<1>. HIDE DEF cft
<1>4. CASE Cardinality(DOMAIN cft) = N
  <2>1. DOMAIN cft # {}
    BY <1>4, FS_EmptySet, NAssumption
  <2>2. min_frame(cft) \in Nat
    BY <1>2, <2>1, MinFrame
  <2>. QED  BY <1>3, <1>4, <2>2
<1>5. CASE Cardinality(DOMAIN cft) # N
  BY <1>3, <1>5
<1>. QED  BY <1>4, <1>5

(* What insert_event does to any node, for an event that is stored or not  *)
(* (core.rs:183-308).                                                      *)
LEMMA InsertTyped ==
  ASSUME Shape, NEW n \in Peers, NEW d, DagOK(d), NEW e \in DOMAIN d,
         StoreTyped(d, event[n], flag_table[n], frame[n]),
         d[e].self_parent \in DOMAIN event[n], d[e].other_parent \in DOMAIN event[n],
         insert_event(n, e, d)
  PROVE  /\ Shape'
         /\ DOMAIN event'[n] = DOMAIN event[n] \cup {e}
         /\ StoreTyped(d, event'[n], flag_table'[n], frame'[n])
         /\ Single(frame'[n]) =>
              /\ Single(frame[n])
              /\ \A f \in DOMAIN frame[n] : \A i \in DOMAIN frame[n][f] : frame[n][f][i] # e
<1>. DEFINE sp == d[e].self_parent
            op == d[e].other_parent
            number == FrameOf(n, sp, op)
            ft == Visibilis(n, e, sp, op)
            first == first_not_finalised_frame(n)
            stored == insert(event[n], e, number)
            upto == FrameUpto(n, ft, DOMAIN stored)
            final == first .. (upto - 1)
            pushed == push_record(frame[n], number, e)
            S == DOMAIN event[n] \cup {e}
<1>1. /\ event' = [event EXCEPT ![n] = stored]
      /\ flag_table' = [flag_table EXCEPT ![n] = insert(flag_table[n], e, ft)]
      /\ frame' = [frame EXCEPT ![n] = Closed(d, pushed, final)]
      /\ last_finalised_frame' =
           [last_finalised_frame EXCEPT ![n] = IF upto > first THEN upto - 1
                                               ELSE last_finalised_frame[n]]
  BY DEF insert_event, Closed, Shape
<1>2. last_finalised_frame[n] = first - 1 /\ first \in Nat /\ last_finalised_frame[n] \in Nat \cup {-1}
  BY DEF first_not_finalised_frame, Shape
<1>3. number \in Nat
  <2>1. event[n][sp] \in Nat /\ event[n][op] \in Nat
    BY DEF StoreTyped
  <2>. HIDE DEF sp, op
  <2>. QED  BY <2>1 DEF FrameOf
<1>4. Bounded(ft) /\ DOMAIN ft \subseteq S
  <2>1. /\ Bounded(flag_table[n][sp]) /\ Bounded(flag_table[n][op])
        /\ DOMAIN flag_table[n][sp] \subseteq DOMAIN event[n]
        /\ DOMAIN flag_table[n][op] \subseteq DOMAIN event[n]
    BY DEF StoreTyped
  <2>. DEFINE merged == open_merge_flag_table(flag_table[n][sp], flag_table[n][op], first)
  <2>2. ft = merged \/ ft = insert(merged, e, number)
    BY DEF Visibilis
  <2>3. /\ Bounded(merged) /\ Bounded(insert(merged, e, number))
        /\ DOMAIN merged \subseteq S /\ DOMAIN insert(merged, e, number) \subseteq S
    <3>. DEFINE a == flag_table[n][sp]
                b == flag_table[n][op]
    <3>1. /\ Bounded(merged) /\ Bounded(insert(merged, e, number))
          /\ DOMAIN merged \subseteq DOMAIN a \cup DOMAIN b
          /\ DOMAIN insert(merged, e, number) \subseteq DOMAIN a \cup DOMAIN b \cup {e}
      <4>. HIDE DEF sp, op, number, first
      <4>. QED  BY <1>3, <2>1, MergeBounded
    <3>. HIDE DEF merged, number
    <3>. QED  BY <2>1, <3>1
  <2>. HIDE DEF merged, number, ft
  <2>. QED  BY <2>2, <2>3
<1>5. upto \in Nat
  <2>. HIDE DEF ft, stored
  <2>. QED  BY <1>2, <1>4, FrameUptoTyped
<1>6. Shape'
  <2>. HIDE DEF upto, first, stored, ft, pushed, final
  <2>1. DOMAIN event' = Peers /\ DOMAIN flag_table' = Peers /\ DOMAIN frame' = Peers
    BY <1>1 DEF Shape
  <2>2. (IF upto > first THEN upto - 1 ELSE last_finalised_frame[n]) \in Nat \cup {-1}
    BY <1>2, <1>5
  <2>3. last_finalised_frame' \in [Peers -> Nat \cup {-1}]
    BY <1>1, <2>2 DEF Shape
  <2>. QED  BY <2>1, <2>3 DEF Shape
<1>7. /\ event'[n] = stored /\ flag_table'[n] = insert(flag_table[n], e, ft)
      /\ frame'[n] = Closed(d, pushed, final)
  <2>. HIDE DEF stored, ft, pushed, final
  <2>. QED  BY <1>1 DEF Shape
<1>8. DOMAIN stored = S /\ stored \in [S -> Nat]
  <2>1. event[n] \in [DOMAIN event[n] -> Nat]
    BY DEF StoreTyped
  <2>. HIDE DEF number
  <2>. QED  BY <1>3, <2>1 DEF insert
<1>9. S \subseteq DOMAIN d
  BY DEF StoreTyped
<1>10. Comparable(d, S)
  BY <1>9 DEF DagOK, EventContent, Comparable
<1>11. /\ DOMAIN insert(flag_table[n], e, ft) = S
       /\ \A x \in S : /\ Bounded(insert(flag_table[n], e, ft)[x])
                       /\ DOMAIN insert(flag_table[n], e, ft)[x] \subseteq S
  <2>1. /\ DOMAIN flag_table[n] = DOMAIN event[n]
        /\ \A x \in DOMAIN event[n] : Bounded(flag_table[n][x]) /\ DOMAIN flag_table[n][x] \subseteq S
    BY DEF StoreTyped
  <2>. HIDE DEF ft
  <2>2. /\ DOMAIN insert(flag_table[n], e, ft) = DOMAIN flag_table[n] \cup {e}
        /\ insert(flag_table[n], e, ft)[e] = ft
        /\ \A x \in DOMAIN flag_table[n] : x # e => insert(flag_table[n], e, ft)[x] = flag_table[n][x]
    BY DEF insert
  <2>. QED  BY <1>4, <2>1, <2>2
<1>12. \A f \in DOMAIN frame[n] : frame[n][f] \in Seq(DOMAIN event[n])
  BY DEF StoreTyped
<1>. HIDE DEF number, ft, first, stored, upto, final
<1>13. /\ \A f \in DOMAIN pushed : pushed[f] \in Seq(S)
       /\ Single(pushed) =>
            Single(frame[n]) /\ \A f \in DOMAIN frame[n] : \A i \in DOMAIN frame[n][f] : frame[n][f][i] # e
  BY <1>12, PushDoubles
<1>. HIDE DEF pushed, S
<1>14. /\ \A f \in DOMAIN Closed(d, pushed, final) : Closed(d, pushed, final)[f] \in Seq(S)
       /\ Single(Closed(d, pushed, final)) => Single(pushed)
  BY <1>10, <1>13, DoubledStays
<1>15. StoreTyped(d, event'[n], flag_table'[n], frame'[n])
  BY <1>7, <1>8, <1>9, <1>11, <1>14 DEF StoreTyped
<1>. QED  BY <1>6, <1>7, <1>8, <1>13, <1>14, <1>15 DEF S

(* What a node keeps as long as it is undisturbed. *)
Faithful(d, ev, fts, frames, first) ==
  /\ NodeOK(d, ev, fts, first)
  /\ FramesOK(d, ev, frames, first)
  /\ \A x \in DOMAIN ev : DecidedIn(d, x) <= first
  /\ \E x \in DOMAIN ev : DecidedIn(d, x) = first

LEMMA FaithfulExtends ==
  ASSUME NEW d, NEW d2, DagOK(d), Extends(d2, d), NEW ev, NEW fts, NEW frames, NEW first,
         Faithful(d, ev, fts, frames, first)
  PROVE  Faithful(d2, ev, fts, frames, first)
<1>1. NodeOK(d, ev, fts, first) /\ FramesOK(d, ev, frames, first) /\ DOMAIN ev \subseteq DOMAIN d
  BY DEF Faithful, NodeOK
<1>2. NodeOK(d2, ev, fts, first)
  <2>1. RootsOK(d)
    BY DEF DagOK
  <2>. QED  BY <1>1, <2>1, NodeExtends
<1>3. FramesOK(d2, ev, frames, first)
  BY <1>1, FramesExtend
<1>4. \A x \in DOMAIN ev : DecidedIn(d2, x) = DecidedIn(d, x)
  BY <1>1, DecidedSame
<1>. QED  BY <1>2, <1>3, <1>4 DEF Faithful

(* A node that an insertion leaves undisturbed did not have the event, and *)
(* it stays as good as it was (core.rs:183-308).                           *)
LEMMA InsertFaithful ==
  ASSUME Shape, NEW n \in Peers, NEW d, DagOK(d), NEW e \in DOMAIN d,
         Faithful(d, event[n], flag_table[n], frame[n], first_not_finalised_frame(n)),
         \A f \in DOMAIN frame[n] : \A i \in DOMAIN frame[n][f] : frame[n][f][i] # e,
         d[e].self_parent \in DOMAIN event[n], d[e].other_parent \in DOMAIN event[n],
         insert_event(n, e, d)
  PROVE  /\ Faithful(d, event'[n], flag_table'[n], frame'[n], first_not_finalised_frame(n)')
         /\ last_finalised_frame'[n] >= last_finalised_frame[n]
         /\ \A f \in 0 .. last_finalised_frame[n] : frame'[n][f] = frame[n][f]
<1>. DEFINE first == first_not_finalised_frame(n)
            upto == NewOpen(n, d, e)
<1>1. NodeOK(d, event[n], flag_table[n], first) /\ FramesOK(d, event[n], frame[n], first)
  BY DEF Faithful
<1>2. e \notin DOMAIN event[n]
  <2>. SUFFICES ASSUME e \in DOMAIN event[n] PROVE FALSE
    OBVIOUS
  <2>. DEFINE f == event[n][e]
  <2>1. f \in DOMAIN frame[n] /\ Lists(frame[n][f], {x \in DOMAIN event[n] : event[n][x] = f})
    BY <1>1 DEF FramesOK
  <2>2. /\ \E i \in 1 .. Len(frame[n][f]) : frame[n][f][i] = e
        /\ DOMAIN frame[n][f] = 1 .. Len(frame[n][f])
    BY <2>1 DEF Lists
  <2>. HIDE DEF f
  <2>. QED  BY <2>1, <2>2
<1>3. InsertContext(n, d, e)
  BY <1>1, <1>2 DEF InsertContext
<1>4. /\ NodeOK(d, event'[n], flag_table'[n], first_not_finalised_frame(n)')
      /\ DOMAIN event'[n] = DOMAIN event[n] \cup {e}
  BY <1>3, InsertNode
<1>5. FramesOK(d, event'[n], frame'[n], first_not_finalised_frame(n)')
  BY <1>1, <1>3, InsertFramesOK
<1>6. upto = IF DecidedIn(d, e) > first THEN DecidedIn(d, e) ELSE first
  BY <1>3, InsertDecided
<1>7. upto \in Nat /\ upto >= first
  BY <1>3, InsertUpto
<1>8. /\ last_finalised_frame'[n] = upto - 1
      /\ \A f \in DOMAIN frame[n] : f < first => frame'[n][f] = frame[n][f]
  BY <1>3, InsertChanges
<1>9. first_not_finalised_frame(n)' = upto
  <2>. HIDE DEF upto
  <2>. QED  BY <1>7, <1>8 DEF first_not_finalised_frame
<1>10. first \in Nat /\ first = last_finalised_frame[n] + 1 /\ last_finalised_frame[n] \in Int
  BY DEF Shape, first_not_finalised_frame
<1>11. last_finalised_frame'[n] >= last_finalised_frame[n]
  <2>. HIDE DEF upto, first
  <2>. QED  BY <1>7, <1>8, <1>10
<1>12. ASSUME NEW f \in 0 .. last_finalised_frame[n] PROVE frame'[n][f] = frame[n][f]
  <2>1. f \in 0 .. (first - 1) /\ f < first
    <3>. HIDE DEF first
    <3>. QED  BY <1>10
  <2>2. f \in DOMAIN frame[n]
    BY <1>1, <2>1 DEF FramesOK
  <2>. QED  BY <1>8, <2>1, <2>2
<1>13. /\ \A x \in DOMAIN event[n] : DecidedIn(d, x) <= first
       /\ \E x \in DOMAIN event[n] : DecidedIn(d, x) = first
  BY DEF Faithful
<1>14. \A x \in DOMAIN event[n] : DecidedIn(d, x) \in Nat
  <2>1. DOMAIN event[n] \subseteq DOMAIN d
    BY <1>1 DEF NodeOK
  <2>. QED  BY <2>1, DecidedProperty
<1>15. DecidedIn(d, e) \in Nat
  BY DecidedProperty
<1>. HIDE DEF upto, first
<1>16. /\ \A x \in DOMAIN event'[n] : DecidedIn(d, x) <= upto
       /\ \E x \in DOMAIN event'[n] : DecidedIn(d, x) = upto
  BY <1>4, <1>6, <1>10, <1>13, <1>14, <1>15
<1>. QED  BY <1>4, <1>5, <1>9, <1>11, <1>12, <1>16 DEF Faithful

-----------------------------------------------------------------------------
(* What holds of the stores when an event may be inserted any number of    *)
(* times: every store has its types, and an undisturbed one is faithful to *)
(* the DAG.                                                                *)
StoresInv ==
  /\ Shape
  /\ DagOK(dag)
  /\ \A n \in Peers :
       /\ StoreTyped(dag, event[n], flag_table[n], frame[n])
       /\ Single(frame[n]) =>
            Faithful(dag, event[n], flag_table[n], frame[n], first_not_finalised_frame(n))

(* What an undisturbed node keeps of its final frames over a step. *)
FinalKept(n) ==
  /\ last_finalised_frame'[n] >= last_finalised_frame[n]
  /\ \A f \in 0 .. last_finalised_frame[n] : frame'[n][f] = frame[n][f]

(* A step that leaves the stores alone.                                    *)
LEMMA StoresSame ==
  ASSUME StoresInv, UNCHANGED <<dag, event, flag_table, frame, last_finalised_frame>>
  PROVE  StoresInv' /\ \A n \in Peers : FinalKept(n)
<1>1. \A n \in Peers : first_not_finalised_frame(n)' = first_not_finalised_frame(n)
  BY DEF first_not_finalised_frame
<1>2. Shape'
  BY DEF StoresInv, Shape
<1>3. StoresInv'
  BY <1>1, <1>2 DEF StoresInv
<1>4. \A n \in Peers : FinalKept(n)
  BY DEF FinalKept, StoresInv, Shape
<1>. QED  BY <1>3, <1>4

(* insert_event of an event of the DAG over stored parents.                *)
LEMMA StoresStep ==
  ASSUME StoresInv, DagOK(dag'), Extends(dag', dag), NEW n \in Peers, NEW e \in DOMAIN dag',
         dag'[e].self_parent \in DOMAIN event[n], dag'[e].other_parent \in DOMAIN event[n],
         insert_event(n, e, dag')
  PROVE  /\ StoresInv'
         /\ \A m \in Peers : Single(frame'[m]) => FinalKept(m)
         /\ DOMAIN event'[n] = DOMAIN event[n] \cup {e}
         /\ \A m \in Peers : m # n => event'[m] = event[m]
<1>1. Shape /\ DagOK(dag)
  BY DEF StoresInv
<1>2. ASSUME NEW m \in Peers
      PROVE  StoreTyped(dag', event[m], flag_table[m], frame[m])
  BY DEF StoresInv, StoreTyped, Extends
<1>3. ASSUME NEW m \in Peers, Single(frame[m])
      PROVE  Faithful(dag', event[m], flag_table[m], frame[m], first_not_finalised_frame(m))
  <2>1. Faithful(dag, event[m], flag_table[m], frame[m], first_not_finalised_frame(m))
    BY <1>3 DEF StoresInv
  <2>. QED  BY <1>1, <2>1, FaithfulExtends
<1>4. /\ Shape'
      /\ DOMAIN event'[n] = DOMAIN event[n] \cup {e}
      /\ StoreTyped(dag', event'[n], flag_table'[n], frame'[n])
      /\ Single(frame'[n]) =>
           /\ Single(frame[n])
           /\ \A f \in DOMAIN frame[n] : \A i \in DOMAIN frame[n][f] : frame[n][f][i] # e
  BY <1>1, <1>2, InsertTyped
<1>5. ASSUME Single(frame'[n])
      PROVE  /\ Faithful(dag', event'[n], flag_table'[n], frame'[n], first_not_finalised_frame(n)')
             /\ FinalKept(n)
  <2>1. /\ Faithful(dag', event[n], flag_table[n], frame[n], first_not_finalised_frame(n))
        /\ \A f \in DOMAIN frame[n] : \A i \in DOMAIN frame[n][f] : frame[n][f][i] # e
    BY <1>3, <1>4, <1>5
  <2>. QED  BY <1>1, <2>1, InsertFaithful DEF FinalKept
<1>6. ASSUME NEW m \in Peers, m # n
      PROVE  /\ event'[m] = event[m] /\ flag_table'[m] = flag_table[m] /\ frame'[m] = frame[m]
             /\ last_finalised_frame'[m] = last_finalised_frame[m]
             /\ first_not_finalised_frame(m)' = first_not_finalised_frame(m)
             /\ FinalKept(m)
  <2>1. /\ event'[m] = event[m] /\ flag_table'[m] = flag_table[m] /\ frame'[m] = frame[m]
        /\ last_finalised_frame'[m] = last_finalised_frame[m]
    BY <1>1, <1>6, InsertOthers
  <2>2. last_finalised_frame[m] \in Int
    BY <1>1 DEF Shape
  <2>. QED  BY <2>1, <2>2 DEF first_not_finalised_frame, FinalKept
<1>7. ASSUME NEW m \in Peers
      PROVE  /\ StoreTyped(dag', event'[m], flag_table'[m], frame'[m])
             /\ Single(frame'[m]) =>
                  Faithful(dag', event'[m], flag_table'[m], frame'[m], first_not_finalised_frame(m)')
  <2>1. CASE m = n
    BY <1>4, <1>5, <2>1
  <2>2. CASE m # n
    <3>1. StoreTyped(dag', event'[m], flag_table'[m], frame'[m])
      BY <1>2, <1>6, <2>2
    <3>2. ASSUME Single(frame'[m])
          PROVE  Faithful(dag', event'[m], flag_table'[m], frame'[m], first_not_finalised_frame(m)')
      <4>1. Single(frame[m])
        BY <1>6, <2>2, <3>2
      <4>2. Faithful(dag', event[m], flag_table[m], frame[m], first_not_finalised_frame(m))
        BY <1>3, <4>1
      <4>. QED  BY <1>6, <2>2, <4>2
    <3>. QED  BY <3>1, <3>2
  <2>. QED  BY <2>1, <2>2
<1>8. StoresInv'
  BY <1>4, <1>7 DEF StoresInv
<1>. QED  BY <1>4, <1>5, <1>6, <1>8

(* DAGcore::new leaves every node undisturbed (core.rs:92-113).            *)
LEMMA StoresInit == Init => StoresInv
<1>. SUFFICES ASSUME Init PROVE StoresInv
  OBVIOUS
<1>1. IInv /\ FramesInv /\ ExactInv
  BY InitInv, InitFrames, InitExact
<1>2. ASSUME NEW n \in Peers
      PROVE  StoreTyped(dag, event[n], flag_table[n], frame[n])
  <2>1. NodeOK(dag, event[n], flag_table[n], first_not_finalised_frame(n))
    BY <1>1 DEF IInv
  <2>2. ASSUME NEW f \in DOMAIN frame[n] PROVE frame[n][f] \in Seq(DOMAIN event[n])
    <3>1. Lists(frame[n][f], {x \in DOMAIN event[n] : event[n][x] = f})
      BY <1>1 DEF FramesInv, FramesOK
    <3>. QED  BY <3>1 DEF Lists
  <2>3. ASSUME NEW x \in DOMAIN event[n]
        PROVE  Bounded(flag_table[n][x]) /\ DOMAIN flag_table[n][x] \subseteq DOMAIN event[n]
    <3>1. /\ x \in Leaves /\ flag_table[n][x] = [k \in {x} |-> 0] /\ DOMAIN event[n] = Leaves
      BY <2>3 DEF Init
    <3>. QED  BY <3>1 DEF Bounded
  <2>. QED  BY <2>1, <2>2, <2>3 DEF StoreTyped, NodeOK
<1>3. ASSUME NEW n \in Peers
      PROVE  Faithful(dag, event[n], flag_table[n], frame[n], first_not_finalised_frame(n))
  BY <1>1 DEF IInv, FramesInv, ExactInv, Faithful
<1>. QED  BY <1>1, <1>2, <1>3 DEF StoresInv, IInv

(* Undisturbed nodes have the numbers of the creators.                     *)
LEMMA StoresNumbers == StoresInv => UndisturbedNumbers
<1>. SUFFICES ASSUME StoresInv, NEW n \in Peers, Undisturbed(n), NEW e \in DOMAIN event[n]
              PROVE  event[n][e] = dag[e].frame
  BY DEF UndisturbedNumbers
<1>1. Single(frame[n])
  BY DEF Undisturbed, Single
<1>2. NodeOK(dag, event[n], flag_table[n], first_not_finalised_frame(n))
  BY <1>1 DEF StoresInv, Faithful
<1>. QED  BY <1>2 DEF NodeOK

(* No flag table names an event that the node lacks.                       *)
LEMMA StoresRoots == StoresInv => RootsStored
BY DEF StoresInv, StoreTyped, RootsStored

(* What an undisturbed node has of a final frame: all the events there are *)
(* with that number, sorted.                                               *)
LEMMA FaithfulFinal ==
  ASSUME NEW d, DagOK(d), NEW ev, NEW fts, NEW frames, NEW first,
         Faithful(d, ev, fts, frames, first), NEW f \in 0 .. (first - 1)
  PROVE  Lists(frames[f], {x \in DOMAIN d : d[x].frame = f}) /\ Sorted(d, frames[f])
<1>1. NodeOK(d, ev, fts, first) /\ FramesOK(d, ev, frames, first)
  BY DEF Faithful
<1>2. f \in DOMAIN frames /\ Sorted(d, frames[f])
  BY <1>1 DEF FramesOK
<1>3. Lists(frames[f], {x \in DOMAIN ev : ev[x] = f})
  BY <1>1, <1>2 DEF FramesOK
<1>4. \A x \in DOMAIN ev : x \in DOMAIN d /\ ev[x] = d[x].frame
  BY <1>1 DEF NodeOK
<1>5. ASSUME NEW x \in DOMAIN d, d[x].frame = f PROVE x \in DOMAIN ev
  <2>. SUFFICES ASSUME x \notin DOMAIN ev PROVE FALSE
    OBVIOUS
  <2>1. d[x].frame >= first
    BY <1>1, Fresh
  <2>2. first \in Nat
    BY <1>1 DEF NodeOK
  <2>. QED  BY <1>5, <2>1, <2>2
<1>6. {x \in DOMAIN ev : ev[x] = f} = {x \in DOMAIN d : d[x].frame = f}
  BY <1>4, <1>5
<1>. QED  BY <1>2, <1>3, <1>6

LEMMA StoresAgree == StoresInv => UndisturbedAgree
<1>. SUFFICES ASSUME StoresInv, NEW n \in Peers, NEW m \in Peers, Undisturbed(n), Undisturbed(m),
                     NEW f \in 0 .. last_finalised_frame[n], f <= last_finalised_frame[m]
              PROVE  frame[n][f] = frame[m][f]
  BY DEF UndisturbedAgree
<1>. DEFINE S == {x \in DOMAIN dag : dag[x].frame = f}
<1>1. DagOK(dag) /\ last_finalised_frame[n] \in Int /\ last_finalised_frame[m] \in Int
  BY DEF StoresInv, Shape
<1>2. /\ Faithful(dag, event[n], flag_table[n], frame[n], first_not_finalised_frame(n))
      /\ Faithful(dag, event[m], flag_table[m], frame[m], first_not_finalised_frame(m))
  BY DEF Undisturbed, Single, StoresInv
<1>3. /\ f \in 0 .. (first_not_finalised_frame(n) - 1)
      /\ f \in 0 .. (first_not_finalised_frame(m) - 1)
  BY <1>1 DEF first_not_finalised_frame
<1>4. Lists(frame[n][f], S) /\ Sorted(dag, frame[n][f])
  BY <1>1, <1>2, <1>3, FaithfulFinal
<1>5. Lists(frame[m][f], S) /\ Sorted(dag, frame[m][f])
  BY <1>1, <1>2, <1>3, FaithfulFinal
<1>6. Comparable(dag, S)
  BY <1>1 DEF DagOK, EventContent, Comparable
<1>. HIDE DEF S
<1>. QED  BY <1>4, <1>5, <1>6, SortedUnique

LEMMA StoresComplete == StoresInv => UndisturbedComplete
<1>. SUFFICES ASSUME StoresInv, NEW n \in Peers, Undisturbed(n),
                     NEW f \in 0 .. last_finalised_frame[n]
              PROVE  /\ Range(frame[n][f]) = {e \in DOMAIN dag : dag[e].frame = f}
                     /\ \A i, j \in DOMAIN frame[n][f] :
                          i < j => Before(dag, frame[n][f][i], frame[n][f][j])
  BY DEF UndisturbedComplete
<1>. DEFINE S == {x \in DOMAIN dag : dag[x].frame = f}
            s == frame[n][f]
<1>1. DagOK(dag) /\ last_finalised_frame[n] \in Int
  BY DEF StoresInv, Shape
<1>2. Faithful(dag, event[n], flag_table[n], frame[n], first_not_finalised_frame(n))
  BY DEF Undisturbed, Single, StoresInv
<1>3. f \in 0 .. (first_not_finalised_frame(n) - 1)
  BY <1>1 DEF first_not_finalised_frame
<1>4. Lists(s, S) /\ Sorted(dag, s)
  BY <1>1, <1>2, <1>3, FaithfulFinal
<1>. HIDE DEF S, s
<1>5. DOMAIN s = 1 .. Len(s) /\ \A i \in DOMAIN s : s[i] \in S
  BY <1>4 DEF Lists
<1>6. \A x \in S : \E i \in DOMAIN s : s[i] = x
  BY <1>4, <1>5 DEF Lists
<1>7. Range(s) = S
  BY <1>5, <1>6 DEF Range
<1>8. \A i, j \in DOMAIN s : i < j => Before(dag, s[i], s[j])
  BY <1>4, <1>5 DEF Sorted
<1>. QED  BY <1>7, <1>8 DEF S, s

LEMMA StoresExact == StoresInv => UndisturbedExact
<1>. SUFFICES ASSUME StoresInv, NEW n \in Peers, Undisturbed(n)
              PROVE  first_not_finalised_frame(n) = Max({DecidedUpto(e) : e \in DOMAIN event[n]})
  BY DEF UndisturbedExact
<1>. DEFINE first == first_not_finalised_frame(n)
            S == {DecidedUpto(e) : e \in DOMAIN event[n]}
<1>1. \A e : DecidedUpto(e) = DecidedIn(dag, e)
  BY DEF DecidedUpto, DecidedIn, TopRoot, TopRootIn
<1>2. Faithful(dag, event[n], flag_table[n], frame[n], first) /\ DagOK(dag)
  BY DEF Undisturbed, Single, StoresInv
<1>3. DOMAIN event[n] \subseteq DOMAIN dag /\ first \in Nat
  BY <1>2 DEF Faithful, NodeOK
<1>4. \A e \in DOMAIN event[n] : DecidedIn(dag, e) \in Nat
  BY <1>2, <1>3, DecidedProperty
<1>5. /\ \A e \in DOMAIN event[n] : DecidedIn(dag, e) <= first
      /\ \E e \in DOMAIN event[n] : DecidedIn(dag, e) = first
  BY <1>2 DEF Faithful
<1>6. S \subseteq Nat /\ first \in S /\ \A x \in S : x <= first
  <2>. HIDE DEF first
  <2>. QED  BY <1>1, <1>4, <1>5
<1>. HIDE DEF S, first
<1>7. Max(S) \in S /\ \A x \in S : x <= Max(S)
  BY <1>6, MaxProperty
<1>8. Max(S) \in Nat /\ Max(S) <= first /\ first <= Max(S)
  BY <1>6, <1>7
<1>9. first = Max(S)
  BY <1>3, <1>8
<1>. QED  BY <1>9 DEF S, first

(* As long as every event is inserted once, every node is undisturbed      *)
(* (core.rs:253-259, store_sled.rs:69-83).                                 *)
THEOREM AllUndisturbed == Spec => [](\A n \in Peers : Undisturbed(n))
<1>1. FramesInv => \A n \in Peers : Undisturbed(n)
  <2>. SUFFICES ASSUME FramesInv, NEW n \in Peers,
                       NEW f \in DOMAIN frame[n], NEW g \in DOMAIN frame[n],
                       NEW i \in DOMAIN frame[n][f], NEW j \in DOMAIN frame[n][g],
                       frame[n][f][i] = frame[n][g][j]
                PROVE  f = g /\ i = j
    BY DEF Undisturbed
  <2>1. /\ Lists(frame[n][f], {x \in DOMAIN event[n] : event[n][x] = f})
        /\ Lists(frame[n][g], {x \in DOMAIN event[n] : event[n][x] = g})
    BY DEF FramesInv, FramesOK
  <2>2. /\ i \in 1 .. Len(frame[n][f])
        /\ frame[n][f][i] \in {x \in DOMAIN event[n] : event[n][x] = f}
    BY <2>1, ListMember
  <2>3. /\ j \in 1 .. Len(frame[n][g])
        /\ frame[n][g][j] \in {x \in DOMAIN event[n] : event[n][x] = g}
    BY <2>1, ListMember
  <2>4. f = g
    BY <2>2, <2>3
  <2>5. \A k, l \in 1 .. Len(frame[n][f]) : frame[n][f][k] = frame[n][f][l] => k = l
    BY <2>1 DEF Lists
  <2>. QED  BY <2>2, <2>3, <2>4, <2>5
<1>. QED  BY <1>1, FramesInvariance, PTL
=============================================================================
