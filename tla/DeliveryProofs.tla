--------------------------- MODULE DeliveryProofs ---------------------------
(***************************************************************************)
(* Safety of module Delivery for every number of nodes, every sequence of  *)
(* frames and every interleaving of polls and finalisation.                *)
(*                                                                         *)
(* The argument.  The cursor walks over the places of the log in an order  *)
(* of its own (Precedes): frame 0, then for every later frame f the first  *)
(* event of frame f + 1 and the other events of frame f, since             *)
(* current_frame is raised twice at the end of a frame.  What a consumer   *)
(* has got are the places before its cursor, each once, in that order      *)
(* (WalkOK); a frame that is finalised later has no place before any       *)
(* cursor.  So two consumers differ in how far they are only.              *)
(***************************************************************************)
EXTENDS Delivery, MinMax, SequenceTheorems

(* The log is a sequence of frames.                                        *)
LogOK == log \in Seq(Range(log)) /\ \A f \in Range(log) : IsFrame(f)

(* What is at a place of the log, and the places that a consumer may get.  *)
EventLength(p) == Len(log[p[1] + 1][p[2] + 1])
InLog(p) == p[1] < Len(log) /\ p[2] < Len(log[p[1] + 1])
Places == Nat \X Nat \X Nat

(* The order of the walk.  The first event of frame 1 is never read.       *)
Skipped(p) == p[1] = 1 /\ p[2] = 0

Group(p) == IF p[1] = 0 THEN 0 ELSE IF p[2] = 0 THEN p[1] - 1 ELSE p[1]

Precedes(p, q) ==
  \/ Group(p) < Group(q)
  \/ Group(p) = Group(q) /\ (p[2] < q[2] \/ (p[2] = q[2] /\ p[3] < q[3]))

Readable == {p \in Places : InLog(p) /\ p[3] < EventLength(p) /\ ~ Skipped(p)}

(* The place the cursor is at.                                             *)
At(n) == <<FrameAt(n), EventAt(n), current_tx[n]>>

(* A frame is entered only when it is final, and its first event is read   *)
(* with the frame before.                                                  *)
CursorOK(n) ==
  /\ current_frame[n] \in Nat \cup {None} /\ current_event[n] \in Nat \cup {None}
  /\ current_tx[n] \in Nat
  /\ last_finalised_frame[n] \in Nat \cup {None} /\ last_finalised_frame[n] < Len(log)
  /\ FrameEnded(n) =>
       /\ CurrentFrame(n) >= 1 /\ CurrentFrame(n) - 1 <= last_finalised_frame[n]
       /\ CurrentFrame(n) >= 2 => CurrentFrame(n) <= last_finalised_frame[n]
  /\ ~ FrameEnded(n) /\ CurrentFrame(n) >= 1 =>
       EventAt(n) >= 1 /\ CurrentFrame(n) + 1 <= last_finalised_frame[n]
  /\ ~ FrameEnded(n) /\ EventAt(n) > 0 =>
       FrameAt(n) <= last_finalised_frame[n] /\ EventAt(n) < Len(log[FrameAt(n) + 1])
  /\ current_tx[n] > 0 =>
       FrameAt(n) <= last_finalised_frame[n] /\ current_tx[n] < EventLength(At(n))

(* The sequence s goes over the places of S before c, each once, in order. *)
Walk(s, S, c) ==
  /\ s \in Seq(Places)
  /\ \A i, j \in 1 .. Len(s) : i < j => Precedes(s[i], s[j])
  /\ Range(s) = {p \in S : Precedes(p, c)}

(* What has been delivered: all that is before the cursor.                 *)
WalkOK(n) == Walk(delivered[n], Readable, At(n))

PollOK(n) ==
  /\ poll[n].at \in {"ready", "loop", "deliver", "pending"}
  /\ poll[n].at = "loop" => poll[n].last \in Nat /\ poll[n].last <= last_finalised_frame[n]
  /\ poll[n].at = "pending" => waker[n] \/ woken[n]

DeliveryShape ==
  /\ DOMAIN last_finalised_frame = Nodes
  /\ DOMAIN current_frame = Nodes /\ DOMAIN current_event = Nodes /\ DOMAIN current_tx = Nodes
  /\ DOMAIN poll = Nodes /\ DOMAIN waker = Nodes /\ DOMAIN woken = Nodes
  /\ DOMAIN delivered = Nodes

DeliveryInv ==
  /\ DeliveryShape
  /\ LogOK
  /\ \A n \in Nodes : CursorOK(n) /\ WalkOK(n) /\ PollOK(n)

-----------------------------------------------------------------------------
(* The order of the walk. *)

LEMMA GroupNat ==
  ASSUME NEW p \in Places
  PROVE  /\ p[1] \in Nat /\ p[2] \in Nat /\ p[3] \in Nat /\ Group(p) \in Nat
         /\ p = <<p[1], p[2], p[3]>>
BY DEF Places, Group

(* It is total on the places that are not skipped.                         *)
LEMMA WalkOrder ==
  ASSUME NEW p \in Places, NEW q \in Places
  PROVE  /\ ~ Precedes(p, p)
         /\ ~ Skipped(p) /\ ~ Skipped(q) => Precedes(p, q) \/ Precedes(q, p) \/ p = q
         /\ \A r \in Places : Precedes(p, q) /\ Precedes(q, r) => Precedes(p, r)
<1>1. ~ Precedes(p, p)
  BY GroupNat DEF Precedes
<1>2. ASSUME ~ Skipped(p), ~ Skipped(q), Group(p) = Group(q), p[2] = q[2], p[3] = q[3]
      PROVE  p = q
  <2>1. p[1] = q[1]
    BY <1>2, GroupNat DEF Skipped, Group
  <2>. QED  BY <1>2, <2>1, GroupNat
<1>3. ASSUME ~ Skipped(p), ~ Skipped(q), ~ Precedes(p, q), ~ Precedes(q, p) PROVE p = q
  <2>1. Group(p) = Group(q) /\ p[2] = q[2] /\ p[3] = q[3]
    BY <1>3, GroupNat DEF Precedes
  <2>. QED  BY <1>2, <1>3, <2>1
<1>4. ASSUME NEW r \in Places, Precedes(p, q), Precedes(q, r) PROVE Precedes(p, r)
  BY <1>4, GroupNat DEF Precedes
<1>. QED  BY <1>1, <1>3, <1>4

(* Two sequences in that order, each of all the places before one of them, *)
(* agree as far as both go.                                                *)
LEMMA WalksAgree ==
  ASSUME NEW S, S \subseteq Places, \A p \in S : ~ Skipped(p),
         NEW s, NEW t, NEW c \in Places, NEW d \in Places, Walk(s, S, c), Walk(t, S, d)
  PROVE  \A k \in 1 .. Len(s) : k \in 1 .. Len(t) => s[k] = t[k]
<1>. /\ s \in Seq(Places) /\ t \in Seq(Places)
     /\ \A i, j \in 1 .. Len(s) : i < j => Precedes(s[i], s[j])
     /\ \A i, j \in 1 .. Len(t) : i < j => Precedes(t[i], t[j])
     /\ Range(s) = {p \in S : Precedes(p, c)} /\ Range(t) = {p \in S : Precedes(p, d)}
  BY DEF Walk
<1>. DEFINE Bad == {i \in Nat : i \in 1 .. Len(s) /\ i \in 1 .. Len(t) /\ s[i] # t[i]}
<1>1. ASSUME Bad # {} PROVE FALSE
  <2>1. PICK i \in Bad : \A j \in Bad : i <= j
    <3>1. Bad \subseteq Nat /\ Bad # {}
      BY <1>1
    <3>. HIDE DEF Bad
    <3>. QED  BY <3>1, MinProperty
  <2>2. i \in 1 .. Len(s) /\ i \in 1 .. Len(t) /\ s[i] # t[i] /\ i \in Nat
    OBVIOUS
  <2>3. \A j \in 1 .. (i - 1) : s[j] = t[j] /\ j \in 1 .. Len(s) /\ j \in 1 .. Len(t)
    <3>. SUFFICES ASSUME NEW j \in 1 .. (i - 1)
                  PROVE  s[j] = t[j] /\ j \in 1 .. Len(s) /\ j \in 1 .. Len(t)
      OBVIOUS
    <3>1. j \in Nat /\ j < i /\ j \in 1 .. Len(s) /\ j \in 1 .. Len(t)
      BY <2>2
    <3>. QED  BY <2>1, <3>1
  <2>4. s[i] \in Range(s) /\ t[i] \in Range(t)
    BY <2>2 DEF Range
  <2>5. s[i] \in S /\ t[i] \in S /\ Precedes(s[i], c) /\ Precedes(t[i], d)
    BY <2>4
  <2>6. s[i] \in Places /\ t[i] \in Places /\ ~ Skipped(s[i]) /\ ~ Skipped(t[i])
    BY <2>5
  <2>. HIDE DEF Bad
  <2>7. CASE Precedes(s[i], t[i])
    <3>1. s[i] \in Range(t)
      BY <2>5, <2>6, <2>7, WalkOrder
    <3>2. PICK j \in 1 .. Len(t) : t[j] = s[i]
      BY <3>1 DEF Range
    <3>3. CASE j < i
      <4>1. j \in 1 .. (i - 1)
        BY <2>2, <3>3
      <4>2. Precedes(s[j], s[i]) /\ s[j] = s[i]
        BY <2>2, <2>3, <3>2, <3>3, <4>1
      <4>. QED  BY <2>6, <4>2, WalkOrder
    <3>4. CASE i < j
      <4>1. Precedes(t[i], s[i])
        BY <2>2, <3>2, <3>4
      <4>. QED  BY <2>6, <2>7, <4>1, WalkOrder
    <3>5. j # i
      BY <2>2, <3>2
    <3>. QED  BY <2>2, <3>3, <3>4, <3>5
  <2>8. CASE Precedes(t[i], s[i])
    <3>1. t[i] \in Range(s)
      BY <2>5, <2>6, <2>8, WalkOrder
    <3>2. PICK j \in 1 .. Len(s) : s[j] = t[i]
      BY <3>1 DEF Range
    <3>3. CASE j < i
      <4>1. j \in 1 .. (i - 1)
        BY <2>2, <3>3
      <4>2. Precedes(t[j], t[i]) /\ t[j] = t[i]
        BY <2>2, <2>3, <3>2, <3>3, <4>1
      <4>. QED  BY <2>6, <4>2, WalkOrder
    <3>4. CASE i < j
      <4>1. Precedes(s[i], t[i])
        BY <2>2, <3>2, <3>4
      <4>. QED  BY <2>6, <2>8, <4>1, WalkOrder
    <3>5. j # i
      BY <2>2, <3>2
    <3>. QED  BY <2>2, <3>3, <3>4, <3>5
  <2>. QED  BY <2>2, <2>6, <2>7, <2>8, WalkOrder
<1>. QED  BY <1>1

(* Where a cursor can be.                                                  *)
LEMMA AtPlace ==
  ASSUME NEW n \in Nodes, CursorOK(n)
  PROVE  /\ At(n) \in Places /\ ~ Skipped(At(n))
         /\ FrameAt(n) \in Nat /\ EventAt(n) \in Nat /\ CurrentFrame(n) \in Nat
         /\ Group(At(n)) = CurrentFrame(n)
         /\ At(n)[1] = FrameAt(n) /\ At(n)[2] = EventAt(n) /\ At(n)[3] = current_tx[n]
<1>1. CurrentFrame(n) \in Nat /\ FrameAt(n) \in Nat /\ EventAt(n) \in Nat
  BY DEF CursorOK, CurrentFrame, FrameAt, EventAt, FrameEnded, None
<1>2. At(n)[1] = FrameAt(n) /\ At(n)[2] = EventAt(n) /\ At(n)[3] = current_tx[n]
  BY DEF At
<1>3. At(n) \in Places
  BY <1>1 DEF At, Places, CursorOK
<1>4. Group(At(n)) = CurrentFrame(n) /\ ~ Skipped(At(n))
  <2>1. CASE FrameEnded(n)
    <3>1. FrameAt(n) = CurrentFrame(n) + 1 /\ EventAt(n) = 0 /\ CurrentFrame(n) >= 1
      BY <2>1 DEF FrameAt, EventAt, CursorOK
    <3>. QED  BY <1>1, <1>2, <3>1 DEF Group, Skipped
  <2>2. CASE ~ FrameEnded(n)
    <3>1. FrameAt(n) = CurrentFrame(n) /\ (CurrentFrame(n) >= 1 => EventAt(n) >= 1)
      BY <2>2 DEF FrameAt, CursorOK
    <3>. QED  BY <1>1, <1>2, <3>1 DEF Group, Skipped
  <2>. QED  BY <2>1, <2>2
<1>. QED  BY <1>1, <1>2, <1>3, <1>4

(* What the invariant means for two consumers.                             *)
LEMMA DeliveryOrder == DeliveryInv => SameOrder
<1>. SUFFICES ASSUME DeliveryInv, NEW n \in Nodes, NEW m \in Nodes
              PROVE  \/ IsPrefix(delivered[n], delivered[m])
                     \/ IsPrefix(delivered[m], delivered[n])
  BY DEF SameOrder
<1>. DEFINE s == delivered[n]
            t == delivered[m]
<1>1. /\ s \in Seq(Places) /\ t \in Seq(Places)
      /\ Len(s) \in Nat /\ Len(t) \in Nat
  BY DEF DeliveryInv, WalkOK, Walk
<1>2. \A k \in 1 .. Len(s) : k \in 1 .. Len(t) => s[k] = t[k]
  <2>1. Readable \subseteq Places /\ \A p \in Readable : ~ Skipped(p)
    BY DEF Readable
  <2>2. At(n) \in Places /\ At(m) \in Places
    BY AtPlace DEF DeliveryInv
  <2>3. Walk(s, Readable, At(n)) /\ Walk(t, Readable, At(m))
    BY DEF DeliveryInv, WalkOK
  <2>. HIDE DEF s, t
  <2>. QED  BY <2>1, <2>2, <2>3, WalksAgree
<1>. HIDE DEF s, t
<1>3. CASE Len(s) <= Len(t)
  <2>1. SubSeq(s, 1, Len(s)) = SubSeq(t, 1, Len(s))
    BY <1>1, <1>2, <1>3
  <2>. QED  BY <1>3, <2>1 DEF IsPrefix, s, t
<1>4. CASE Len(t) <= Len(s)
  <2>1. SubSeq(t, 1, Len(t)) = SubSeq(s, 1, Len(t))
    BY <1>1, <1>2, <1>4
  <2>. QED  BY <1>4, <2>1 DEF IsPrefix, s, t
<1>. QED  BY <1>1, <1>3, <1>4

-----------------------------------------------------------------------------
(* What a step of the cursor goes over. *)

(* What is at a place of the log. *)
LEMMA InTheLog ==
  ASSUME LogOK, NEW p \in Places, InLog(p)
  PROVE  /\ Len(log) \in Nat /\ p[1] + 1 \in 1 .. Len(log) /\ IsFrame(log[p[1] + 1])
         /\ Len(log[p[1] + 1]) \in Nat /\ p[2] + 1 \in 1 .. Len(log[p[1] + 1])
         /\ EventLength(p) \in Nat
<1>1. p[1] \in Nat /\ p[2] \in Nat /\ p[1] < Len(log) /\ p[2] < Len(log[p[1] + 1])
  BY GroupNat DEF InLog
<1>2. Len(log) \in Nat
  BY LenProperties DEF LogOK
<1>3. p[1] + 1 \in 1 .. Len(log)
  BY <1>1, <1>2
<1>4. log[p[1] + 1] \in Range(log)
  BY <1>3 DEF LogOK
<1>5. IsFrame(log[p[1] + 1])
  BY <1>4 DEF LogOK
<1>6. Len(log[p[1] + 1]) \in Nat
  BY <1>5, LenProperties DEF IsFrame
<1>7. p[2] + 1 \in 1 .. Len(log[p[1] + 1])
  BY <1>1, <1>6
<1>8. log[p[1] + 1][p[2] + 1] \in Range(log[p[1] + 1])
  BY <1>5, <1>7 DEF IsFrame
<1>9. EventLength(p) \in Nat
  BY <1>5, <1>8, LenProperties DEF IsFrame, EventLength
<1>. QED  BY <1>2, <1>3, <1>5, <1>6, <1>7, <1>9

(* If r is the next transaction of the event at q, or the next event of    *)
(* the group when that was the last one, or the next group when that was   *)
(* the last event, then only q is readable between q and r.                *)
LEMMA NextPlace ==
  ASSUME LogOK, NEW q \in Places, NEW r \in Places, ~ Skipped(q), NEW p \in Readable,
         \/ Group(r) = Group(q) /\ r[2] = q[2] /\ r[3] = q[3] + 1
         \/ /\ Group(r) = Group(q) /\ r[2] = q[2] + 1 /\ r[3] = 0
            /\ EventLength(q) <= q[3] + 1
         \/ /\ Group(r) = Group(q) + 1 /\ r[2] = 0 /\ r[3] = 0 /\ q[2] >= 1
            /\ Len(log[q[1] + 1]) <= q[2] + 1 /\ EventLength(q) <= q[3] + 1
  PROVE  Precedes(p, r) <=> Precedes(p, q) \/ p = q
<1>1. p \in Places /\ InLog(p) /\ p[3] < EventLength(p) /\ ~ Skipped(p)
  BY DEF Readable
<1>2. /\ p[1] \in Nat /\ p[2] \in Nat /\ p[3] \in Nat /\ Group(p) \in Nat
      /\ q[1] \in Nat /\ q[2] \in Nat /\ q[3] \in Nat /\ Group(q) \in Nat
      /\ r[1] \in Nat /\ r[2] \in Nat /\ r[3] \in Nat /\ Group(r) \in Nat
  BY <1>1, GroupNat
<1>3. Group(p) = Group(q) /\ p[2] = q[2] => p[1] = q[1]
  BY <1>1, <1>2 DEF Group, Skipped
<1>4. Group(p) = Group(q) /\ p[2] = q[2] => EventLength(p) = EventLength(q)
  BY <1>3 DEF EventLength
<1>5. Group(p) = Group(q) /\ p[2] = q[2] /\ p[3] = q[3] => p = q
  BY <1>1, <1>3, GroupNat
<1>6. p[2] < Len(log[p[1] + 1]) /\ Len(log[p[1] + 1]) \in Nat /\ EventLength(p) \in Nat
  BY <1>1, InTheLog DEF InLog
<1>7. CASE Group(r) = Group(q) /\ r[2] = q[2] /\ r[3] = q[3] + 1
  BY <1>2, <1>5, <1>7, WalkOrder DEF Precedes
<1>8. CASE /\ Group(r) = Group(q) /\ r[2] = q[2] + 1 /\ r[3] = 0
           /\ EventLength(q) <= q[3] + 1
  <2>1. Group(p) = Group(q) /\ p[2] = q[2] => p[3] <= q[3]
    BY <1>1, <1>2, <1>4, <1>6, <1>8
  <2>. QED  BY <1>2, <1>5, <1>8, <2>1, SMTT(30) DEF Precedes
<1>9. CASE /\ Group(r) = Group(q) + 1 /\ r[2] = 0 /\ r[3] = 0 /\ q[2] >= 1
            /\ Len(log[q[1] + 1]) <= q[2] + 1 /\ EventLength(q) <= q[3] + 1
  <2>1. Group(p) = Group(q) /\ p[2] = q[2] => p[3] <= q[3]
    BY <1>1, <1>2, <1>4, <1>6, <1>9, SMTT(30)
  <2>2. Group(p) = Group(q) /\ p[2] > 0 => p[1] = q[1]
    BY <1>1, <1>2, <1>9 DEF Group
  <2>3. Group(p) = Group(q) => p[2] <= q[2]
    <3>1. p[1] = q[1] => Len(log[p[1] + 1]) = Len(log[q[1] + 1])
      OBVIOUS
    <3>2. CASE p[2] = 0
      BY <1>2, <3>2
    <3>3. CASE p[2] > 0
      <4>. SUFFICES ASSUME Group(p) = Group(q) PROVE p[2] <= q[2]
        OBVIOUS
      <4>1. Len(log[p[1] + 1]) <= q[2] + 1
        BY <1>9, <2>2, <3>1, <3>3
      <4>. QED  BY <1>2, <1>6, <4>1, SMTT(30)
    <3>. QED  BY <1>2, <3>2, <3>3
  <2>. QED  BY <1>2, <1>5, <1>9, <2>1, <2>3, SMTT(30) DEF Precedes
<1>. QED  BY <1>7, <1>8, <1>9

-----------------------------------------------------------------------------
(* The initial state and the steps. *)

LEMMA DeliveryInitial == DeliveryInit => DeliveryInv
<1>. SUFFICES ASSUME DeliveryInit PROVE DeliveryInv
  OBVIOUS
<1>1. DeliveryShape
  BY DEF DeliveryInit, DeliveryShape
<1>2. log = <<>> /\ Len(log) = 0 /\ LogOK
  <2>1. log = <<>>
    BY DEF DeliveryInit
  <2>2. <<>> \in Seq(Range(<<>>)) /\ Range(<<>>) = {}
    BY DEF Range
  <2>. QED  BY <2>1, <2>2 DEF LogOK
<1>3. ASSUME NEW n \in Nodes PROVE CursorOK(n) /\ WalkOK(n) /\ PollOK(n)
  <2>1. CursorOK(n)
    BY <1>2 DEF DeliveryInit, CursorOK, FrameEnded, CurrentFrame, EventAt, FrameAt, None
  <2>2. PollOK(n)
    BY DEF DeliveryInit, PollOK
  <2>3. Readable = {}
    BY <1>2, GroupNat DEF Readable, InLog
  <2>4. delivered[n] = <<>>
    BY DEF DeliveryInit
  <2>5. <<>> \in Seq(Places) /\ Range(<<>>) = {} /\ Len(<<>>) = 0
    BY DEF Range
  <2>. QED  BY <2>1, <2>2, <2>3, <2>4, <2>5 DEF WalkOK, Walk
<1>. QED  BY <1>1, <1>2, <1>3 DEF DeliveryInv

(* A consumer that does not read, and that sees the same frames. *)
LEMMA CursorKept ==
  ASSUME NEW m \in Nodes, CursorOK(m), WalkOK(m), UNCHANGED log,
         last_finalised_frame'[m] = last_finalised_frame[m],
         current_frame'[m] = current_frame[m], current_event'[m] = current_event[m],
         current_tx'[m] = current_tx[m], delivered'[m] = delivered[m]
  PROVE  CursorOK(m)' /\ WalkOK(m)'
<1>1. /\ FrameEnded(m)' <=> FrameEnded(m)
      /\ CurrentFrame(m)' = CurrentFrame(m)
      /\ FrameAt(m)' = FrameAt(m) /\ EventAt(m)' = EventAt(m) /\ At(m)' = At(m)
  BY DEF FrameEnded, CurrentFrame, FrameAt, EventAt, At
<1>2. Readable' = Readable /\ EventLength(At(m))' = EventLength(At(m))
  BY <1>1 DEF Readable, InLog, EventLength
<1>3. CursorOK(m)'
  BY <1>1, <1>2 DEF CursorOK
<1>4. WalkOK(m)'
  BY <1>1, <1>2 DEF WalkOK
<1>. QED  BY <1>3, <1>4

(* A frame that is appended to the log has no place before a cursor. *)
LEMMA NewFrameBeyond ==
  ASSUME NEW m \in Nodes, LogOK, CursorOK(m), NEW p \in Places, ~ Skipped(p), p[1] = Len(log)
  PROVE  ~ Precedes(p, At(m))
<1>1. /\ p[1] \in Nat /\ p[2] \in Nat /\ p[3] \in Nat /\ Group(p) \in Nat
      /\ Group(p) = IF p[1] = 0 THEN 0 ELSE IF p[2] = 0 THEN p[1] - 1 ELSE p[1]
      /\ ~ (p[1] = 1 /\ p[2] = 0)
  BY GroupNat DEF Group, Skipped
<1>2. /\ FrameAt(m) \in Nat /\ EventAt(m) \in Nat /\ CurrentFrame(m) \in Nat
      /\ Group(At(m)) = CurrentFrame(m) /\ At(m)[2] = EventAt(m) /\ At(m)[3] = current_tx[m]
  BY AtPlace
<1>3. current_tx[m] \in Nat /\ last_finalised_frame[m] \in Int
      /\ last_finalised_frame[m] <= p[1] - 1
  BY <1>1 DEF CursorOK, None
<1>4. current_tx[m] > 0 => FrameAt(m) <= p[1] - 1
  BY <1>1, <1>2, <1>3 DEF CursorOK
<1>5. CASE FrameEnded(m)
  <2>1. /\ FrameAt(m) = CurrentFrame(m) + 1 /\ EventAt(m) = 0 /\ CurrentFrame(m) >= 1
        /\ CurrentFrame(m) <= p[1] /\ (CurrentFrame(m) >= 2 => CurrentFrame(m) <= p[1] - 1)
    BY <1>1, <1>2, <1>3, <1>5 DEF FrameAt, EventAt, CursorOK
  <2>2. \/ CurrentFrame(m) < Group(p)
        \/ /\ CurrentFrame(m) = Group(p)
           /\ EventAt(m) < p[2] \/ (EventAt(m) = p[2] /\ current_tx[m] = 0)
    <3>. PICK P \in Nat, e \in Nat, g \in Nat : P = p[1] /\ e = p[2] /\ g = Group(p)
      BY <1>1
    <3>. PICK cf \in Nat, f \in Nat, ea \in Nat, tx \in Nat :
           cf = CurrentFrame(m) /\ f = FrameAt(m) /\ ea = EventAt(m) /\ tx = current_tx[m]
      BY <1>2, <1>3
    <3>1. g = (IF P = 0 THEN 0 ELSE IF e = 0 THEN P - 1 ELSE P) /\ ~ (P = 1 /\ e = 0)
      BY <1>1
    <3>. QED  BY <1>4, <2>1, <3>1
  <2>. QED  BY <1>1, <1>2, <1>3, <2>2 DEF Precedes
<1>6. CASE ~ FrameEnded(m)
  <2>1. /\ FrameAt(m) = CurrentFrame(m)
        /\ CurrentFrame(m) >= 1 => CurrentFrame(m) + 1 <= p[1] - 1
        /\ EventAt(m) > 0 => FrameAt(m) <= p[1] - 1
    BY <1>1, <1>2, <1>3, <1>6 DEF FrameAt, CursorOK
  <2>2. \/ CurrentFrame(m) < Group(p)
        \/ /\ CurrentFrame(m) = Group(p)
           /\ EventAt(m) < p[2] \/ (EventAt(m) = p[2] /\ current_tx[m] = 0)
    <3>. PICK P \in Nat, e \in Nat, g \in Nat : P = p[1] /\ e = p[2] /\ g = Group(p)
      BY <1>1
    <3>. PICK cf \in Nat, f \in Nat, ea \in Nat, tx \in Nat :
           cf = CurrentFrame(m) /\ f = FrameAt(m) /\ ea = EventAt(m) /\ tx = current_tx[m]
      BY <1>2, <1>3
    <3>1. g = (IF P = 0 THEN 0 ELSE IF e = 0 THEN P - 1 ELSE P) /\ ~ (P = 1 /\ e = 0)
      BY <1>1
    <3>. QED  BY <1>4, <2>1, <3>1
  <2>. QED  BY <1>1, <1>2, <1>3, <2>2 DEF Precedes
<1>. QED  BY <1>5, <1>6

(* Another frame in the log, and this node or another finalises it: what   *)
(* the cursor has gone over stays what it was.                             *)
LEMMA LogGrows ==
  ASSUME NEW m \in Nodes, LogOK, CursorOK(m), WalkOK(m), UNCHANGED <<cursor, delivered>>,
         NEW new, IsFrame(new), log' = Append(log, new) \/ log' = log,
         last_finalised_frame'[m] \in Nat \cup {None},
         last_finalised_frame[m] <= last_finalised_frame'[m],
         last_finalised_frame'[m] < Len(log')
  PROVE  CursorOK(m)' /\ WalkOK(m)'
<1>1. /\ FrameEnded(m)' <=> FrameEnded(m)
      /\ CurrentFrame(m)' = CurrentFrame(m)
      /\ FrameAt(m)' = FrameAt(m) /\ EventAt(m)' = EventAt(m) /\ At(m)' = At(m)
      /\ current_frame'[m] = current_frame[m] /\ current_event'[m] = current_event[m]
      /\ current_tx'[m] = current_tx[m] /\ delivered'[m] = delivered[m]
  BY DEF FrameEnded, CurrentFrame, FrameAt, EventAt, At, cursor
<1>2. At(m) \in Places /\ FrameAt(m) \in Nat /\ EventAt(m) \in Nat /\ CurrentFrame(m) \in Nat
      /\ At(m)[1] = FrameAt(m) /\ At(m)[2] = EventAt(m)
  BY AtPlace
<1>3. Len(log) \in Nat /\ Len(log') \in Nat /\ Len(log) <= Len(log')
      /\ \A f \in 1 .. Len(log) : log'[f] = log[f]
  BY LenProperties, AppendProperties DEF LogOK
<1>4. ASSUME NEW p \in Places, p[1] < Len(log)
      PROVE  log'[p[1] + 1] = log[p[1] + 1]
  BY <1>3, <1>4, GroupNat, SMTT(30)
<1>5. last_finalised_frame[m] \in Int /\ last_finalised_frame[m] < Len(log)
  BY DEF CursorOK, None
<1>6. CursorOK(m)'
  <2>1. FrameAt(m) <= last_finalised_frame[m] => log'[FrameAt(m) + 1] = log[FrameAt(m) + 1]
    BY <1>2, <1>3, <1>4, <1>5
  <2>2. EventLength(At(m)) = Len(log[FrameAt(m) + 1][EventAt(m) + 1])
        /\ EventLength(At(m))' = Len(log'[FrameAt(m) + 1][EventAt(m) + 1])
    BY <1>1, <1>2 DEF EventLength
  <2>3. last_finalised_frame'[m] \in Int
    BY DEF None
  <2>4. /\ FrameEnded(m) =>
             /\ CurrentFrame(m) >= 1 /\ CurrentFrame(m) - 1 <= last_finalised_frame'[m]
             /\ CurrentFrame(m) >= 2 => CurrentFrame(m) <= last_finalised_frame'[m]
        /\ ~ FrameEnded(m) /\ CurrentFrame(m) >= 1 =>
             EventAt(m) >= 1 /\ CurrentFrame(m) + 1 <= last_finalised_frame'[m]
    BY <1>2, <1>5, <2>3, SMTT(30) DEF CursorOK
  <2>5. ~ FrameEnded(m) /\ EventAt(m) > 0 =>
          /\ FrameAt(m) <= last_finalised_frame'[m]
          /\ EventAt(m) < Len(log'[FrameAt(m) + 1])
    BY <1>2, <1>5, <2>1, <2>3 DEF CursorOK
  <2>6. current_tx[m] > 0 =>
          /\ FrameAt(m) <= last_finalised_frame'[m]
          /\ current_tx[m] < Len(log'[FrameAt(m) + 1][EventAt(m) + 1])
    BY <1>2, <1>5, <2>1, <2>2, <2>3, SMTT(30) DEF CursorOK
  <2>7. /\ current_frame[m] \in Nat \cup {None} /\ current_event[m] \in Nat \cup {None}
        /\ current_tx[m] \in Nat
    BY DEF CursorOK
  <2>. QED  BY <1>1, <2>2, <2>4, <2>5, <2>6, <2>7 DEF CursorOK
<1>7. {p \in Readable : Precedes(p, At(m))}' = {p \in Readable : Precedes(p, At(m))}
  <2>. PICK c : c = At(m)
    OBVIOUS
  <2>1. ASSUME NEW p \in Places, p[1] < Len(log)
        PROVE  p \in Readable' <=> p \in Readable
    <3>1. log'[p[1] + 1] = log[p[1] + 1] /\ p[1] < Len(log')
      BY <1>3, <1>4, <2>1, GroupNat
    <3>. QED  BY <2>1, <3>1 DEF Readable, InLog, EventLength
  <2>2. ASSUME NEW p \in Places, ~ (p[1] < Len(log)), p \in Readable'
        PROVE  ~ Precedes(p, c)
    <3>1. ~ Skipped(p) /\ p[1] < Len(log')
      BY <2>2 DEF Readable, InLog
    <3>2. Len(log') = Len(log) \/ Len(log') = Len(log) + 1
      BY AppendProperties DEF LogOK
    <3>3. p[1] = Len(log)
      BY <1>3, <2>2, <3>1, <3>2, GroupNat
    <3>. QED  BY <3>1, <3>3, NewFrameBeyond
  <2>3. \A p \in Readable : p \in Places /\ p[1] < Len(log)
    BY DEF Readable, InLog
  <2>4. Readable' \subseteq Places
    BY DEF Readable
  <2>5. {p \in Readable' : Precedes(p, c)} = {p \in Readable : Precedes(p, c)}
    BY <2>1, <2>2, <2>3, <2>4
  <2>. QED  BY <1>1, <2>5
<1>8. WalkOK(m)'
  <2>. PICK W : W = {p \in Readable : Precedes(p, At(m))}
    OBVIOUS
  <2>. PICK d : d = delivered[m]
    OBVIOUS
  <2>1. /\ d \in Seq(Places) /\ Range(d) = W
        /\ \A i, j \in 1 .. Len(d) : i < j => Precedes(d[i], d[j])
    BY DEF WalkOK, Walk
  <2>2. delivered'[m] = d /\ {p \in Readable : Precedes(p, At(m))}' = W
    BY <1>1, <1>7
  <2>. QED  BY <2>1, <2>2 DEF WalkOK, Walk
<1>. QED  BY <1>6, <1>8

(* insert_event finalises a frame. *)
LEMMA FinaliseKeeps ==
  ASSUME NEW n \in Nodes, NEW C, \A f \in C : IsFrame(f), DeliveryInv, FinaliseFrame(n, C)
  PROVE  DeliveryInv'
<1>. USE DEF DeliveryInv
<1>1. DeliveryShape'
  BY DEF DeliveryShape, FinaliseFrame, cursor
<1>2. /\ last_finalised_frame[n] \in Nat \cup {None} /\ last_finalised_frame[n] < Len(log)
      /\ last_finalised_frame' = [last_finalised_frame EXCEPT ![n] = last_finalised_frame[n] + 1]
      /\ UNCHANGED <<cursor, delivered, poll>>
      /\ waker' = [waker EXCEPT ![n] = FALSE] /\ woken' = [woken EXCEPT ![n] = @ \/ waker[n]]
  BY DEF CursorOK, FinaliseFrame
<1>3. /\ Len(log) \in Nat
      /\ \/ last_finalised_frame[n] + 1 < Len(log) /\ log' = log
         \/ ~ (last_finalised_frame[n] + 1 < Len(log)) /\ \E new \in C : log' = Append(log, new)
  BY LenProperties DEF FinaliseFrame, LogOK
<1>4. PICK new : IsFrame(new) /\
        \/ last_finalised_frame[n] + 1 < Len(log) /\ log' = log
        \/ ~ (last_finalised_frame[n] + 1 < Len(log)) /\ log' = Append(log, new)
  <2>1. CASE last_finalised_frame[n] + 1 < Len(log) /\ log' = log
    <3>1. 1 \in 1 .. Len(log)
      BY <1>2, <1>3, <2>1 DEF None
    <3>2. IsFrame(log[1])
      BY <3>1 DEF LogOK
    <3>. QED  BY <2>1, <3>2
  <2>2. CASE ~ (last_finalised_frame[n] + 1 < Len(log)) /\ \E new \in C : log' = Append(log, new)
    BY <2>2
  <2>. QED  BY <1>3, <2>1, <2>2
<1>5. last_finalised_frame[n] + 1 < Len(log') /\ Len(log) <= Len(log')
  BY <1>2, <1>3, <1>4, AppendProperties DEF LogOK, None
<1>6. LogOK'
  <2>1. CASE log' = log
    BY <2>1 DEF LogOK
  <2>2. CASE log' = Append(log, new)
    <3>1. log' \in Seq(Range(log) \cup {new}) /\ Len(log') = Len(log) + 1
          /\ log'[Len(log) + 1] = new /\ \A i \in 1 .. Len(log) : log'[i] = log[i]
      BY <2>2, AppendProperties, SeqMonotonic DEF LogOK
    <3>2. \A i \in 1 .. Len(log') : log'[i] \in Range(log) \cup {new}
      BY <3>1, ElementOfSeq
    <3>3. Range(log') \subseteq Range(log) \cup {new}
      <4>1. \A f \in Range(log') : \E i \in 1 .. Len(log') : f = log'[i]
        BY <3>1, RangeOfSeq DEF Range
      <4>. QED  BY <3>2, <4>1
    <3>4. log' \in Seq(Range(log'))
      BY <3>1, SeqOfRange
    <3>. QED  BY <1>4, <3>3, <3>4 DEF LogOK
  <2>. QED  BY <1>4, <2>1, <2>2
<1>7. ASSUME NEW m \in Nodes PROVE CursorOK(m)' /\ WalkOK(m)' /\ PollOK(m)'
  <2>1. /\ last_finalised_frame[m] \in Nat \cup {None} /\ last_finalised_frame[m] < Len(log)
        /\ CursorOK(m) /\ WalkOK(m) /\ PollOK(m)
    BY DEF CursorOK
  <2>2. last_finalised_frame'[m] \in Nat \cup {None}
        /\ last_finalised_frame[m] <= last_finalised_frame'[m]
    BY <1>2, <2>1 DEF None, DeliveryShape
  <2>3. last_finalised_frame'[m] < Len(log')
    BY <1>2, <1>3, <1>5, <2>1 DEF None, DeliveryShape
  <2>4. CursorOK(m)' /\ WalkOK(m)'
    BY <1>2, <1>4, <2>1, <2>2, <2>3, LogGrows DEF LogOK
  <2>5. waker[m] \/ woken[m] => waker'[m] \/ woken'[m]
    BY <1>2 DEF DeliveryShape
  <2>6. PollOK(m)'
    BY <1>2, <2>1, <2>2, <2>5 DEF PollOK, None
  <2>. QED  BY <2>4, <2>6
<1>. QED  BY <1>1, <1>6, <1>7

(* The loop reads inside the finalised frames. *)
LEMMA InRange ==
  ASSUME NEW n \in Nodes, LogOK, CursorOK(n), PollOK(n), poll[n].at = "loop",
         ~ (FrameEnded(n) /\ CurrentFrame(n) >= poll[n].last)
  PROVE  /\ FrameAt(n) <= last_finalised_frame[n] /\ FrameAt(n) < Len(log)
         /\ EventAt(n) < Len(log[FrameAt(n) + 1]) /\ InLog(At(n))
         /\ current_tx[n] = 0 \/ current_tx[n] < EventLength(At(n))
<1>1. /\ FrameAt(n) \in Nat /\ EventAt(n) \in Nat /\ CurrentFrame(n) \in Nat
      /\ At(n)[1] = FrameAt(n) /\ At(n)[2] = EventAt(n)
  BY AtPlace
<1>2. /\ poll[n].last \in Nat /\ poll[n].last <= last_finalised_frame[n]
      /\ last_finalised_frame[n] \in Int /\ last_finalised_frame[n] < Len(log)
      /\ Len(log) \in Nat
  BY LenProperties DEF PollOK, CursorOK, LogOK, None
<1>3. FrameAt(n) <= last_finalised_frame[n]
  <2>1. CASE FrameEnded(n)
    BY <1>1, <1>2, <2>1 DEF FrameAt
  <2>2. CASE ~ FrameEnded(n)
    BY <1>1, <1>2, <2>2 DEF FrameAt, CursorOK
  <2>. QED  BY <2>1, <2>2
<1>4. FrameAt(n) < Len(log) /\ FrameAt(n) + 1 \in 1 .. Len(log)
  BY <1>1, <1>2, <1>3
<1>5. Len(log[FrameAt(n) + 1]) \in Nat /\ Len(log[FrameAt(n) + 1]) >= 2
  BY <1>4, LenProperties DEF LogOK, IsFrame
<1>6. EventAt(n) < Len(log[FrameAt(n) + 1])
  <2>1. CASE EventAt(n) = 0
    BY <1>5, <2>1
  <2>2. CASE EventAt(n) > 0
    <3>1. ~ FrameEnded(n)
      BY <2>2 DEF EventAt
    <3>. QED  BY <2>2, <3>1 DEF CursorOK
  <2>. QED  BY <1>1, <2>1, <2>2
<1>7. current_tx[n] = 0 \/ current_tx[n] < EventLength(At(n))
  <2>1. current_tx[n] \in Nat
    BY DEF CursorOK
  <2>2. current_tx[n] > 0 => current_tx[n] < EventLength(At(n))
    BY DEF CursorOK
  <2>. QED  BY <2>1, <2>2
<1>. QED  BY <1>1, <1>3, <1>4, <1>6, <1>7 DEF InLog

(* The cursor after a turn of the loop. *)
LEMMA CursorMoves ==
  ASSUME NEW n \in Nodes, DeliveryInv, LoopEvent(n)
  PROVE  /\ CursorOK(n)'
         /\ \/ /\ Group(At(n))' = Group(At(n)) /\ At(n)'[2] = EventAt(n)
               /\ At(n)'[3] = current_tx[n] + 1
            \/ /\ Group(At(n))' = Group(At(n)) /\ At(n)'[2] = EventAt(n) + 1
               /\ At(n)'[3] = 0 /\ EventLength(At(n)) <= current_tx[n] + 1
            \/ /\ Group(At(n))' = Group(At(n)) + 1 /\ At(n)'[2] = 0
               /\ At(n)'[3] = 0 /\ EventAt(n) >= 1
               /\ Len(log[FrameAt(n) + 1]) <= EventAt(n) + 1
               /\ EventLength(At(n)) <= current_tx[n] + 1
<1>. DEFINE F == FrameAt(n)
            E == EventAt(n)
            n_tx == EventLength(At(n))
            n_events == Len(log[FrameAt(n) + 1])
<1>1. /\ CursorOK(n) /\ LogOK /\ PollOK(n)
      /\ DOMAIN current_frame = Nodes /\ DOMAIN current_event = Nodes
      /\ DOMAIN current_tx = Nodes
  BY DEF DeliveryInv, DeliveryShape
<1>2. /\ F \in Nat /\ E \in Nat /\ CurrentFrame(n) \in Nat /\ At(n) \in Places
      /\ At(n)[1] = F /\ At(n)[2] = E /\ At(n)[3] = current_tx[n]
      /\ Group(At(n)) = CurrentFrame(n)
  BY <1>1, AtPlace
<1>3. /\ F <= last_finalised_frame[n] /\ F < Len(log) /\ E < n_events /\ InLog(At(n))
      /\ current_tx[n] = 0 \/ current_tx[n] < n_tx
  BY <1>1, InRange DEF LoopEvent
<1>4. /\ Len(log) \in Nat /\ F + 1 \in 1 .. Len(log) /\ n_events \in Nat /\ n_events >= 2
      /\ n_tx \in Nat
  BY <1>1, <1>2, <1>3, InTheLog DEF IsFrame
<1>5. /\ current_tx[n] \in Nat /\ last_finalised_frame[n] \in Int
      /\ last_finalised_frame[n] < Len(log)
      /\ last_finalised_frame[n] \in Nat \cup {None}
      /\ current_frame[n] \in Nat \cup {None} /\ current_event[n] \in Nat \cup {None}
  BY <1>1 DEF CursorOK, None
<1>6. UNCHANGED <<log, last_finalised_frame>> /\ Advance(n, n_tx, n_events)
  BY <1>2 DEF LoopEvent, EventLength
<1>7. /\ FrameEnded(n) => /\ E = 0 /\ F = CurrentFrame(n) + 1 /\ CurrentFrame(n) >= 1
                          /\ current_event[n] = None
      /\ ~ FrameEnded(n) => /\ F = CurrentFrame(n) /\ E = current_event[n]
                            /\ current_event[n] # None
                            /\ CurrentFrame(n) >= 1 => CurrentFrame(n) + 1 <= last_finalised_frame[n]
                            /\ CurrentFrame(n) >= 1 => E >= 1
  BY <1>1 DEF FrameEnded, FrameAt, EventAt, CursorOK
<1>8. CASE current_tx[n] + 1 < n_tx
  <2>1. /\ current_tx'[n] = current_tx[n] + 1
        /\ current_event'[n] = current_event[n] /\ current_frame'[n] = current_frame[n]
    BY <1>1, <1>6, <1>8 DEF Advance
  <2>2. /\ (FrameEnded(n)' <=> FrameEnded(n)) /\ CurrentFrame(n)' = CurrentFrame(n)
        /\ FrameAt(n)' = F /\ EventAt(n)' = E
    BY <2>1 DEF FrameEnded, CurrentFrame, FrameAt, EventAt
  <2>3. At(n)' = <<F, E, current_tx[n] + 1>>
    BY <2>1, <2>2 DEF At
  <2>4. EventLength(At(n))' = n_tx
    <3>. PICK r : r = At(n)'
      OBVIOUS
    <3>1. r[1] = At(n)[1] /\ r[2] = At(n)[2]
      BY <1>2, <2>3
    <3>2. EventLength(r)' = EventLength(At(n))
      BY <1>6, <3>1 DEF EventLength
    <3>. QED  BY <3>2
  <2>5. CursorOK(n)'
    <3>1. /\ current_frame'[n] \in Nat \cup {None} /\ current_event'[n] \in Nat \cup {None}
          /\ current_tx'[n] \in Nat /\ current_tx'[n] < n_tx
      BY <1>5, <1>8, <2>1
    <3>. HIDE DEF F, E, n_tx, n_events
    <3>2. /\ last_finalised_frame'[n] = last_finalised_frame[n] /\ log' = log
      BY <1>6
    <3>3. /\ FrameEnded(n) =>
               /\ CurrentFrame(n) >= 1 /\ CurrentFrame(n) - 1 <= last_finalised_frame[n]
               /\ CurrentFrame(n) >= 2 => CurrentFrame(n) <= last_finalised_frame[n]
          /\ ~ FrameEnded(n) /\ CurrentFrame(n) >= 1 =>
               E >= 1 /\ CurrentFrame(n) + 1 <= last_finalised_frame[n]
          /\ ~ FrameEnded(n) /\ E > 0 =>
               F <= last_finalised_frame[n] /\ E < Len(log[F + 1])
      BY <1>1 DEF CursorOK, E, F
    <3>. QED  BY <1>3, <1>5, <2>2, <2>4, <3>1, <3>2, <3>3 DEF CursorOK
  <2>6. Group(At(n))' = Group(At(n))
    <3>. PICK r : r = At(n)'
      OBVIOUS
    <3>1. r[1] = At(n)[1] /\ r[2] = At(n)[2]
      BY <1>2, <2>3
    <3>2. Group(r) = Group(At(n))
      BY <3>1 DEF Group
    <3>. QED  BY <3>2
  <2>. QED  BY <2>3, <2>5, <2>6
<1>9. CASE ~ (current_tx[n] + 1 < n_tx) /\ E + 1 < n_events
  <2>1. /\ current_tx'[n] = 0
        /\ current_event'[n] = E + 1 /\ current_frame'[n] = current_frame[n]
    BY <1>1, <1>6, <1>9 DEF Advance
  <2>2. /\ ~ FrameEnded(n)' /\ CurrentFrame(n)' = CurrentFrame(n)
        /\ FrameAt(n)' = CurrentFrame(n) /\ EventAt(n)' = E + 1
    BY <1>2, <2>1 DEF FrameEnded, CurrentFrame, FrameAt, EventAt, None
  <2>3. At(n)' = <<CurrentFrame(n), E + 1, 0>>
    BY <2>1, <2>2 DEF At
  <2>4. CurrentFrame(n) <= F /\ E + 1 < Len(log[CurrentFrame(n) + 1])
        /\ (CurrentFrame(n) >= 1 => CurrentFrame(n) + 1 <= last_finalised_frame[n])
    <3>1. CASE FrameEnded(n)
      <4>1. CurrentFrame(n) + 1 \in 1 .. Len(log)
        BY <1>2, <1>4, <1>7, <3>1
      <4>2. Len(log[CurrentFrame(n) + 1]) >= 2 /\ Len(log[CurrentFrame(n) + 1]) \in Nat
        BY <1>1, <4>1, LenProperties DEF LogOK, IsFrame
      <4>3. E = 0 /\ F = CurrentFrame(n) + 1
        BY <1>7, <3>1
      <4>. QED  BY <1>2, <1>3, <4>2, <4>3
    <3>2. CASE ~ FrameEnded(n)
      <4>1. F = CurrentFrame(n) /\ (CurrentFrame(n) >= 1 => CurrentFrame(n) + 1 <= last_finalised_frame[n])
        BY <1>7, <3>2
      <4>. QED  BY <1>2, <1>9, <4>1
    <3>. QED  BY <3>1, <3>2
  <2>5. CursorOK(n)'
    <3>1. /\ current_frame'[n] \in Nat \cup {None} /\ current_event'[n] \in Nat \cup {None}
          /\ current_tx'[n] = 0 /\ current_tx'[n] \in Nat
      BY <1>2, <1>5, <2>1
    <3>. HIDE DEF F, E, n_tx, n_events
    <3>2. /\ last_finalised_frame'[n] = last_finalised_frame[n] /\ log' = log
      BY <1>6
    <3>3. E + 1 >= 1 /\ CurrentFrame(n) <= last_finalised_frame[n]
      BY <1>2, <1>3, <1>5, <2>4
    <3>. QED  BY <1>5, <2>2, <2>4, <3>1, <3>2, <3>3 DEF CursorOK
  <2>6. Group(At(n))' = CurrentFrame(n)
    <3>. PICK r : r = At(n)'
      OBVIOUS
    <3>1. r[1] = CurrentFrame(n) /\ r[2] = E + 1
      BY <2>3
    <3>2. Group(r) = CurrentFrame(n)
      BY <1>2, <3>1 DEF Group
    <3>. QED  BY <3>2
  <2>7. n_tx <= current_tx[n] + 1
    BY <1>4, <1>5, <1>9
  <2>. QED  BY <1>2, <2>3, <2>5, <2>6, <2>7
<1>10. CASE ~ (current_tx[n] + 1 < n_tx) /\ ~ (E + 1 < n_events)
  <2>1. /\ current_tx'[n] = 0
        /\ current_event'[n] = None /\ current_frame'[n] = F + 1
    BY <1>1, <1>6, <1>10 DEF Advance
  <2>2. /\ FrameEnded(n)' /\ CurrentFrame(n)' = F + 1
        /\ FrameAt(n)' = F + 2 /\ EventAt(n)' = 0
    BY <1>2, <2>1 DEF FrameEnded, CurrentFrame, FrameAt, EventAt, None
  <2>3. At(n)' = <<F + 2, 0, 0>>
    BY <2>1, <2>2 DEF At
  <2>4. E >= 1 /\ F = CurrentFrame(n) /\ (F >= 1 => F + 1 <= last_finalised_frame[n])
    <3>1. E >= 1
      BY <1>2, <1>4, <1>10
    <3>2. ~ FrameEnded(n)
      BY <1>7, <3>1
    <3>. QED  BY <1>7, <3>1, <3>2
  <2>5. CursorOK(n)'
    <3>1. /\ current_frame'[n] \in Nat \cup {None} /\ current_event'[n] \in Nat \cup {None}
          /\ current_tx'[n] = 0 /\ current_tx'[n] \in Nat
      BY <1>2, <2>1
    <3>. HIDE DEF F, E, n_tx, n_events
    <3>2. /\ last_finalised_frame'[n] = last_finalised_frame[n] /\ log' = log
      BY <1>6
    <3>3. /\ F + 1 >= 1 /\ F + 1 - 1 <= last_finalised_frame[n]
          /\ F + 1 >= 2 => F + 1 <= last_finalised_frame[n]
      BY <1>2, <1>3, <1>5, <2>4
    <3>4. ~ (current_tx'[n] > 0)
      BY <3>1
    <3>5. /\ CurrentFrame(n)' >= 1 /\ CurrentFrame(n)' - 1 <= last_finalised_frame'[n]
          /\ CurrentFrame(n)' >= 2 => CurrentFrame(n)' <= last_finalised_frame'[n]
      BY <1>2, <1>5, <2>2, <3>2, <3>3
    <3>6. /\ last_finalised_frame'[n] \in Nat \cup {None} /\ last_finalised_frame'[n] < Len(log')
      BY <1>5, <3>2
    <3>. QED  BY <2>2, <3>1, <3>4, <3>5, <3>6 DEF CursorOK
  <2>6. Group(At(n))' = F + 1
    <3>. PICK r : r = At(n)'
      OBVIOUS
    <3>1. r[1] = F + 2 /\ r[2] = 0
      BY <2>3
    <3>2. Group(r) = F + 1
      BY <1>2, <3>1 DEF Group
    <3>. QED  BY <3>2
  <2>7. n_tx <= current_tx[n] + 1 /\ n_events <= E + 1
    BY <1>2, <1>4, <1>5, <1>10, SMTT(30)
  <2>. QED  BY <1>2, <2>3, <2>4, <2>5, <2>6, <2>7
<1>. QED  BY <1>8, <1>9, <1>10

(* A place more at the end of the walk. *)
LEMMA WalkExtended ==
  ASSUME NEW S, S \subseteq Places, NEW d, NEW q \in Places, NEW r, Walk(d, S, q),
         {p \in S : Precedes(p, r)} = {p \in S : Precedes(p, q)} \cup {q}
  PROVE  Walk(Append(d, q), S, r)
<1>1. /\ d \in Seq(Places) /\ Range(d) = {p \in S : Precedes(p, q)}
      /\ \A i, j \in 1 .. Len(d) : i < j => Precedes(d[i], d[j])
  BY DEF Walk
<1>2. /\ Len(d) \in Nat /\ Append(d, q) \in Seq(Places) /\ Len(Append(d, q)) = Len(d) + 1
      /\ \A i \in 1 .. Len(d) : Append(d, q)[i] = d[i]
      /\ Append(d, q)[Len(d) + 1] = q
  BY <1>1, LenProperties, AppendProperties
<1>3. \A i \in 1 .. Len(d) : Precedes(d[i], q)
  <2>1. \A i \in 1 .. Len(d) : d[i] \in Range(d)
    BY <1>1, RangeEquality
  <2>. QED  BY <1>1, <2>1
<1>4. ASSUME NEW i \in 1 .. (Len(d) + 1), NEW j \in 1 .. (Len(d) + 1), i < j
      PROVE  Precedes(Append(d, q)[i], Append(d, q)[j])
  <2>1. i \in 1 .. Len(d) /\ Append(d, q)[i] = d[i]
    BY <1>2, <1>4
  <2>2. CASE j = Len(d) + 1
    BY <1>2, <1>3, <2>1, <2>2
  <2>3. CASE j # Len(d) + 1
    <3>1. j \in 1 .. Len(d) /\ Append(d, q)[j] = d[j]
      BY <1>2, <2>3
    <3>. QED  BY <1>1, <1>4, <2>1, <3>1
  <2>. QED  BY <2>2, <2>3
<1>5. Range(Append(d, q)) = Range(d) \cup {q}
  <2>1. /\ Range(d) = {d[i] : i \in 1 .. Len(d)}
        /\ Range(Append(d, q)) = {Append(d, q)[i] : i \in 1 .. (Len(d) + 1)}
    BY <1>1, <1>2, RangeEquality
  <2>2. Len(d) + 1 \in 1 .. (Len(d) + 1) /\ 1 .. (Len(d) + 1) = 1 .. Len(d) \cup {Len(d) + 1}
    BY <1>2
  <2>3. ASSUME NEW x \in Range(Append(d, q)) PROVE x \in Range(d) \cup {q}
    <3>1. PICK i \in 1 .. (Len(d) + 1) : x = Append(d, q)[i]
      BY <2>1
    <3>. QED  BY <1>2, <2>1, <2>2, <3>1
  <2>4. ASSUME NEW x \in Range(d) \cup {q} PROVE x \in Range(Append(d, q))
    <3>1. CASE x = q
      BY <1>2, <2>1, <2>2, <3>1
    <3>2. CASE x \in Range(d)
      <4>1. PICK i \in 1 .. Len(d) : x = d[i]
        BY <2>1, <3>2
      <4>2. i \in 1 .. (Len(d) + 1) /\ x = Append(d, q)[i]
        BY <1>2, <2>2, <4>1
      <4>. QED  BY <2>1, <4>2
    <3>. QED  BY <3>1, <3>2
  <2>. QED  BY <2>3, <2>4
<1>. QED  BY <1>1, <1>2, <1>4, <1>5 DEF Walk

(* A turn of the loop. *)
LEMMA LoopEventKeeps ==
  ASSUME NEW n \in Nodes, DeliveryInv, LoopEvent(n)
  PROVE  DeliveryInv'
<1>1. /\ DeliveryShape /\ LogOK /\ UNCHANGED <<log, last_finalised_frame, waker, woken>>
      /\ poll[n].at = "loop"
      /\ \A m \in Nodes : CursorOK(m) /\ WalkOK(m) /\ PollOK(m)
  BY DEF DeliveryInv, LoopEvent
<1>. PICK q : q = At(n)
  OBVIOUS
<1>. PICK r : r = At(n)'
  OBVIOUS
<1>. DEFINE n_tx == EventLength(q)
            d == delivered[n]
<1>2. /\ q = <<FrameAt(n), EventAt(n), current_tx[n]>> /\ q \in Places /\ ~ Skipped(q)
      /\ q[1] = FrameAt(n) /\ q[2] = EventAt(n) /\ q[3] = current_tx[n]
      /\ Walk(d, Readable, q)
  BY <1>1, AtPlace DEF At, WalkOK
<1>3. /\ InLog(q) /\ n_tx \in Nat /\ (q[3] = 0 \/ q[3] < n_tx)
  BY <1>1, <1>2, InRange, InTheLog DEF LoopEvent
<1>4. /\ Advance(n, n_tx, Len(log[FrameAt(n) + 1]))
      /\ \/ /\ n_tx > 0 /\ delivered' = [delivered EXCEPT ![n] = Append(@, q)]
            /\ poll' = [poll EXCEPT ![n] = [at |-> "deliver"]]
         \/ /\ ~ (n_tx > 0) /\ UNCHANGED <<delivered, poll>>
  BY <1>2 DEF LoopEvent, EventLength
<1>5. DeliveryShape'
  BY <1>1, <1>4 DEF DeliveryShape, Advance
<1>6. LogOK' /\ Readable' = Readable
  BY <1>1 DEF LogOK, Readable, InLog, EventLength
<1>7. ASSUME NEW m \in Nodes, m # n PROVE CursorOK(m)' /\ WalkOK(m)'
  <2>1. /\ current_frame'[m] = current_frame[m] /\ current_event'[m] = current_event[m]
        /\ current_tx'[m] = current_tx[m]
    BY <1>1, <1>4, <1>7 DEF Advance, DeliveryShape
  <2>2. delivered'[m] = delivered[m] /\ last_finalised_frame'[m] = last_finalised_frame[m]
    BY <1>1, <1>4, <1>7 DEF DeliveryShape
  <2>. QED  BY <1>1, <2>1, <2>2, CursorKept
<1>8. CursorOK(n)' /\ WalkOK(n)'
  <2>1. /\ CursorOK(n)'
        /\ \/ Group(r) = Group(q) /\ r[2] = q[2] /\ r[3] = q[3] + 1
           \/ /\ Group(r) = Group(q) /\ r[2] = q[2] + 1 /\ r[3] = 0
              /\ EventLength(q) <= q[3] + 1
           \/ /\ Group(r) = Group(q) + 1 /\ r[2] = 0 /\ r[3] = 0 /\ q[2] >= 1
              /\ Len(log[q[1] + 1]) <= q[2] + 1 /\ EventLength(q) <= q[3] + 1
    <3>1. Group(r) = Group(At(n))'
      OBVIOUS
    <3>. QED  BY <1>2, <3>1, CursorMoves
  <2>2. r \in Places
    <3>1. CursorOK(n) => At(n) \in Places
      BY AtPlace
    <3>2. (CursorOK(n) => At(n) \in Places)'
      <4>1. n \in Nodes
        OBVIOUS
      <4>. QED  BY AtPlace DEF CursorOK, At, FrameAt, EventAt, FrameEnded, CurrentFrame, Places, None
    <3>3. Places' = Places
      BY DEF Places
    <3>. QED  BY <2>1, <3>2, <3>3
  <2>3. \A p \in Readable : Precedes(p, r) <=> Precedes(p, q) \/ p = q
    BY <1>1, <1>2, <2>1, <2>2, NextPlace
  <2>4. Readable \subseteq Places
    BY DEF Readable
  <2>5. CASE n_tx > 0
    <3>1. q \in Readable
      BY <1>2, <1>3, <2>5 DEF Readable
    <3>2. {p \in Readable : Precedes(p, r)} = {p \in Readable : Precedes(p, q)} \cup {q}
      BY <2>3, <3>1
    <3>3. Walk(Append(d, q), Readable, r)
      <4>. HIDE DEF d
      <4>. QED  BY <1>2, <2>4, <3>2, WalkExtended
    <3>4. delivered'[n] = Append(d, q)
      BY <1>1, <1>4, <2>5 DEF DeliveryShape
    <3>. QED  BY <1>6, <2>1, <3>3, <3>4 DEF WalkOK
  <2>6. CASE ~ (n_tx > 0)
    <3>1. q \notin Readable
      BY <1>2, <1>3, <2>6, GroupNat DEF Readable
    <3>2. {p \in Readable : Precedes(p, r)} = {p \in Readable : Precedes(p, q)}
      BY <2>3, <3>1
    <3>3. Walk(d, Readable, r)
      BY <1>2, <3>2 DEF Walk
    <3>4. delivered'[n] = d
      BY <1>4, <2>6
    <3>. QED  BY <1>6, <2>1, <3>3, <3>4 DEF WalkOK
  <2>. QED  BY <2>5, <2>6
<1>9. ASSUME NEW m \in Nodes PROVE PollOK(m)'
  BY <1>1, <1>4 DEF PollOK, DeliveryShape
<1>. QED  BY <1>5, <1>6, <1>7, <1>8, <1>9 DEF DeliveryInv

(* The other steps of poll_next leave the cursor where it is. *)
LEMMA PollKeeps ==
  ASSUME NEW n \in Nodes, DeliveryInv, Poll(n)
  PROVE  DeliveryInv'
<1>1. /\ DeliveryShape /\ LogOK
      /\ \A m \in Nodes : CursorOK(m) /\ WalkOK(m) /\ PollOK(m)
  BY DEF DeliveryInv
<1>2. ASSUME UNCHANGED <<log, last_finalised_frame, cursor, delivered>>,
             DOMAIN poll' = Nodes, DOMAIN waker' = Nodes, DOMAIN woken' = Nodes,
             \A m \in Nodes : PollOK(m)'
      PROVE  DeliveryInv'
  <2>1. DeliveryShape'
    BY <1>1, <1>2 DEF DeliveryShape, cursor
  <2>2. LogOK'
    BY <1>1, <1>2 DEF LogOK
  <2>3. ASSUME NEW m \in Nodes PROVE CursorOK(m)' /\ WalkOK(m)'
    <3>1. /\ UNCHANGED log /\ last_finalised_frame'[m] = last_finalised_frame[m]
          /\ current_frame'[m] = current_frame[m] /\ current_event'[m] = current_event[m]
          /\ current_tx'[m] = current_tx[m] /\ delivered'[m] = delivered[m]
      BY <1>2 DEF cursor
    <3>. QED  BY <1>1, <3>1, CursorKept
  <2>. QED  BY <1>2, <2>1, <2>2, <2>3 DEF DeliveryInv
<1>3. ASSUME Sleep(n) PROVE DeliveryInv'
  <2>1. \A m \in Nodes : PollOK(m)'
    BY <1>1, <1>3 DEF Sleep, PollOK, DeliveryShape
  <2>. QED  BY <1>1, <1>2, <1>3, <2>1 DEF Sleep, DeliveryShape
<1>4. CASE PollStart(n)
  <2>1. CASE last_finalised_frame[n] = None
    BY <1>3, <1>4, <2>1 DEF PollStart
  <2>2. CASE last_finalised_frame[n] # None
    <3>1. last_finalised_frame[n] \in Nat
      BY <1>1, <2>2 DEF CursorOK
    <3>2. \A m \in Nodes : PollOK(m)'
      BY <1>1, <1>4, <2>2, <3>1 DEF PollStart, PollOK, DeliveryShape
    <3>. QED  BY <1>1, <1>2, <1>4, <2>2, <3>2 DEF PollStart, DeliveryShape
  <2>. QED  BY <2>1, <2>2
<1>5. CASE LoopSleep(n)
  BY <1>3, <1>5 DEF LoopSleep
<1>6. CASE PollReady(n)
  <2>1. \A m \in Nodes : PollOK(m)'
    BY <1>1, <1>6 DEF PollReady, PollOK, DeliveryShape
  <2>. QED  BY <1>1, <1>2, <1>6, <2>1 DEF PollReady, DeliveryShape
<1>7. CASE PollAgain(n)
  <2>1. \A m \in Nodes : PollOK(m)'
    BY <1>1, <1>7 DEF PollAgain, PollOK, DeliveryShape
  <2>. QED  BY <1>1, <1>2, <1>7, <2>1 DEF PollAgain, DeliveryShape
<1>8. CASE LoopEvent(n)
  BY <1>8, LoopEventKeeps
<1>. QED  BY <1>4, <1>5, <1>6, <1>7, <1>8 DEF Poll

LEMMA DeliveryStutter == DeliveryInv /\ UNCHANGED dvars => DeliveryInv'
<1>. SUFFICES ASSUME DeliveryInv, UNCHANGED dvars PROVE DeliveryInv'
  OBVIOUS
<1>1. DeliveryShape' /\ LogOK'
  BY DEF DeliveryInv, DeliveryShape, LogOK, dvars, cursor
<1>2. ASSUME NEW m \in Nodes PROVE CursorOK(m)' /\ WalkOK(m)' /\ PollOK(m)'
  <2>1. /\ UNCHANGED <<log, poll, waker, woken>>
        /\ last_finalised_frame'[m] = last_finalised_frame[m]
        /\ current_frame'[m] = current_frame[m] /\ current_event'[m] = current_event[m]
        /\ current_tx'[m] = current_tx[m] /\ delivered'[m] = delivered[m]
    BY DEF dvars, cursor
  <2>2. CursorOK(m) /\ WalkOK(m) /\ PollOK(m)
    BY DEF DeliveryInv
  <2>3. PollOK(m)'
    BY <2>1, <2>2 DEF PollOK
  <2>. QED  BY <2>1, <2>2, <2>3, CursorKept
<1>. QED  BY <1>1, <1>2 DEF DeliveryInv

(* What the invariant says of the index of poll_next and of its sleep.     *)
LEMMA DeliverySafety == DeliveryInv => CursorInRange /\ SleeperHasWaker
<1>1. ASSUME DeliveryInv, NEW n \in Nodes, poll[n].at = "loop",
             ~ (FrameEnded(n) /\ CurrentFrame(n) >= poll[n].last)
      PROVE  /\ FrameAt(n) <= last_finalised_frame[n]
             /\ EventAt(n) < Len(log[FrameAt(n) + 1])
             /\ \/ current_tx[n] = 0
                \/ current_tx[n] < Len(log[FrameAt(n) + 1][EventAt(n) + 1])
  <2>1. CursorOK(n) /\ PollOK(n) /\ LogOK
    BY <1>1 DEF DeliveryInv
  <2>2. EventLength(At(n)) = Len(log[FrameAt(n) + 1][EventAt(n) + 1])
    BY <2>1, AtPlace DEF EventLength
  <2>. QED  BY <1>1, <2>1, <2>2, InRange
<1>2. DeliveryInv => SleeperHasWaker
  BY DEF DeliveryInv, PollOK, SleeperHasWaker
<1>. QED  BY <1>1, <1>2 DEF CursorInRange

-----------------------------------------------------------------------------
(* The cursors and the walks are in order in every reachable state of the  *)
(* consumers (lib.rs:600-696), whatever frames are decided (core.rs:277).  *)
THEOREM DeliveryInvariance == DeliverySpec => []DeliveryInv
<1>1. ASSUME DeliveryInv, DeliveryNext PROVE DeliveryInv'
  <2>1. PICK n \in Nodes : FinaliseFrame(n, Frames) \/ Poll(n)
    BY <1>1 DEF DeliveryNext
  <2>. QED  BY <1>1, <2>1, FramesAssumption, FinaliseKeeps, PollKeeps
<1>2. DeliveryInv /\ [DeliveryNext]_dvars => DeliveryInv'
  BY <1>1, DeliveryStutter
<1>. QED  BY <1>2, DeliveryInitial, PTL DEF DeliverySpec

(* Whatever the frames are, all consumers get the same in the same order,  *)
(* poll_next indexes inside them, and no consumer sleeps without a waker   *)
(* or a wake-up (lib.rs:600-696).                                          *)
THEOREM ConsumersAgree == DeliverySpec => [](SameOrder /\ CursorInRange /\ SleeperHasWaker)
BY DeliveryInvariance, DeliveryOrder, DeliverySafety, PTL
=============================================================================
