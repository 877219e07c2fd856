------------------------- MODULE TransactionsProofs -------------------------
(***************************************************************************)
(* Safety of module Transactions: from send_transaction through the frames *)
(* to the consumers, for every number of nodes, every limit on an event    *)
(* and every interleaving.                                                 *)
(*                                                                         *)
(* The argument.  The transactions of a node are numbered as they are      *)
(* sent; the pool holds the last of them (PoolOK), the events of the       *)
(* node's chain the others, each once (ChainOK).  The first records in a   *)
(* new frame are of the events after those decided before, so what is at   *)
(* two places of the log is in an event with a further record (LogOnce),   *)
(* and a consumer gets each place of the log once at most (DeliveryProofs, *)
(* WalkOK).                                                                *)
(***************************************************************************)
EXTENDS Transactions, DeliveryProofs

(* The way of a transaction to the log. *)

Tx == Nodes \X Nat

(* How many transactions of the node are in events.                        *)
Taken(c) == Len(sent[c]) - Len(tx_pool[c])

(* The pool holds the last transactions sent, in order.                    *)
PoolOK(c) ==
  /\ sent[c] \in Seq(Tx) /\ tx_pool[c] \in Seq(Tx) /\ Len(tx_pool[c]) <= Len(sent[c])
  /\ \A i \in 1 .. Len(sent[c]) : sent[c][i] = <<c, i>>
  /\ \A i \in 1 .. Len(tx_pool[c]) : tx_pool[c][i] = <<c, Taken(c) + i>>

(* A chain has transactions of its creator, the first ones up to a number, *)
(* and none of them twice.                                                 *)
Chain(events, c, number) ==
  /\ events \in Seq(Seq(Tx))
  /\ \A k \in 1 .. Len(events) : \A t \in 1 .. Len(events[k]) :
       /\ events[k][t][1] = c /\ events[k][t][2] <= number
       /\ \A l \in 1 .. Len(events) : \A u \in 1 .. Len(events[l]) :
            events[k][t] = events[l][u] => k = l /\ t = u

ChainOK(c) ==
  /\ Chain(formed[c], c, Taken(c))
  /\ decided[c] \in Nat /\ decided[c] < Len(formed[c])

(* The transaction is the number t of event k in the chain of c.           *)
InChain(tx, c, k, t) ==
  /\ c \in Nodes /\ k \in 1 .. Len(formed[c]) /\ t \in 1 .. Len(formed[c][k])
  /\ tx = formed[c][k][t]

(* The log has the transactions of events that are decided or have a       *)
(* further record there, each transaction at one place or of an event with *)
(* a further record.                                                       *)
TxPlaces == {p \in Places : InLog(p) /\ p[3] < EventLength(p)}

AgainOK == \A r \in again : \E c \in Nodes : \E k \in 1 .. Len(formed[c]) : Event(r) = <<c, k>>

FromChains ==
  \A p \in TxPlaces :
    \E c, k, t : InChain(TxAt(p), c, k, t) /\ (k <= decided[c] \/ RecordedAgain(TxAt(p)))

LogOnce == \A p, q \in TxPlaces : TxAt(p) = TxAt(q) => p = q \/ RecordedAgain(TxAt(p))

TransactionsInv ==
  /\ DOMAIN tx_pool = Nodes /\ DOMAIN sent = Nodes
  /\ DOMAIN formed = Nodes /\ DOMAIN decided = Nodes
  /\ \A c \in Nodes : PoolOK(c) /\ ChainOK(c)
  /\ AgainOK
  /\ FromChains
  /\ LogOnce

(* What the invariant means for a consumer.                                *)
LEMMA PerRecord == DeliveryInv /\ LogOnce => ReceivedPerRecord
<1>. SUFFICES ASSUME DeliveryInv, LogOnce, NEW n \in Nodes,
                     NEW i \in DOMAIN delivered[n], NEW j \in DOMAIN delivered[n], i # j
              PROVE  /\ delivered[n][i] # delivered[n][j]
                     /\ TxAt(delivered[n][i]) = TxAt(delivered[n][j])
                          => RecordedAgain(TxAt(delivered[n][i]))
  BY DEF ReceivedPerRecord
<1>. DEFINE d == delivered[n]
<1>1. /\ d \in Seq(Places) /\ Range(d) = {p \in Readable : Precedes(p, At(n))}
      /\ \A k, l \in 1 .. Len(d) : k < l => Precedes(d[k], d[l])
  BY DEF DeliveryInv, WalkOK, Walk
<1>2. Len(d) \in Nat /\ DOMAIN d = 1 .. Len(d) /\ Range(d) = {d[k] : k \in 1 .. Len(d)}
  BY <1>1, LenProperties, RangeEquality
<1>3. /\ d[i] \in TxPlaces /\ d[i] \in Places
      /\ d[j] \in TxPlaces /\ d[j] \in Places
  BY <1>1, <1>2 DEF Readable, TxPlaces
<1>4. d[i] # d[j]
  <2>1. i < j \/ j < i
    BY <1>2
  <2>2. Precedes(d[i], d[j]) \/ Precedes(d[j], d[i])
    BY <1>1, <1>2, <2>1
  <2>. QED  BY <1>3, <2>2, WalkOrder
<1>. QED  BY <1>3, <1>4 DEF LogOnce

-----------------------------------------------------------------------------
(* A frame of the events that are next in the chains, and of further       *)
(* records.                                                                *)

LEMMA SizeProperty ==
  ASSUME NEW size \in Sizes, \A c \in Nodes : ChainOK(c)
  PROVE  /\ size \in [Nodes -> Nat] /\ Cardinality({c \in Nodes : size[c] > 0}) >= 2
         /\ \A c \in Nodes : decided[c] \in Nat /\ decided[c] + size[c] < Len(formed[c])
                              /\ Len(formed[c]) \in Nat
<1>1. ASSUME NEW c \in Nodes PROVE Len(formed[c]) \in Nat
  BY LenProperties DEF ChainOK, Chain
<1>2. size \in [Nodes -> UNION {0 .. Len(formed[c]) : c \in Nodes}]
  BY DEF Sizes
<1>3. ASSUME NEW c \in Nodes PROVE size[c] \in Nat
  <2>1. PICK b \in Nodes : size[c] \in 0 .. Len(formed[b])
    BY <1>2
  <2>. QED  BY <1>1, <2>1
<1>. QED  BY <1>1, <1>2, <1>3 DEF Sizes, ChainOK

LEMMA FormedFinite ==
  ASSUME \A c \in Nodes : Len(formed[c]) \in Nat
  PROVE  IsFiniteSet(FormedEvents)
<1>. DEFINE Of == [c \in Nodes |-> {c} \X (1 .. Len(formed[c]))]
            All == {{c} \X (1 .. Len(formed[c])) : c \in Nodes}
<1>1. Of \in Surjection(Nodes, All)
  <2>1. Of \in [Nodes -> All]
    OBVIOUS
  <2>2. \A x \in All : \E c \in Nodes : Of[c] = x
    OBVIOUS
  <2>. QED  BY <2>1, <2>2 DEF Surjection
<1>2. IsFiniteSet(All)
  <2>. HIDE DEF Of, All
  <2>. QED  BY <1>1, NodesAssumption, FS_Surjection
<1>3. ASSUME NEW c \in Nodes PROVE IsFiniteSet({c} \X (1 .. Len(formed[c])))
  <2>1. 1 \in Int /\ Len(formed[c]) \in Int
    OBVIOUS
  <2>2. IsFiniteSet(1 .. Len(formed[c]))
    BY <2>1, FS_Interval
  <2>3. IsFiniteSet({c})
    BY FS_Singleton
  <2>. QED  BY <2>2, <2>3, FS_Product
<1>4. \A T \in All : IsFiniteSet(T)
  BY <1>3
<1>5. IsFiniteSet(UNION All)
  <2>. HIDE DEF All
  <2>. QED  BY <1>2, <1>4, FS_UNION
<1>. QED  BY <1>5 DEF FormedEvents

(* The records of a new frame are records of formed events, two at least.  *)
LEMMA RecordsOfFrame ==
  ASSUME \A c \in Nodes : ChainOK(c), NEW size \in Sizes, NEW further \in FurtherRecords
  PROVE  LET records == FirstRecords(size) \cup further
         IN  /\ Cardinality(records) \in Nat /\ Cardinality(records) >= 2
             /\ \A r \in records : \E c \in Nodes : \E k \in 1 .. Len(formed[c]) :
                  /\ Event(r) = <<c, k>>
                  /\ \/ r \in further
                     \/ k > decided[c] /\ k <= decided[c] + size[c] /\ r = <<<<c, k>>, 0>>
<1>. DEFINE records == FirstRecords(size) \cup further
            K == {c \in Nodes : size[c] > 0}
<1>1. /\ size \in [Nodes -> Nat] /\ Cardinality(K) >= 2
      /\ \A c \in Nodes : decided[c] \in Nat /\ decided[c] + size[c] < Len(formed[c])
                           /\ Len(formed[c]) \in Nat
  BY SizeProperty
<1>2. ASSUME NEW r \in FirstRecords(size)
      PROVE  \E c \in Nodes : \E k \in 1 .. Len(formed[c]) :
               k > decided[c] /\ k <= decided[c] + size[c] /\ r = <<<<c, k>>, 0>>
  <2>1. PICK c \in Nodes : r \in ({c} \X (decided[c] + 1 .. decided[c] + size[c])) \X {0}
    BY DEF FirstRecords
  <2>2. PICK k \in decided[c] + 1 .. decided[c] + size[c] : r = <<<<c, k>>, 0>>
    BY <2>1
  <2>3. /\ decided[c] \in Nat /\ size[c] \in Nat /\ Len(formed[c]) \in Nat
        /\ decided[c] + size[c] < Len(formed[c])
    BY <1>1
  <2>4. k \in 1 .. Len(formed[c]) /\ k > decided[c] /\ k <= decided[c] + size[c]
    BY <2>3
  <2>. QED  BY <2>2, <2>4
<1>3. ASSUME NEW r \in further
      PROVE  /\ \E c \in Nodes : \E k \in 1 .. Len(formed[c]) : Event(r) = <<c, k>>
             /\ r \in FormedEvents \X (0 .. MaxAgain)
  <2>1. r \in FormedEvents \X (1 .. MaxAgain)
    BY DEF FurtherRecords
  <2>2. Event(r) \in FormedEvents /\ r \in FormedEvents \X (0 .. MaxAgain)
    <3>1. MaxAgain \in Nat
      BY RecordsAssumption
    <3>. QED  BY <2>1, <3>1 DEF Event
  <2>3. PICK c \in Nodes : Event(r) \in {c} \X (1 .. Len(formed[c]))
    BY <2>2 DEF FormedEvents
  <2>. QED  BY <2>2, <2>3
<1>4. ASSUME NEW r \in records
      PROVE  \E c \in Nodes : \E k \in 1 .. Len(formed[c]) :
               /\ Event(r) = <<c, k>>
               /\ \/ r \in further
                  \/ k > decided[c] /\ k <= decided[c] + size[c] /\ r = <<<<c, k>>, 0>>
  <2>1. CASE r \in further
    BY <1>3, <2>1
  <2>2. CASE r \in FirstRecords(size)
    BY <1>2, <2>2 DEF Event
  <2>. QED  BY <2>1, <2>2
<1>5. IsFiniteSet(records)
  <2>1. IsFiniteSet(FormedEvents)
    BY <1>1, FormedFinite
  <2>2. IsFiniteSet(0 .. MaxAgain)
    <3>1. 0 \in Int /\ MaxAgain \in Int
      BY RecordsAssumption
    <3>. QED  BY <3>1, FS_Interval
  <2>3. IsFiniteSet(FormedEvents \X (0 .. MaxAgain))
    BY <2>1, <2>2, FS_Product
  <2>4. ASSUME NEW r \in FirstRecords(size) PROVE r \in FormedEvents \X (0 .. MaxAgain)
    <3>1. PICK c, k :
            /\ c \in Nodes /\ k \in 1 .. Len(formed[c])
            /\ r = <<<<c, k>>, 0>>
      BY <1>2
    <3>2. <<c, k>> \in FormedEvents
      BY <3>1 DEF FormedEvents
    <3>3. 0 \in 0 .. MaxAgain
      BY RecordsAssumption
    <3>. QED  BY <3>1, <3>2, <3>3
  <2>5. records \in SUBSET (FormedEvents \X (0 .. MaxAgain))
    BY <1>3, <2>4
  <2>. HIDE DEF records
  <2>. QED  BY <2>3, <2>5, FS_Subset
<1>6. PICK a \in K, b \in K : a # b
  <2>1. IsFiniteSet(K)
    <3>1. K \in SUBSET Nodes
      OBVIOUS
    <3>. HIDE DEF K
    <3>. QED  BY <3>1, NodesAssumption, FS_Subset
  <2>2. Cardinality(K) >= 2
    BY <1>1
  <2>. HIDE DEF K
  <2>3. K # {}
    BY <2>2, FS_EmptySet
  <2>4. PICK a \in K : TRUE
    BY <2>3
  <2>5. K # {a}
    BY <2>2, FS_Singleton, SMTT(30)
  <2>. QED  BY <2>4, <2>5
<1>. DEFINE First(c) == <<<<c, decided[c] + 1>>, 0>>
<1>7. First(a) \in records /\ First(b) \in records
  <2>1. ASSUME NEW c \in K PROVE First(c) \in FirstRecords(size)
    <3>1. c \in Nodes /\ decided[c] + 1 \in decided[c] + 1 .. decided[c] + size[c]
      <4>1. c \in Nodes /\ decided[c] \in Nat /\ size[c] \in Nat /\ size[c] > 0
        BY <1>1
      <4>. QED  BY <4>1
    <3>2. First(c) \in ({c} \X (decided[c] + 1 .. decided[c] + size[c])) \X {0}
      BY <3>1
    <3>. QED  BY <3>1, <3>2 DEF FirstRecords
  <2>. QED  BY <2>1
<1>8. Cardinality({First(a), First(b)}) = 2
  <2>1. IsFiniteSet({First(a)}) /\ Cardinality({First(a)}) = 1
    BY FS_Singleton
  <2>2. First(b) \notin {First(a)} /\ {First(a)} \cup {First(b)} = {First(a), First(b)}
    BY <1>6
  <2>3. Cardinality({First(a)} \cup {First(b)}) = 1 + 1
    BY <2>1, <2>2, FS_AddElement
  <2>. QED  BY <2>2, <2>3
<1>9. Cardinality(records) \in Nat /\ Cardinality({First(a), First(b)}) <= Cardinality(records)
  <2>1. {First(a), First(b)} \in SUBSET records
    BY <1>7
  <2>. HIDE DEF records, First
  <2>. QED  BY <1>5, <2>1, FS_Subset, FS_CardinalityType
<1>. QED  BY <1>4, <1>8, <1>9

(* Where the events of a new frame come from. *)
LEMMA NewFrame ==
  ASSUME \A c \in Nodes : ChainOK(c), NEW size \in Sizes, NEW further \in FurtherRecords,
         NEW order \in Orders(FirstRecords(size) \cup further), NEW fr, fr = FrameInOrder(order)
  PROVE  /\ IsFrame(fr) /\ Len(fr) \in Nat
         /\ \A i \in 1 .. Len(fr) : \E c \in Nodes : \E k \in 1 .. Len(formed[c]) :
              /\ fr[i] = formed[c][k] /\ Event(order[i]) = <<c, k>>
              /\ \/ order[i] \in further
                 \/ k > decided[c] /\ k <= decided[c] + size[c] /\ order[i] = <<<<c, k>>, 0>>
         /\ \A i, j \in 1 .. Len(fr) : i # j => order[i] # order[j]
<1>. DEFINE records == FirstRecords(size) \cup further
<1>1. PICK total : total = Cardinality(records)
  OBVIOUS
<1>2. /\ total \in Nat /\ total >= 2
      /\ \A r \in records : \E c \in Nodes : \E k \in 1 .. Len(formed[c]) :
           /\ Event(r) = <<c, k>>
           /\ \/ r \in further
              \/ k > decided[c] /\ k <= decided[c] + size[c] /\ r = <<<<c, k>>, 0>>
  BY <1>1, RecordsOfFrame
<1>3. order \in [1 .. total -> records] /\ \A i, j \in 1 .. total : i # j => order[i] # order[j]
  BY <1>1 DEF Orders, SetToSeqs
<1>. HIDE DEF records
<1>4. fr = [i \in 1 .. total |-> formed[Event(order[i])[1]][Event(order[i])[2]]]
  BY <1>3 DEF FrameInOrder
<1>5. ASSUME NEW i \in 1 .. total
      PROVE  /\ fr[i] \in Seq(Tx)
             /\ \E c \in Nodes : \E k \in 1 .. Len(formed[c]) :
                  /\ fr[i] = formed[c][k] /\ Event(order[i]) = <<c, k>>
                  /\ \/ order[i] \in further
                     \/ /\ k > decided[c] /\ k <= decided[c] + size[c]
                        /\ order[i] = <<<<c, k>>, 0>>
  <2>1. order[i] \in records
    BY <1>3
  <2>2. PICK c, k :
          /\ c \in Nodes /\ k \in 1 .. Len(formed[c])
          /\ Event(order[i]) = <<c, k>>
          /\ \/ order[i] \in further
             \/ k > decided[c] /\ k <= decided[c] + size[c] /\ order[i] = <<<<c, k>>, 0>>
    BY <1>2, <2>1
  <2>3. fr[i] = formed[c][k]
    BY <1>4, <2>2
  <2>4. fr[i] \in Seq(Tx)
    <3>1. formed[c] \in Seq(Seq(Tx))
      BY <2>2 DEF ChainOK, Chain
    <3>. QED  BY <2>2, <2>3, <3>1, ElementOfSeq
  <2>. QED  BY <2>2, <2>3, <2>4
<1>6. fr \in Seq(Seq(Tx)) /\ Len(fr) = total
  <2>1. \A i \in 1 .. total : fr[i] \in Seq(Tx)
    BY <1>5
  <2>2. fr \in [1 .. total -> Seq(Tx)]
    BY <1>4, <2>1
  <2>. QED  BY <1>2, <2>2
<1>7. IsFrame(fr)
  <2>1. fr \in Seq(Range(fr))
    BY <1>6, SeqOfRange
  <2>2. Range(fr) \subseteq Seq(Tx)
    BY <1>6, RangeOfSeq
  <2>3. \A event \in Range(fr) : event \in Seq(Range(event))
    BY <2>2, SeqOfRange
  <2>. QED  BY <1>2, <1>6, <2>1, <2>3 DEF IsFrame
<1>. QED  BY <1>2, <1>3, <1>5, <1>6, <1>7

-----------------------------------------------------------------------------
(* The steps of a transaction. *)

(* Events keep their content, and once recorded again, always so.          *)
LEMMA AgainKept ==
  ASSUME AgainOK, again \subseteq again', NEW tx, RecordedAgain(tx),
         \A c \in Nodes : \A k \in 1 .. Len(formed[c]) : formed'[c][k] = formed[c][k]
  PROVE  RecordedAgain(tx)'
<1>1. PICK r \in again : tx \in Range(formed[Event(r)[1]][Event(r)[2]])
  BY DEF RecordedAgain
<1>2. PICK c, k :
        /\ c \in Nodes /\ k \in 1 .. Len(formed[c])
        /\ Event(r) = <<c, k>>
  BY DEF AgainOK
<1>3. tx \in Range(formed'[c][k])
  BY <1>1, <1>2
<1>4. tx \in Range(formed'[Event(r)[1]][Event(r)[2]])
  BY <1>2, <1>3
<1>. QED  BY <1>4 DEF RecordedAgain, Event

(* The properties of the log do not depend on the consumers.               *)
LEMMA LogKept ==
  ASSUME UNCHANGED <<log, decided, again>>, LogOnce, FromChains, AgainOK,
         \A c \in Nodes : \A k \in 1 .. Len(formed[c]) :
           k \in 1 .. Len(formed'[c]) /\ formed'[c][k] = formed[c][k]
  PROVE  LogOnce' /\ FromChains' /\ AgainOK'
<1>1. TxPlaces' = TxPlaces /\ \A p \in TxPlaces : TxAt(p)' = TxAt(p)
  BY DEF TxPlaces, InLog, EventLength, TxAt
<1>2. ASSUME NEW tx, RecordedAgain(tx) PROVE RecordedAgain(tx)'
  BY <1>2, AgainKept
<1>3. LogOnce'
  <2>. SUFFICES ASSUME NEW p \in TxPlaces, NEW q \in TxPlaces, TxAt(p) = TxAt(q), p # q
                PROVE  RecordedAgain(TxAt(p))'
    BY <1>1 DEF LogOnce, TxAt
  <2>1. PICK tx : tx = TxAt(p)
    OBVIOUS
  <2>2. RecordedAgain(tx)
    BY <2>1 DEF LogOnce
  <2>3. RecordedAgain(tx)'
    BY <1>2, <2>2
  <2>. QED  BY <1>1, <2>1, <2>3 DEF RecordedAgain
<1>4. ASSUME NEW p \in TxPlaces
      PROVE  \E c, k, t : InChain(TxAt(p), c, k, t)'
                            /\ (k <= decided'[c] \/ RecordedAgain(TxAt(p))')
  <2>1. PICK tx : tx = TxAt(p) /\ tx = TxAt(p)'
    BY <1>1
  <2>2. PICK c, k, t : InChain(tx, c, k, t) /\ (k <= decided[c] \/ RecordedAgain(tx))
    BY <2>1 DEF FromChains
  <2>3. InChain(tx, c, k, t)'
    BY <2>2 DEF InChain
  <2>4. k <= decided'[c] \/ RecordedAgain(tx)'
    BY <1>2, <2>2
  <2>5. RecordedAgain(TxAt(p))' <=> RecordedAgain(tx)'
    BY <2>1 DEF RecordedAgain
  <2>6. InChain(TxAt(p), c, k, t)'
    BY <2>1, <2>3 DEF InChain
  <2>. QED  BY <2>4, <2>5, <2>6
<1>5. FromChains'
  BY <1>1, <1>4 DEF FromChains
<1>6. AgainOK'
  <2>. SUFFICES ASSUME NEW r \in again
                PROVE  \E c \in Nodes : \E k \in 1 .. Len(formed'[c]) : Event(r) = <<c, k>>
    BY DEF AgainOK, Event
  <2>1. PICK c, k :
          /\ c \in Nodes /\ k \in 1 .. Len(formed[c])
          /\ Event(r) = <<c, k>>
    BY DEF AgainOK
  <2>. QED  BY <2>1
<1>. QED  BY <1>3, <1>5, <1>6

LEMMA TransactionsInitial == TransactionsInit => TransactionsInv
<1>. SUFFICES ASSUME TransactionsInit PROVE TransactionsInv
  OBVIOUS
<1>1. ASSUME NEW c \in Nodes PROVE PoolOK(c) /\ ChainOK(c)
  <2>1. sent[c] = <<>> /\ tx_pool[c] = <<>> /\ formed[c] = << <<>> >> /\ decided[c] = 0
    BY DEF TransactionsInit
  <2>2. PoolOK(c)
    BY <2>1 DEF PoolOK
  <2>3. /\ Len(formed[c]) = 1 /\ Len(formed[c][1]) = 0 /\ formed[c] \in Seq(Seq(Tx))
    BY <2>1
  <2>. QED  BY <2>1, <2>2, <2>3 DEF ChainOK, Chain
<1>2. TxPlaces = {}
  <2>1. log = <<>> /\ Len(log) = 0
    BY DEF TransactionsInit, DeliveryInit
  <2>. QED  BY <2>1, GroupNat DEF TxPlaces, InLog
<1>3. FromChains /\ LogOnce /\ AgainOK
  BY <1>2 DEF FromChains, LogOnce, AgainOK, TransactionsInit
<1>. QED  BY <1>1, <1>3 DEF TransactionsInit, TransactionsInv

LEMMA SendKeeps ==
  ASSUME NEW n \in Nodes, TransactionsInv, send_transaction(n)
  PROVE  TransactionsInv'
<1>. USE DEF TransactionsInv
<1>. DEFINE tx == <<n, Len(sent[n]) + 1>>
<1>1. /\ tx_pool' = [tx_pool EXCEPT ![n] = Append(@, tx)]
      /\ sent' = [sent EXCEPT ![n] = Append(@, tx)]
      /\ UNCHANGED <<log, formed, decided, again>>
  BY DEF send_transaction, dvars
<1>2. ASSUME NEW c \in Nodes PROVE PoolOK(c)' /\ Taken(c)' = Taken(c)
  <2>1. /\ sent[c] \in Seq(Tx) /\ tx_pool[c] \in Seq(Tx) /\ Len(sent[c]) \in Nat
        /\ Len(tx_pool[c]) \in Nat /\ Len(tx_pool[c]) <= Len(sent[c])
        /\ \A i \in 1 .. Len(sent[c]) : sent[c][i] = <<c, i>>
        /\ \A i \in 1 .. Len(tx_pool[c]) : tx_pool[c][i] = <<c, Taken(c) + i>>
    BY LenProperties DEF PoolOK
  <2>2. CASE c # n
    <3>1. sent'[c] = sent[c] /\ tx_pool'[c] = tx_pool[c]
      BY <1>1, <2>2
    <3>. QED  BY <2>1, <3>1 DEF PoolOK, Taken
  <2>3. CASE c = n
    <3>1. sent'[c] = Append(sent[c], tx) /\ tx_pool'[c] = Append(tx_pool[c], tx) /\ tx \in Tx
      BY <1>1, <2>1, <2>3 DEF Tx
    <3>. HIDE DEF tx
    <3>2. /\ sent'[c] \in Seq(Tx) /\ Len(sent'[c]) = Len(sent[c]) + 1
          /\ \A i \in 1 .. Len(sent[c]) : sent'[c][i] = sent[c][i]
          /\ sent'[c][Len(sent[c]) + 1] = tx
      BY <2>1, <3>1, AppendProperties
    <3>3. /\ tx_pool'[c] \in Seq(Tx) /\ Len(tx_pool'[c]) = Len(tx_pool[c]) + 1
          /\ \A i \in 1 .. Len(tx_pool[c]) : tx_pool'[c][i] = tx_pool[c][i]
          /\ tx_pool'[c][Len(tx_pool[c]) + 1] = tx
      BY <2>1, <3>1, AppendProperties
    <3>4. Taken(c)' = Taken(c) /\ Taken(c) \in Int
      BY <2>1, <3>2, <3>3 DEF Taken
    <3>5. ASSUME NEW i \in 1 .. (Len(sent[c]) + 1) PROVE sent'[c][i] = <<c, i>>
      <4>1. CASE i = Len(sent[c]) + 1
        BY <2>3, <3>2, <4>1 DEF tx
      <4>2. CASE i # Len(sent[c]) + 1
        <5>1. i \in 1 .. Len(sent[c])
          BY <2>1, <4>2
        <5>. QED  BY <2>1, <3>2, <5>1
      <4>. QED  BY <4>1, <4>2
    <3>6. ASSUME NEW i \in 1 .. (Len(tx_pool[c]) + 1) PROVE tx_pool'[c][i] = <<c, Taken(c) + i>>
      <4>1. CASE i = Len(tx_pool[c]) + 1
        <5>1. Taken(c) + i = Len(sent[c]) + 1
          BY <2>1, <4>1 DEF Taken
        <5>. QED  BY <2>3, <3>3, <4>1, <5>1 DEF tx
      <4>2. CASE i # Len(tx_pool[c]) + 1
        <5>1. i \in 1 .. Len(tx_pool[c])
          BY <2>1, <4>2
        <5>. QED  BY <2>1, <3>3, <5>1
      <4>. QED  BY <4>1, <4>2
    <3>7. Len(tx_pool'[c]) <= Len(sent'[c])
      BY <2>1, <3>2, <3>3
    <3>. QED  BY <3>2, <3>3, <3>4, <3>5, <3>6, <3>7 DEF PoolOK
  <2>. QED  BY <2>2, <2>3
<1>3. ASSUME NEW c \in Nodes PROVE ChainOK(c)'
  <2>1. ChainOK(c) /\ Taken(c)' = Taken(c) /\ formed' = formed /\ decided' = decided
    BY <1>1, <1>2
  <2>. QED  BY <2>1 DEF ChainOK
<1>4. LogOnce' /\ FromChains' /\ AgainOK'
  BY <1>1, LogKept
<1>. QED  BY <1>1, <1>2, <1>3, <1>4

(* The head of the pool that goes into an event, and what is left.         *)
LEMMA TakeProperty ==
  ASSUME NEW S, NEW pool \in Seq(S)
  PROVE  LET next == next_transactions(pool)
         IN  /\ next.taken \in Seq(S) /\ next.kept \in Seq(S)
             /\ Len(next.taken) + Len(next.kept) = Len(pool)
             /\ \A i \in 1 .. Len(next.taken) : next.taken[i] = pool[i]
             /\ \A i \in 1 .. Len(next.kept) : next.kept[i] = pool[Len(next.taken) + i]
             /\ next.taken \o next.kept = pool
<1>1. Len(pool) \in Nat /\ TakenLength(pool) \in Nat /\ TakenLength(pool) <= Len(pool)
  BY LenProperties, LimitAssumption DEF TakenLength
<1>. DEFINE T == SubSeq(pool, 1, TakenLength(pool))
            K == SubSeq(pool, TakenLength(pool) + 1, Len(pool))
<1>2. next_transactions(pool).taken = T /\ next_transactions(pool).kept = K
  BY DEF next_transactions
<1>3. T \in Seq(S) /\ Len(T) = TakenLength(pool) /\ \A i \in 1 .. Len(T) : T[i] = pool[i]
  BY <1>1
<1>4. K \in Seq(S) /\ Len(K) = Len(pool) - TakenLength(pool)
      /\ \A i \in 1 .. Len(K) : K[i] = pool[TakenLength(pool) + i]
  BY <1>1
<1>. HIDE DEF T, K
<1>5. T \o K = pool
  <2>1. T \o K \in Seq(S) /\ Len(T \o K) = Len(pool)
    BY <1>1, <1>3, <1>4, ConcatProperties
  <2>2. ASSUME NEW i \in 1 .. Len(pool) PROVE (T \o K)[i] = pool[i]
    <3>1. (T \o K)[i] = IF i <= Len(T) THEN T[i] ELSE K[i - Len(T)]
      BY <1>1, <1>3, <1>4, <2>1, ConcatProperties
    <3>2. CASE i <= Len(T)
      BY <1>1, <1>3, <3>1, <3>2
    <3>3. CASE ~ (i <= Len(T))
      <4>1. i - Len(T) \in 1 .. Len(K) /\ TakenLength(pool) + (i - Len(T)) = i
        BY <1>1, <1>3, <1>4, <3>3
      <4>. QED  BY <1>4, <3>1, <3>3, <4>1
    <3>. QED  BY <3>2, <3>3
  <2>. QED  BY <2>1, <2>2, SeqEqual
<1>. QED  BY <1>1, <1>2, <1>3, <1>4, <1>5

LEMMA FormKeeps ==
  ASSUME NEW n \in Nodes, TransactionsInv, FormEvent(n)
  PROVE  TransactionsInv'
<1>0. PICK pool, taken, kept :
        /\ pool = tx_pool[n]
        /\ taken = next_transactions(tx_pool[n]).taken
        /\ kept = next_transactions(tx_pool[n]).kept
  OBVIOUS
<1>1. /\ tx_pool' = [tx_pool EXCEPT ![n] = kept]
      /\ formed' = [formed EXCEPT ![n] = Append(@, taken)]
      /\ UNCHANGED <<log, sent, decided, again>>
  BY <1>0 DEF FormEvent, dvars
<1>2. /\ \A c \in Nodes : PoolOK(c) /\ ChainOK(c)
      /\ DOMAIN tx_pool = Nodes /\ DOMAIN sent = Nodes
      /\ DOMAIN formed = Nodes /\ DOMAIN decided = Nodes
      /\ AgainOK /\ LogOnce /\ FromChains
  BY DEF TransactionsInv
<1>3. /\ pool \in Seq(Tx) /\ Len(pool) \in Nat
      /\ sent[n] \in Seq(Tx) /\ Len(sent[n]) \in Nat /\ Len(pool) <= Len(sent[n])
      /\ \A i \in 1 .. Len(pool) : pool[i] = <<n, Taken(n) + i>>
      /\ Taken(n) = Len(sent[n]) - Len(pool) /\ Taken(n) \in Nat
  <2>1. /\ pool \in Seq(Tx) /\ sent[n] \in Seq(Tx) /\ Len(pool) <= Len(sent[n])
        /\ \A i \in 1 .. Len(pool) : pool[i] = <<n, Taken(n) + i>>
    BY <1>0, <1>2 DEF PoolOK
  <2>2. Len(pool) \in Nat /\ Len(sent[n]) \in Nat
    BY <2>1, LenProperties
  <2>3. Taken(n) = Len(sent[n]) - Len(pool)
    BY <1>0 DEF Taken
  <2>4. Taken(n) \in Nat
    BY <2>1, <2>2, <2>3
  <2>. QED  BY <2>1, <2>2, <2>3, <2>4
<1>4. /\ taken \in Seq(Tx) /\ kept \in Seq(Tx) /\ Len(taken) \in Nat /\ Len(kept) \in Nat
      /\ Len(taken) + Len(kept) = Len(pool)
      /\ \A i \in 1 .. Len(taken) : taken[i] = pool[i]
      /\ \A i \in 1 .. Len(kept) : kept[i] = pool[Len(taken) + i]
  BY <1>0, <1>3, TakeProperty, LenProperties
<1>5. tx_pool'[n] = kept /\ formed'[n] = Append(formed[n], taken)
      /\ sent'[n] = sent[n] /\ decided'[n] = decided[n]
  BY <1>1, <1>2
<1>6. Taken(n)' = Taken(n) + Len(taken)
  <2>1. Taken(n)' = Len(sent[n]) - Len(kept)
    BY <1>5 DEF Taken
  <2>2. /\ Len(pool) \in Nat /\ Len(taken) \in Nat /\ Len(kept) \in Nat /\ Len(sent[n]) \in Nat
        /\ Len(taken) + Len(kept) = Len(pool) /\ Taken(n) = Len(sent[n]) - Len(pool)
    BY <1>3, <1>4
  <2>. QED  BY <2>1, <2>2
<1>7. PoolOK(n)'
  <2>1. ASSUME NEW i \in 1 .. Len(kept) PROVE kept[i] = <<n, Taken(n)' + i>>
    <3>1. Len(taken) + i \in 1 .. Len(pool) /\ Taken(n) + (Len(taken) + i) = Taken(n)' + i
      <4>1. Len(pool) \in Nat /\ Len(taken) \in Nat /\ Len(kept) \in Nat /\ Taken(n) \in Nat
            /\ Len(taken) + Len(kept) = Len(pool) /\ Taken(n)' = Taken(n) + Len(taken)
        BY <1>3, <1>4, <1>6
      <4>. QED  BY <4>1
    <3>2. pool[Len(taken) + i] = <<n, Taken(n) + (Len(taken) + i)>>
      BY <1>3, <3>1
    <3>. QED  BY <1>4, <3>1, <3>2
  <2>2. Len(kept) <= Len(sent[n])
    <3>1. Len(pool) \in Nat /\ Len(taken) \in Nat /\ Len(kept) \in Nat /\ Len(sent[n]) \in Nat
          /\ Len(taken) + Len(kept) = Len(pool) /\ Len(pool) <= Len(sent[n])
      BY <1>3, <1>4
    <3>. QED  BY <3>1
  <2>3. \A i \in 1 .. Len(sent[n]) : sent[n][i] = <<n, i>>
    BY <1>2 DEF PoolOK
  <2>. QED  BY <1>3, <1>4, <1>5, <2>1, <2>2, <2>3 DEF PoolOK
<1>8. ChainOK(n)'
  <2>0. PICK old, new : old = formed[n] /\ new = formed'[n]
    OBVIOUS
  <2>1. /\ old \in Seq(Seq(Tx)) /\ decided[n] \in Nat /\ decided[n] < Len(old) /\ Len(old) \in Nat
        /\ \A k \in 1 .. Len(old) : \A t \in 1 .. Len(old[k]) :
             /\ old[k][t][1] = n /\ old[k][t][2] <= Taken(n)
             /\ \A l \in 1 .. Len(old) : \A u \in 1 .. Len(old[l]) :
                  old[k][t] = old[l][u] => k = l /\ t = u
    <3>1. old \in Seq(Seq(Tx))
      BY <1>2, <2>0 DEF ChainOK, Chain
    <3>2. Len(old) \in Nat
      BY <3>1, LenProperties
    <3>3. Chain(old, n, Taken(n)) /\ decided[n] \in Nat /\ decided[n] < Len(old)
      BY <1>2, <2>0 DEF ChainOK
    <3>. QED  BY <3>1, <3>2, <3>3 DEF Chain
  <2>2. /\ new \in Seq(Seq(Tx)) /\ Len(new) = Len(old) + 1
        /\ \A k \in 1 .. Len(old) : new[k] = old[k]
        /\ new[Len(old) + 1] = taken
    BY <1>4, <1>5, <2>0, <2>1, AppendProperties
  <2>3. \A k \in 1 .. Len(old) : \A t \in 1 .. Len(old[k]) : old[k][t] \in Tx
    BY <2>1, ElementOfSeq
  <2>4. \A t \in 1 .. Len(taken) : taken[t] = <<n, Taken(n) + t>>
    <3>1. \A t \in 1 .. Len(taken) : t \in 1 .. Len(pool)
      <4>1. Len(pool) \in Nat /\ Len(taken) \in Nat /\ Len(kept) \in Nat
            /\ Len(taken) + Len(kept) = Len(pool)
        BY <1>3, <1>4
      <4>. QED  BY <4>1
    <3>. QED  BY <1>3, <1>4, <3>1
  <2>5. ASSUME NEW k \in 1 .. Len(new), NEW t \in 1 .. Len(new[k])
        PROVE  new[k][t][1] = n /\ new[k][t][2] <= Taken(n)' /\ new[k][t][2] \in Nat
    <3>1. CASE k \in 1 .. Len(old)
      <4>1. new[k][t][1] = n /\ new[k][t][2] <= Taken(n) /\ new[k][t][2] \in Nat
        <5>1. new[k] = old[k] /\ t \in 1 .. Len(old[k])
          BY <2>2, <3>1
        <5>2. old[k][t] \in Tx /\ old[k][t][1] = n /\ old[k][t][2] <= Taken(n)
          BY <2>1, <2>3, <3>1, <5>1
        <5>. QED  BY <5>1, <5>2 DEF Tx
      <4>. QED  BY <1>3, <1>4, <1>6, <4>1, SMTT(30)
    <3>2. CASE k = Len(old) + 1
      <4>1. t \in 1 .. Len(taken) /\ new[k][t] = <<n, Taken(n) + t>>
        BY <2>2, <2>4, <3>2
      <4>. QED  BY <1>3, <1>4, <1>6, <4>1
    <3>. QED  BY <2>1, <2>2, <3>1, <3>2
  <2>6. ASSUME NEW k \in 1 .. Len(old), NEW t \in 1 .. Len(new[k]),
               NEW u \in 1 .. Len(taken), new[k][t] = taken[u]
        PROVE  FALSE
    <3>1. new[k][t][2] <= Taken(n)
      BY <2>1, <2>2
    <3>2. taken[u][2] = Taken(n) + u
      BY <2>4
    <3>. QED  BY <1>3, <1>4, <2>6, <3>1, <3>2
  <2>7. ASSUME NEW k \in 1 .. Len(new), NEW t \in 1 .. Len(new[k]),
               NEW l \in 1 .. Len(new), NEW u \in 1 .. Len(new[l]), new[k][t] = new[l][u]
        PROVE  k = l /\ t = u
    <3>1. CASE k \in 1 .. Len(old) /\ l \in 1 .. Len(old)
      <4>1. new[k] = old[k] /\ new[l] = old[l]
        BY <2>2, <3>1
      <4>2. t \in 1 .. Len(old[k]) /\ u \in 1 .. Len(old[l]) /\ old[k][t] = old[l][u]
        BY <2>7, <4>1
      <4>. QED  BY <2>1, <3>1, <4>2
    <3>2. CASE k \in 1 .. Len(old) /\ l = Len(old) + 1
      BY <2>2, <2>6, <2>7, <3>2
    <3>3. CASE k = Len(old) + 1 /\ l \in 1 .. Len(old)
      BY <2>2, <2>6, <2>7, <3>3
    <3>4. CASE k = Len(old) + 1 /\ l = Len(old) + 1
      <4>1. t \in 1 .. Len(taken) /\ u \in 1 .. Len(taken) /\ taken[t] = taken[u]
        BY <2>2, <2>7, <3>4
      <4>2. Taken(n) + t = Taken(n) + u
        BY <2>4, <4>1
      <4>. QED  BY <1>3, <1>4, <3>4, <4>1, <4>2
    <3>. QED  BY <2>1, <2>2, <3>1, <3>2, <3>3, <3>4, SMTT(30)
  <2>8. decided[n] < Len(new)
    BY <2>1, <2>2
  <2>9. Chain(new, n, Taken(n)')
    BY <2>2, <2>5, <2>7 DEF Chain
  <2>. QED  BY <1>5, <2>0, <2>1, <2>8, <2>9 DEF ChainOK
<1>9. ASSUME NEW c \in Nodes, c # n PROVE PoolOK(c)' /\ ChainOK(c)'
  <2>1. tx_pool'[c] = tx_pool[c] /\ formed'[c] = formed[c] /\ sent'[c] = sent[c]
        /\ decided'[c] = decided[c]
    BY <1>1, <1>2, <1>9
  <2>2. Taken(c)' = Taken(c)
    BY <2>1 DEF Taken
  <2>3. PoolOK(c)'
    BY <1>2, <2>1, <2>2 DEF PoolOK
  <2>4. ChainOK(c)'
    BY <1>2, <2>1, <2>2 DEF ChainOK
  <2>. QED  BY <2>3, <2>4
<1>10. LogOnce' /\ FromChains' /\ AgainOK'
  <2>1. ASSUME NEW c \in Nodes, NEW k \in 1 .. Len(formed[c])
        PROVE  k \in 1 .. Len(formed'[c]) /\ formed'[c][k] = formed[c][k]
    <3>1. formed[c] \in Seq(Seq(Tx)) /\ Len(formed[c]) \in Nat
      <4>1. formed[c] \in Seq(Seq(Tx))
        BY <1>2 DEF ChainOK, Chain
      <4>. QED  BY <4>1, LenProperties
    <3>2. formed'[c] = formed[c] \/ formed'[c] = Append(formed[c], taken)
      BY <1>1, <1>2
    <3>3. /\ Append(formed[c], taken)[k] = formed[c][k]
          /\ Len(Append(formed[c], taken)) = Len(formed[c]) + 1
      BY <1>4, <3>1, AppendProperties
    <3>4. k \in 1 .. (Len(formed[c]) + 1)
      BY <3>1
    <3>. QED  BY <3>2, <3>3, <3>4
  <2>. QED  BY <1>1, <1>2, <2>1, LogKept
<1>11. /\ DOMAIN tx_pool' = Nodes /\ DOMAIN sent' = Nodes
       /\ DOMAIN formed' = Nodes /\ DOMAIN decided' = Nodes
  BY <1>1, <1>2
<1>. QED  BY <1>7, <1>8, <1>9, <1>10, <1>11 DEF TransactionsInv

(* Steps that leave the transactions where they are. *)
LEMMA TransactionsKept ==
  ASSUME TransactionsInv, UNCHANGED <<log, tx_pool, sent, formed, decided, again>>
  PROVE  TransactionsInv'
<1>1. LogOnce' /\ FromChains' /\ AgainOK'
  BY LogKept DEF TransactionsInv
<1>2. ASSUME NEW c \in Nodes PROVE PoolOK(c)' /\ ChainOK(c)'
  <2>1. Taken(c)' = Taken(c)
    BY DEF Taken
  <2>2. PoolOK(c) /\ ChainOK(c)
    BY DEF TransactionsInv
  <2>3. PoolOK(c)'
    BY <2>1, <2>2 DEF PoolOK
  <2>4. ChainOK(c)'
    BY <2>1, <2>2 DEF ChainOK
  <2>. QED  BY <2>3, <2>4
<1>. QED  BY <1>1, <1>2 DEF TransactionsInv

LEMMA ChainCreator ==
  ASSUME NEW c \in Nodes, ChainOK(c),
         NEW k \in 1 .. Len(formed[c]), NEW t \in 1 .. Len(formed[c][k])
  PROVE  formed[c][k][t][1] = c
BY DEF ChainOK, Chain

LEMMA ChainOnce ==
  ASSUME NEW c \in Nodes, ChainOK(c),
         NEW k \in 1 .. Len(formed[c]), NEW t \in 1 .. Len(formed[c][k]),
         NEW l \in 1 .. Len(formed[c]), NEW u \in 1 .. Len(formed[c][l]),
         formed[c][k][t] = formed[c][l][u]
  PROVE  k = l /\ t = u
BY SMTT(30) DEF ChainOK, Chain

(* A transaction is at one place of the chains. *)
LEMMA ChainPlaceOnce ==
  ASSUME \A c \in Nodes : ChainOK(c), NEW tx, NEW c, NEW k, NEW t, NEW b, NEW l, NEW u,
         InChain(tx, c, k, t), InChain(tx, b, l, u)
  PROVE  b = c /\ k = l /\ t = u
<1>1. /\ c \in Nodes /\ k \in 1 .. Len(formed[c]) /\ t \in 1 .. Len(formed[c][k])
      /\ b \in Nodes /\ l \in 1 .. Len(formed[b]) /\ u \in 1 .. Len(formed[b][l])
      /\ formed[c][k][t] = formed[b][l][u]
  BY DEF InChain
<1>2. formed[c][k][t][1] = c /\ formed[b][l][u][1] = b
  BY <1>1, ChainCreator, Zenon
<1>3. b = c
  BY <1>1, <1>2
<1>4. /\ ChainOK(c) /\ l \in 1 .. Len(formed[c]) /\ u \in 1 .. Len(formed[c][l])
      /\ formed[c][k][t] = formed[c][l][u]
  BY <1>1, <1>3
<1>. QED  BY <1>1, <1>3, <1>4, ChainOnce, ZenonT(40)

(* A new frame: its transactions come from events that were not in the log *)
(* yet, each event once, but for those with a further record.              *)
LEMMA NewFrameOnce ==
  ASSUME TransactionsInv, LogOK, NEW size \in Sizes, NEW further \in FurtherRecords,
         NEW order \in Orders(FirstRecords(size) \cup further),
         log' = Append(log, FrameInOrder(order)), formed' = formed,
         decided' = [c \in Nodes |-> decided[c] + size[c]], again' = again \cup further
  PROVE  FromChains' /\ LogOnce' /\ AgainOK'
<1>0. PICK fr : fr = FrameInOrder(order)
  OBVIOUS
<1>1. /\ \A c \in Nodes : ChainOK(c)
      /\ FromChains /\ LogOnce /\ AgainOK
  BY DEF TransactionsInv
<1>2. /\ IsFrame(fr) /\ Len(fr) \in Nat
      /\ \A i \in 1 .. Len(fr) : \E c \in Nodes : \E k \in 1 .. Len(formed[c]) :
           /\ fr[i] = formed[c][k] /\ Event(order[i]) = <<c, k>>
           /\ \/ order[i] \in further
              \/ k > decided[c] /\ k <= decided[c] + size[c] /\ order[i] = <<<<c, k>>, 0>>
      /\ \A i, j \in 1 .. Len(fr) : i # j => order[i] # order[j]
  BY <1>0, <1>1, NewFrame
<1>3. /\ Len(log) \in Nat /\ log' \in Seq(Range(log) \cup {fr}) /\ Len(log') = Len(log) + 1
      /\ \A f \in 1 .. Len(log) : log'[f] = log[f]
      /\ log'[Len(log) + 1] = fr
  <2>1. log \in Seq(Range(log) \cup {fr})
    BY SeqMonotonic DEF LogOK
  <2>. QED  BY <1>0, <2>1, LenProperties, AppendProperties
<1>4. \A c \in Nodes : decided[c] \in Nat /\ size[c] \in Nat
        /\ decided'[c] = decided[c] + size[c]
  BY <1>1, SizeProperty
(* The places that were in the log. *)
<1>5. ASSUME NEW p \in TxPlaces', p[1] < Len(log)
      PROVE  p \in TxPlaces /\ TxAt(p)' = TxAt(p)
  <2>1. p \in Places /\ p[1] \in Nat /\ p[2] \in Nat /\ p[2] < Len(log'[p[1] + 1])
        /\ p[3] < Len(log'[p[1] + 1][p[2] + 1])
    BY GroupNat DEF TxPlaces, InLog, EventLength
  <2>2. log'[p[1] + 1] = log[p[1] + 1]
    <3>1. p[1] + 1 \in 1 .. Len(log)
      BY <1>3, <1>5, <2>1, SMTT(30)
    <3>. QED  BY <1>3, <3>1
  <2>3. p \in TxPlaces
    BY <1>5, <2>1, <2>2 DEF TxPlaces, InLog, EventLength
  <2>4. TxAt(p)' = TxAt(p)
    BY <2>2 DEF TxAt
  <2>. QED  BY <2>3, <2>4
(* What has been recorded again stays so, and a further record makes the   *)
(* transactions of its event such.                                         *)
<1>6. ASSUME NEW tx, RecordedAgain(tx) PROVE RecordedAgain(tx)'
  <2>1. again \subseteq again'
    OBVIOUS
  <2>2. \A c \in Nodes : \A k \in 1 .. Len(formed[c]) : formed'[c][k] = formed[c][k]
    OBVIOUS
  <2>. QED  BY <1>1, <1>6, <2>1, <2>2, AgainKept
<1>7. ASSUME NEW r \in further, NEW tx, NEW c, NEW k, NEW t, Event(r) = <<c, k>>,
             InChain(tx, c, k, t)
      PROVE  RecordedAgain(tx)'
  <2>1. c \in Nodes /\ k \in 1 .. Len(formed[c]) /\ t \in 1 .. Len(formed[c][k])
        /\ tx = formed[c][k][t]
    BY <1>7 DEF InChain
  <2>2. tx \in Range(formed[c][k])
    <3>1. formed[c] \in Seq(Seq(Tx))
      BY <1>1, <2>1 DEF ChainOK, Chain
    <3>2. formed[c][k] \in Seq(Tx)
      BY <2>1, <3>1, ElementOfSeq
    <3>. QED  BY <2>1, <3>2, RangeEquality
  <2>3. tx \in Range(formed'[Event(r)[1]][Event(r)[2]])
    BY <1>7, <2>2
  <2>4. r \in again'
    OBVIOUS
  <2>. QED  BY <2>3, <2>4 DEF RecordedAgain, Event
(* The places of the new frame. *)
<1>8. ASSUME NEW p \in TxPlaces', ~ (p[1] < Len(log)), NEW tx, tx = TxAt(p)'
      PROVE  /\ p \in Places /\ p[1] = Len(log) /\ p[2] + 1 \in 1 .. Len(fr)
             /\ \E c, k :
                  /\ InChain(tx, c, k, p[3] + 1)
                  /\ \/ RecordedAgain(tx)'
                     \/ /\ k > decided[c] /\ k <= decided'[c]
                        /\ order[p[2] + 1] = <<<<c, k>>, 0>>
  <2>1. /\ p \in Places /\ p[1] \in Nat /\ p[2] \in Nat /\ p[3] \in Nat
        /\ p[1] < Len(log') /\ p[2] < Len(log'[p[1] + 1])
        /\ p[3] < Len(log'[p[1] + 1][p[2] + 1])
        /\ tx = log'[p[1] + 1][p[2] + 1][p[3] + 1]
    BY <1>8, GroupNat DEF TxPlaces, InLog, EventLength, TxAt
  <2>2. p[1] = Len(log)
    BY <1>3, <1>8, <2>1
  <2>3. log'[p[1] + 1] = fr
    BY <1>3, <2>2
  <2>4. p[2] + 1 \in 1 .. Len(fr)
    <3>1. p[2] < Len(fr) /\ p[2] \in Nat /\ Len(fr) \in Nat
      BY <1>2, <2>1, <2>3
    <3>. QED  BY <3>1
  <2>5. PICK i \in 1 .. Len(fr) : i = p[2] + 1
    BY <2>4
  <2>6. PICK c, k :
          /\ c \in Nodes /\ k \in 1 .. Len(formed[c])
          /\ fr[i] = formed[c][k] /\ Event(order[i]) = <<c, k>>
          /\ \/ order[i] \in further
             \/ k > decided[c] /\ k <= decided[c] + size[c] /\ order[i] = <<<<c, k>>, 0>>
    BY <1>2
  <2>7. Len(formed[c][k]) \in Nat
    <3>1. formed[c] \in Seq(Seq(Tx))
      BY <1>1, <2>6 DEF ChainOK, Chain
    <3>2. formed[c][k] \in Seq(Tx)
      BY <2>6, <3>1, ElementOfSeq
    <3>. QED  BY <3>2, LenProperties
  <2>8. InChain(tx, c, k, p[3] + 1)
    <3>1. p[3] < Len(formed[c][k]) /\ tx = formed[c][k][p[3] + 1]
      BY <2>1, <2>3, <2>5, <2>6
    <3>2. p[3] \in Nat
      BY <2>1
    <3>3. p[3] + 1 \in 1 .. Len(formed[c][k])
      BY <2>7, <3>1, <3>2, SMTT(30)
    <3>. QED  BY <2>6, <3>1, <3>3 DEF InChain
  <2>9. \/ RecordedAgain(tx)'
        \/ k > decided[c] /\ k <= decided'[c] /\ order[i] = <<<<c, k>>, 0>>
    <3>1. CASE order[i] \in further
      BY <1>7, <2>6, <2>8, <3>1
    <3>2. CASE order[i] \notin further
      <4>1. k > decided[c] /\ k <= decided[c] + size[c] /\ order[i] = <<<<c, k>>, 0>>
        BY <2>6, <3>2
      <4>2. k <= decided'[c]
        BY <1>4, <2>6, <4>1
      <4>. QED  BY <4>1, <4>2
    <3>. QED  BY <3>1, <3>2
  <2>10. \/ RecordedAgain(tx)'
         \/ k > decided[c] /\ k <= decided'[c] /\ order[p[2] + 1] = <<<<c, k>>, 0>>
    BY <2>5, <2>9
  <2>. QED  BY <2>1, <2>2, <2>4, <2>8, <2>10
<1>9. FromChains'
  <2>. SUFFICES ASSUME NEW p \in TxPlaces'
                PROVE  \E c, k, t : InChain(TxAt(p), c, k, t)'
                                      /\ (k <= decided'[c] \/ RecordedAgain(TxAt(p))')
    BY DEF FromChains
  <2>1. PICK tx : tx = TxAt(p)'
    OBVIOUS
  <2>2. \E c, k, t : InChain(tx, c, k, t) /\ (k <= decided'[c] \/ RecordedAgain(tx)')
    <3>1. CASE p[1] < Len(log)
      <4>1. p \in TxPlaces /\ tx = TxAt(p)
        BY <1>5, <2>1, <3>1
      <4>2. PICK c, k, t : InChain(tx, c, k, t) /\ (k <= decided[c] \/ RecordedAgain(tx))
        BY <1>1, <4>1 DEF FromChains
      <4>3. k <= decided'[c] \/ RecordedAgain(tx)'
        <5>1. CASE k <= decided[c]
          <6>1. k \in Nat /\ decided[c] \in Nat /\ size[c] \in Nat
                /\ decided'[c] = decided[c] + size[c]
            BY <1>4, <4>2 DEF InChain
          <6>. QED  BY <5>1, <6>1
        <5>2. CASE RecordedAgain(tx)
          BY <1>6, <5>2
        <5>. QED  BY <4>2, <5>1, <5>2
      <4>. QED  BY <4>2, <4>3
    <3>2. CASE ~ (p[1] < Len(log))
      BY <1>8, <2>1, <3>2
    <3>. QED  BY <3>1, <3>2
  <2>3. PICK c, k, t : InChain(tx, c, k, t) /\ (k <= decided'[c] \/ RecordedAgain(tx)')
    BY <2>2
  <2>4. InChain(TxAt(p), c, k, t)'
    BY <2>1, <2>3 DEF InChain
  <2>5. RecordedAgain(TxAt(p))' <=> RecordedAgain(tx)'
    BY <2>1 DEF RecordedAgain
  <2>. QED  BY <2>3, <2>4, <2>5
(* An old place and a new one. *)
<1>10. ASSUME NEW p \in TxPlaces', NEW q \in TxPlaces', NEW tx, tx = TxAt(p)', tx = TxAt(q)',
              p[1] < Len(log), ~ (q[1] < Len(log))
       PROVE  RecordedAgain(tx)'
  <2>1. p \in TxPlaces /\ tx = TxAt(p)
    BY <1>5, <1>10
  <2>2. PICK c, k, t : InChain(tx, c, k, t) /\ (k <= decided[c] \/ RecordedAgain(tx))
    BY <1>1, <2>1 DEF FromChains
  <2>3. PICK b, l : InChain(tx, b, l, q[3] + 1) /\ (RecordedAgain(tx)' \/ l > decided[b])
    BY <1>8, <1>10
  <2>4. b = c /\ k = l
    BY <1>1, <2>2, <2>3, ChainPlaceOnce
  <2>5. ~ (k <= decided[c] /\ k > decided[c])
    <3>1. decided[c] \in Nat /\ k \in Nat
      BY <1>4, <2>2 DEF InChain
    <3>. QED  BY <3>1
  <2>6. RecordedAgain(tx) => RecordedAgain(tx)'
    BY <1>6
  <2>. QED  BY <2>2, <2>3, <2>4, <2>5, <2>6
(* Two places of the new frame. *)
<1>11. ASSUME NEW p \in TxPlaces', NEW q \in TxPlaces', NEW tx, tx = TxAt(p)', tx = TxAt(q)',
              ~ (p[1] < Len(log)), ~ (q[1] < Len(log))
       PROVE  p = q \/ RecordedAgain(tx)'
  <2>1. PICK c, k :
          /\ InChain(tx, c, k, p[3] + 1)
          /\ \/ RecordedAgain(tx)'
             \/ /\ k > decided[c] /\ k <= decided'[c]
                /\ order[p[2] + 1] = <<<<c, k>>, 0>>
    BY <1>8, <1>11
  <2>2. PICK b, l :
          /\ InChain(tx, b, l, q[3] + 1)
          /\ \/ RecordedAgain(tx)'
             \/ /\ l > decided[b] /\ l <= decided'[b]
                /\ order[q[2] + 1] = <<<<b, l>>, 0>>
    BY <1>8, <1>11
  <2>3. b = c /\ k = l /\ p[3] + 1 = q[3] + 1
    BY <1>1, <2>1, <2>2, ChainPlaceOnce
  <2>4. /\ p \in Places /\ q \in Places /\ p[1] = q[1]
        /\ p[2] + 1 \in 1 .. Len(fr) /\ q[2] + 1 \in 1 .. Len(fr)
    BY <1>8, <1>11
  <2>5. ASSUME order[p[2] + 1] = order[q[2] + 1] PROVE p = q
    <3>1. p[2] + 1 = q[2] + 1
      BY <1>2, <2>4, <2>5
    <3>. QED  BY <2>3, <2>4, <3>1, GroupNat, SMTT(30)
  <2>. QED  BY <2>1, <2>2, <2>3, <2>5
<1>12. LogOnce'
  <2>. SUFFICES ASSUME NEW p \in TxPlaces', NEW q \in TxPlaces', TxAt(p)' = TxAt(q)'
                PROVE  p = q \/ RecordedAgain(TxAt(p))'
    BY DEF LogOnce
  <2>1. PICK tx : tx = TxAt(p)' /\ tx = TxAt(q)'
    OBVIOUS
  <2>2. ASSUME p[1] < Len(log), q[1] < Len(log) PROVE p = q \/ RecordedAgain(tx)'
    <3>1. /\ p \in TxPlaces /\ tx = TxAt(p)
          /\ q \in TxPlaces /\ tx = TxAt(q)
      BY <1>5, <2>1, <2>2
    <3>2. p = q \/ RecordedAgain(tx)
      BY <1>1, <3>1 DEF LogOnce
    <3>. QED  BY <1>6, <3>2
  <2>3. p = q \/ RecordedAgain(tx)'
    BY <1>10, <1>11, <2>1, <2>2
  <2>4. RecordedAgain(TxAt(p))' <=> RecordedAgain(tx)'
    BY <2>1 DEF RecordedAgain
  <2>. QED  BY <2>3, <2>4
<1>13. AgainOK'
  <2>. SUFFICES ASSUME NEW r \in again \cup further
                PROVE  \E c \in Nodes : \E k \in 1 .. Len(formed[c]) : Event(r) = <<c, k>>
    BY DEF AgainOK, Event
  <2>1. CASE r \in again
    BY <1>1, <2>1 DEF AgainOK
  <2>2. CASE r \in further
    <3>1. r \in FirstRecords(size) \cup further
      BY <2>2
    <3>2. PICK records : records = FirstRecords(size) \cup further
      OBVIOUS
    <3>3. \A s \in records : \E c \in Nodes : \E k \in 1 .. Len(formed[c]) : Event(s) = <<c, k>>
      BY <1>1, <3>2, RecordsOfFrame
    <3>. QED  BY <3>1, <3>2, <3>3
  <2>. QED  BY <2>1, <2>2
<1>. QED  BY <1>9, <1>12, <1>13

(* A node finalises the next frame, as another did or the first time.      *)
LEMMA FinaliseNewKeeps ==
  ASSUME NEW n \in Nodes, TransactionsInv, DeliveryInv, FinaliseNew(n)
  PROVE  TransactionsInv' /\ DeliveryInv'
<1>1. /\ \A c \in Nodes : PoolOK(c) /\ ChainOK(c)
      /\ LogOK /\ Len(log) \in Nat
  BY LenProperties DEF TransactionsInv, DeliveryInv, LogOK
<1>2. PICK size \in Sizes, further \in FurtherRecords :
        /\ FinaliseFrame(n, {FrameInOrder(order) :
                               order \in Orders(FirstRecords(size) \cup further)})
        /\ decided' = [c \in Nodes |-> decided[c] + size[c]]
        /\ again' = again \cup further
        /\ UNCHANGED <<tx_pool, sent, formed>>
  BY DEF FinaliseNew
<1>. DEFINE Candidates == {FrameInOrder(order) : order \in Orders(FirstRecords(size) \cup further)}
<1>3. \A f \in Candidates : IsFrame(f)
  BY <1>1, NewFrame
<1>4. DeliveryInv'
  <2>. HIDE DEF Candidates
  <2>1. FinaliseFrame(n, Candidates)
    BY <1>2 DEF Candidates
  <2>. QED  BY <1>3, <2>1, FinaliseKeeps
<1>5. PICK order \in Orders(FirstRecords(size) \cup further) :
        log' = Append(log, FrameInOrder(order))
  <2>1. last_finalised_frame[n] + 1 = Len(log)
    BY DEF FinaliseNew
  <2>2. FinaliseFrame(n, Candidates)
    BY <1>2
  <2>3. \E new \in Candidates : log' = Append(log, new)
    <3>. HIDE DEF Candidates
    <3>. QED  BY <1>1, <2>1, <2>2 DEF FinaliseFrame
  <2>. QED  BY <2>3
<1>6. FromChains' /\ LogOnce' /\ AgainOK'
  BY <1>1, <1>2, <1>5, NewFrameOnce
<1>7. ASSUME NEW c \in Nodes PROVE PoolOK(c)' /\ ChainOK(c)'
  <2>1. Taken(c)' = Taken(c)
    BY <1>2 DEF Taken
  <2>2. PoolOK(c)'
    BY <1>1, <1>2, <2>1 DEF PoolOK
  <2>3. decided'[c] \in Nat /\ decided'[c] < Len(formed[c])
    <3>1. \A b \in Nodes : ChainOK(b)
      BY <1>1
    <3>2. /\ size[c] \in Nat /\ decided[c] \in Nat
          /\ decided[c] + size[c] < Len(formed[c]) /\ Len(formed[c]) \in Nat
      BY <3>1, SizeProperty
    <3>3. decided'[c] = decided[c] + size[c]
      BY <1>2
    <3>. QED  BY <3>2, <3>3
  <2>4. ChainOK(c)'
    BY <1>1, <1>2, <2>1, <2>3 DEF ChainOK
  <2>. QED  BY <2>2, <2>4
<1>. QED  BY <1>2, <1>4, <1>6, <1>7 DEF TransactionsInv

LEMMA FinaliseKnownKeeps ==
  ASSUME NEW n \in Nodes, TransactionsInv, DeliveryInv, FinaliseKnown(n)
  PROVE  TransactionsInv' /\ DeliveryInv'
<1>1. FinaliseFrame(n, {}) /\ UNCHANGED <<log, tx_pool, sent, formed, decided, again>>
  BY DEF FinaliseKnown, FinaliseFrame
<1>2. DeliveryInv'
  BY <1>1, FinaliseKeeps
<1>. QED  BY <1>1, <1>2, TransactionsKept

LEMMA PollTransactionsKeeps ==
  ASSUME NEW n \in Nodes, TransactionsInv, DeliveryInv, PollTransactions(n)
  PROVE  TransactionsInv' /\ DeliveryInv'
<1>1. Poll(n) /\ UNCHANGED <<tx_pool, sent, formed, decided, again>>
  BY DEF PollTransactions
<1>2. UNCHANGED log
  BY <1>1 DEF Poll, PollStart, LoopSleep, Sleep, LoopEvent, PollReady, PollAgain
<1>. QED  BY <1>1, <1>2, PollKeeps, TransactionsKept

-----------------------------------------------------------------------------
(* From send_transaction (lib.rs:509) through the frames to the consumers  *)
(* (lib.rs:600-696): the pool, the chains, the log and the cursors are in  *)
(* order in every reachable state.                                         *)
THEOREM TransactionsInvariance == TransactionsSpec => [](DeliveryInv /\ TransactionsInv)
<1>1. ASSUME DeliveryInv, TransactionsInv, TransactionsNext
      PROVE  DeliveryInv' /\ TransactionsInv'
  <2>1. PICK n \in Nodes :
          send_transaction(n) \/ FormEvent(n) \/ FinaliseKnown(n) \/ FinaliseNew(n)
            \/ PollTransactions(n)
    BY <1>1 DEF TransactionsNext
  <2>2. CASE send_transaction(n)
    <3>1. UNCHANGED dvars
      BY <2>2 DEF send_transaction
    <3>. QED  BY <1>1, <2>2, <3>1, DeliveryStutter, SendKeeps
  <2>3. CASE FormEvent(n)
    <3>1. UNCHANGED dvars
      BY <2>3 DEF FormEvent
    <3>. QED  BY <1>1, <2>3, <3>1, DeliveryStutter, FormKeeps
  <2>4. CASE FinaliseKnown(n)
    BY <1>1, <2>4, FinaliseKnownKeeps
  <2>5. CASE FinaliseNew(n)
    BY <1>1, <2>5, FinaliseNewKeeps
  <2>6. CASE PollTransactions(n)
    BY <1>1, <2>6, PollTransactionsKeeps
  <2>. QED  BY <2>1, <2>2, <2>3, <2>4, <2>5, <2>6
<1>2. ASSUME DeliveryInv, TransactionsInv, UNCHANGED xvars
      PROVE  DeliveryInv' /\ TransactionsInv'
  <2>1. UNCHANGED dvars /\ UNCHANGED <<log, tx_pool, sent, formed, decided, again>>
    BY <1>2 DEF xvars, dvars
  <2>. QED  BY <1>2, <2>1, DeliveryStutter, TransactionsKept
<1>3. TransactionsInit => DeliveryInv /\ TransactionsInv
  BY DeliveryInitial, TransactionsInitial DEF TransactionsInit
<1>4. DeliveryInv /\ TransactionsInv /\ [TransactionsNext]_xvars
        => (DeliveryInv /\ TransactionsInv)'
  BY <1>1, <1>2
<1>. QED  BY <1>3, <1>4, PTL DEF TransactionsSpec

(* All consumers get the same transactions in the same order, whenever     *)
(* each polls and whenever its node finalises (lib.rs:600-696).            *)
THEOREM SameOrderHolds == TransactionsSpec => []SameOrder
BY TransactionsInvariance, DeliveryOrder, PTL

(* poll_next indexes inside the finalised frames (lib.rs:655-671).         *)
THEOREM CursorInRangeHolds == TransactionsSpec => []CursorInRange
BY TransactionsInvariance, DeliverySafety, PTL

(* A sleeping consumer has a waker that insert_event calls (lib.rs:617,    *)
(* 641; core.rs:301), or has been woken.                                   *)
THEOREM SleeperHasWakerHolds == TransactionsSpec => []SleeperHasWaker
BY TransactionsInvariance, DeliverySafety, PTL

(* A consumer gets a transaction a second time only if an event with it    *)
(* has a further record (core.rs:139-147, 277-306, lib.rs:135, 600-696).   *)
THEOREM ReceivedPerRecordHolds == TransactionsSpec => []ReceivedPerRecord
<1>1. DeliveryInv /\ TransactionsInv => ReceivedPerRecord
  BY PerRecord DEF TransactionsInv
<1>. QED  BY <1>1, TransactionsInvariance, PTL

-----------------------------------------------------------------------------
(* The transactions of a chain, one event after the other.                 *)

(* The function that FlattenSeq is the last value of.                      *)
IsFlatten(f, s, n) == f = [i \in 1 .. n |-> IF i = 1 THEN s[i] ELSE f[i - 1] \o s[i]]

(* There is such a function, and only one: the first place where two       *)
(* differ would have a place before it where they differ.                  *)
LEMMA FlattenExists ==
  ASSUME NEW s, NEW n \in Nat
  PROVE  \E f : IsFlatten(f, s, n)
<1>. DEFINE Bad == {m \in Nat : ~ \E f : IsFlatten(f, s, m)}
<1>1. ASSUME Bad # {} PROVE FALSE
  <2>1. PICK m \in Bad : \A j \in Bad : m <= j
    <3>1. Bad \subseteq Nat /\ Bad # {}
      BY <1>1
    <3>. HIDE DEF Bad
    <3>. QED  BY <3>1, MinProperty
  <2>2. m \in Nat /\ ~ \E f : IsFlatten(f, s, m)
    OBVIOUS
  <2>3. m # 0
    <3>1. IsFlatten(<<>>, s, 0)
      BY DEF IsFlatten
    <3>. QED  BY <2>2, <3>1
  <2>4. PICK f : IsFlatten(f, s, m - 1)
    <3>1. m - 1 \in Nat /\ ~ (m <= m - 1)
      BY <2>2, <2>3
    <3>. QED  BY <2>1, <3>1
  <2>. DEFINE g == [i \in 1 .. m |-> IF i <= m - 1 THEN f[i]
                                     ELSE IF i = 1 THEN s[i] ELSE f[i - 1] \o s[i]]
  <2>5. \A i \in 1 .. (m - 1) : g[i] = f[i] /\ f[i] = IF i = 1 THEN s[i] ELSE f[i - 1] \o s[i]
    <3>1. f = [i \in 1 .. (m - 1) |-> IF i = 1 THEN s[i] ELSE f[i - 1] \o s[i]]
      BY <2>4 DEF IsFlatten
    <3>. SUFFICES ASSUME NEW i \in 1 .. (m - 1)
                  PROVE  g[i] = f[i] /\ f[i] = IF i = 1 THEN s[i] ELSE f[i - 1] \o s[i]
      OBVIOUS
    <3>2. i \in 1 .. m /\ i <= m - 1
      BY <2>2
    <3>. QED  BY <3>1, <3>2, Zenon
  <2>6. g[m] = IF m = 1 THEN s[m] ELSE f[m - 1] \o s[m]
    BY <2>2, <2>3
  <2>7. ASSUME NEW i \in 1 .. m PROVE g[i] = IF i = 1 THEN s[i] ELSE g[i - 1] \o s[i]
    <3>. HIDE DEF g
    <3>1. i # 1 => g[i - 1] = f[i - 1]
      BY <2>2, <2>5
    <3>2. CASE i = m
      BY <2>6, <3>1, <3>2
    <3>3. CASE i # m
      <4>1. i \in 1 .. (m - 1)
        BY <2>2, <3>3
      <4>. QED  BY <2>5, <3>1, <4>1
    <3>. QED  BY <3>2, <3>3
  <2>8. g = [i \in 1 .. m |-> g[i]]
    OBVIOUS
  <2>9. IsFlatten(g, s, m)
    <3>. HIDE DEF g
    <3>. QED  BY <2>7, <2>8 DEF IsFlatten
  <2>. QED  BY <2>2, <2>9
<1>. QED  BY <1>1

LEMMA FlattenUnique ==
  ASSUME NEW s, NEW n \in Nat, NEW f, NEW g, IsFlatten(f, s, n), IsFlatten(g, s, n)
  PROVE  f = g
<1>. DEFINE Bad == {i \in Nat : i \in 1 .. n /\ f[i] # g[i]}
<1>0. /\ \A i \in 1 .. n : f[i] = IF i = 1 THEN s[i] ELSE f[i - 1] \o s[i]
      /\ \A i \in 1 .. n : g[i] = IF i = 1 THEN s[i] ELSE g[i - 1] \o s[i]
  BY Zenon DEF IsFlatten
<1>1. ASSUME Bad # {} PROVE FALSE
  <2>1. PICK i \in Bad : \A j \in Bad : i <= j
    <3>1. Bad \subseteq Nat /\ Bad # {}
      BY <1>1
    <3>. HIDE DEF Bad
    <3>. QED  BY <3>1, MinProperty
  <2>2. i \in 1 .. n /\ f[i] # g[i]
    OBVIOUS
  <2>3. i # 1
    BY <1>0, <2>2
  <2>4. i - 1 \in 1 .. n /\ f[i - 1] = g[i - 1]
    <3>1. i - 1 \in 1 .. n /\ ~ (i <= i - 1) /\ i - 1 \in Nat
      BY <2>2, <2>3
    <3>. QED  BY <2>1, <3>1
  <2>5. f[i] = f[i - 1] \o s[i] /\ g[i] = g[i - 1] \o s[i]
    BY <1>0, <2>2, <2>3
  <2>. QED  BY <2>2, <2>4, <2>5
<1>2. \A i \in 1 .. n : f[i] = g[i]
  BY <1>1
<1>3. f = [i \in 1 .. n |-> f[i]] /\ g = [i \in 1 .. n |-> g[i]]
  BY Zenon DEF IsFlatten
<1>. QED  BY <1>2, <1>3, Zenon

LEMMA FlattenValue ==
  ASSUME NEW s, Len(s) \in Nat, Len(s) # 0
  PROVE  \E f : IsFlatten(f, s, Len(s)) /\ FlattenSeq(s) = f[Len(s)]
<1>. DEFINE F == CHOOSE f : IsFlatten(f, s, Len(s))
<1>1. \E f : IsFlatten(f, s, Len(s))
  BY FlattenExists
<1>2. IsFlatten(F, s, Len(s))
  BY <1>1
<1>3. FlattenSeq(s) = F[Len(s)]
  BY DEF FlattenSeq, IsFlatten
<1>. QED  BY <1>2, <1>3

(* FlattenSeq of a chain with an event more. *)
LEMMA FlattenAppend ==
  ASSUME NEW S, NEW s \in Seq(Seq(S)), s # <<>>, NEW x \in Seq(S)
  PROVE  FlattenSeq(Append(s, x)) = FlattenSeq(s) \o x
<1>. DEFINE t == Append(s, x)
            n == Len(s)
<1>1. /\ n \in Nat /\ n # 0 /\ Len(t) = n + 1
      /\ \A i \in 1 .. n : s[i] = t[i]
      /\ t[n + 1] = x
  <2>1. /\ Len(t) = n + 1 /\ \A i \in 1 .. n : s[i] = t[i] /\ t[n + 1] = x
    BY AppendProperties
  <2>2. n \in Nat /\ n # 0
    BY LenProperties, EmptySeq
  <2>. QED  BY <2>1, <2>2, AppendProperties
<1>2. PICK f : IsFlatten(f, s, n) /\ FlattenSeq(s) = f[n]
  BY <1>1, FlattenValue
<1>. HIDE DEF t, n
<1>3. PICK g : IsFlatten(g, t, n + 1) /\ FlattenSeq(t) = g[n + 1]
  <2>1. Len(t) \in Nat /\ Len(t) # 0
    BY <1>1
  <2>. QED  BY <1>1, <2>1, FlattenValue
<1>6. \A i \in 1 .. (n + 1) : g[i] = IF i = 1 THEN t[i] ELSE g[i - 1] \o t[i]
  BY <1>3, Zenon DEF IsFlatten
<1>. DEFINE h == [i \in 1 .. n |-> g[i]]
<1>7. ASSUME NEW i \in 1 .. n PROVE h[i] = IF i = 1 THEN s[i] ELSE h[i - 1] \o s[i]
  <2>1. i \in 1 .. (n + 1) /\ (i # 1 => i - 1 \in 1 .. n)
    BY <1>1
  <2>2. h[i] = g[i] /\ (i # 1 => h[i - 1] = g[i - 1]) /\ s[i] = t[i]
    BY <1>1, <2>1
  <2>. HIDE DEF h
  <2>. QED  BY <1>6, <2>1, <2>2
<1>8. h = [i \in 1 .. n |-> h[i]]
  OBVIOUS
<1>9. n \in 1 .. n
  BY <1>1
<1>4. f[n] = g[n]
  <2>1. h[n] = g[n]
    BY <1>9
  <2>. HIDE DEF h
  <2>2. IsFlatten(h, s, n)
    BY <1>7, <1>8 DEF IsFlatten
  <2>3. f = h
    BY <1>1, <1>2, <2>2, FlattenUnique
  <2>. QED  BY <2>1, <2>3
<1>5. g[n + 1] = g[n] \o x
  <2>1. n + 1 \in 1 .. (n + 1) /\ n + 1 # 1 /\ (n + 1) - 1 = n
    BY <1>1
  <2>. QED  BY <1>1, <1>6, <2>1
<1>. QED  BY <1>2, <1>3, <1>4, <1>5 DEF t

LEMMA FlattenType ==
  ASSUME NEW S, NEW s \in Seq(Seq(S)), s # <<>>
  PROVE  FlattenSeq(s) \in Seq(S)
<1>1. Len(s) \in Nat /\ Len(s) # 0 /\ \A i \in 1 .. Len(s) : s[i] \in Seq(S)
  BY LenProperties, EmptySeq, ElementOfSeq
<1>2. PICK f : IsFlatten(f, s, Len(s)) /\ FlattenSeq(s) = f[Len(s)]
  BY <1>1, FlattenValue
<1>3. \A i \in 1 .. Len(s) : f[i] = IF i = 1 THEN s[i] ELSE f[i - 1] \o s[i]
  BY <1>2, Zenon DEF IsFlatten
<1>. DEFINE Bad == {i \in Nat : i \in 1 .. Len(s) /\ f[i] \notin Seq(S)}
<1>4. ASSUME Bad # {} PROVE FALSE
  <2>1. PICK i \in Bad : \A j \in Bad : i <= j
    <3>1. Bad \subseteq Nat /\ Bad # {}
      BY <1>4
    <3>. HIDE DEF Bad
    <3>. QED  BY <3>1, MinProperty
  <2>2. i \in Nat /\ i \in 1 .. Len(s) /\ f[i] \notin Seq(S)
    OBVIOUS
  <2>3. i # 1
    BY <1>1, <1>3, <2>2
  <2>4. f[i - 1] \in Seq(S)
    <3>1. i - 1 \in 1 .. Len(s) /\ ~ (i <= i - 1) /\ i - 1 \in Nat
      BY <2>2, <2>3
    <3>. QED  BY <2>1, <3>1
  <2>5. f[i] = f[i - 1] \o s[i] /\ s[i] \in Seq(S)
    BY <1>1, <1>3, <2>2, <2>3
  <2>. QED  BY <2>2, <2>4, <2>5, ConcatProperties
<1>5. Len(s) \in 1 .. Len(s)
  BY <1>1
<1>. QED  BY <1>1, <1>2, <1>4, <1>5

LEMMA ThreeParts ==
  \A s, t, u \in Seq(Tx) : (s \o t) \o u = s \o (t \o u)
BY ConcatAssociative

(* What has been taken out of the pool and what is still there are what    *)
(* the application has sent.                                               *)
LEMMA PoolInOrderStep ==
  ASSUME TransactionsInv, PoolInOrder, [TransactionsNext]_xvars
  PROVE  PoolInOrder'
<1>1. /\ DOMAIN tx_pool = Nodes /\ DOMAIN sent = Nodes /\ DOMAIN formed = Nodes
      /\ \A c \in Nodes : PoolOK(c) /\ ChainOK(c)
  BY DEF TransactionsInv
<1>2. ASSUME NEW c \in Nodes
      PROVE  /\ formed[c] \in Seq(Seq(Tx)) /\ formed[c] # <<>>
             /\ tx_pool[c] \in Seq(Tx) /\ sent[c] \in Seq(Tx)
             /\ FlattenSeq(formed[c]) \o tx_pool[c] = sent[c]
  <2>1. /\ formed[c] \in Seq(Seq(Tx)) /\ decided[c] \in Nat /\ decided[c] < Len(formed[c])
    BY <1>1 DEF ChainOK, Chain
  <2>2. formed[c] # <<>>
    <3>1. Len(<<>>) = 0
      OBVIOUS
    <3>. QED  BY <2>1, <3>1
  <2>. QED  BY <1>1, <2>1, <2>2 DEF PoolOK, PoolInOrder
<1>3. ASSUME NEW c \in Nodes PROVE FlattenSeq(formed[c]) \in Seq(Tx)
  BY <1>2, FlattenType
<1>4. ASSUME NEW n \in Nodes, send_transaction(n) PROVE PoolInOrder'
  <2>1. PICK tx \in Tx :
          /\ tx_pool' = [tx_pool EXCEPT ![n] = Append(@, tx)]
          /\ sent' = [sent EXCEPT ![n] = Append(@, tx)]
          /\ formed' = formed
    <3>1. Len(sent[n]) + 1 \in Nat
      BY <1>2, LenProperties
    <3>2. <<n, Len(sent[n]) + 1>> \in Tx
      BY <3>1 DEF Tx
    <3>. QED  BY <1>4, <3>2 DEF send_transaction
  <2>2. FlattenSeq(formed[n]) \o Append(tx_pool[n], tx) = Append(sent[n], tx)
    <3>0. PICK a, b : a = FlattenSeq(formed[n]) /\ b = tx_pool[n]
      OBVIOUS
    <3>1. a \in Seq(Tx) /\ b \in Seq(Tx) /\ a \o b = sent[n] /\ a \o b \in Seq(Tx)
          /\ <<tx>> \in Seq(Tx)
      <4>1. a \in Seq(Tx) /\ b \in Seq(Tx) /\ a \o b = sent[n] /\ sent[n] \in Seq(Tx)
        BY <1>2, <1>3, <3>0
      <4>2. <<tx>> \in Seq(Tx)
        OBVIOUS
      <4>. QED  BY <4>1, <4>2
    <3>2. Append(b, tx) = b \o <<tx>> /\ Append(a \o b, tx) = (a \o b) \o <<tx>>
      BY <3>1, AppendIsConcat
    <3>3. (a \o b) \o <<tx>> = a \o (b \o <<tx>>)
      BY <3>1, ThreeParts
    <3>. QED  BY <3>0, <3>1, <3>2, <3>3
  <2>3. ASSUME NEW c \in Nodes PROVE FlattenSeq(formed'[c]) \o tx_pool'[c] = sent'[c]
    <3>1. CASE c = n
      BY <1>1, <2>1, <2>2, <3>1
    <3>2. CASE c # n
      <4>1. tx_pool'[c] = tx_pool[c] /\ sent'[c] = sent[c] /\ formed'[c] = formed[c]
        BY <1>1, <2>1, <3>2
      <4>. QED  BY <1>2, <4>1
    <3>. QED  BY <3>1, <3>2
  <2>. QED  BY <2>3 DEF PoolInOrder
<1>5. ASSUME NEW n \in Nodes, FormEvent(n) PROVE PoolInOrder'
  <2>1. PICK taken, kept :
          /\ taken = next_transactions(tx_pool[n]).taken
          /\ kept = next_transactions(tx_pool[n]).kept
    OBVIOUS
  <2>2. /\ tx_pool' = [tx_pool EXCEPT ![n] = kept]
        /\ formed' = [formed EXCEPT ![n] = Append(@, taken)]
        /\ sent' = sent
    BY <1>5, <2>1 DEF FormEvent
  <2>3. taken \in Seq(Tx) /\ kept \in Seq(Tx) /\ taken \o kept = tx_pool[n]
    BY <1>2, <2>1, TakeProperty
  <2>4. FlattenSeq(Append(formed[n], taken)) \o kept = sent[n]
    <3>1. FlattenSeq(Append(formed[n], taken)) = FlattenSeq(formed[n]) \o taken
      BY <1>2, <2>3, FlattenAppend
    <3>2. (FlattenSeq(formed[n]) \o taken) \o kept = FlattenSeq(formed[n]) \o (taken \o kept)
      BY <1>3, <2>3, ThreeParts
    <3>. QED  BY <1>2, <2>3, <3>1, <3>2
  <2>5. ASSUME NEW c \in Nodes PROVE FlattenSeq(formed'[c]) \o tx_pool'[c] = sent'[c]
    <3>1. CASE c = n
      <4>1. tx_pool'[c] = kept /\ formed'[c] = Append(formed[n], taken) /\ sent'[c] = sent[n]
        BY <1>1, <2>2, <3>1
      <4>. QED  BY <2>4, <4>1
    <3>2. CASE c # n
      <4>1. tx_pool'[c] = tx_pool[c] /\ sent'[c] = sent[c] /\ formed'[c] = formed[c]
        BY <1>1, <2>2, <3>2
      <4>. QED  BY <1>2, <4>1
    <3>. QED  BY <3>1, <3>2
  <2>. QED  BY <2>5 DEF PoolInOrder
<1>6. ASSUME UNCHANGED <<tx_pool, sent, formed>> PROVE PoolInOrder'
  BY <1>6 DEF PoolInOrder
<1>7. ASSUME TransactionsNext PROVE PoolInOrder'
  <2>1. PICK n \in Nodes :
          send_transaction(n) \/ FormEvent(n) \/ FinaliseKnown(n) \/ FinaliseNew(n)
            \/ PollTransactions(n)
    BY <1>7 DEF TransactionsNext
  <2>. QED  BY <1>4, <1>5, <1>6, <2>1 DEF FinaliseKnown, FinaliseNew, PollTransactions
<1>8. ASSUME UNCHANGED xvars PROVE PoolInOrder'
  BY <1>6, <1>8 DEF xvars
<1>. QED  BY <1>7, <1>8

(* No transaction is lost, doubled or overtaken between send_transaction   *)
(* and the events (core.rs:139-147).                                       *)
THEOREM PoolInOrderHolds == TransactionsSpec => []PoolInOrder
<1>1. TransactionsInit => PoolInOrder
  <2>. SUFFICES ASSUME TransactionsInit, NEW n \in Nodes
                PROVE  FlattenSeq(formed[n]) \o tx_pool[n] = sent[n]
    BY DEF PoolInOrder
  <2>1. tx_pool[n] = <<>> /\ sent[n] = <<>> /\ formed[n] = << <<>> >>
    BY DEF TransactionsInit
  <2>2. FlattenSeq(<< <<>> >>) = <<>>
    <3>1. PICK s : s = << <<>> >>
      OBVIOUS
    <3>2. Len(s) = 1 /\ s[1] = <<>>
      BY <3>1
    <3>3. PICK f : IsFlatten(f, s, 1) /\ FlattenSeq(s) = f[1]
      BY <3>2, FlattenValue
    <3>4. f[1] = s[1]
      BY <3>3 DEF IsFlatten
    <3>. QED  BY <3>1, <3>2, <3>3, <3>4
  <2>. QED  BY <2>1, <2>2
<1>2. TransactionsInv /\ PoolInOrder /\ [TransactionsNext]_xvars => PoolInOrder'
  BY PoolInOrderStep
<1>. QED  BY <1>1, <1>2, TransactionsInvariance, PTL DEF TransactionsSpec
=============================================================================
