---------------------------- MODULE Transactions ----------------------------
(***************************************************************************)
(* The way of a transaction: send_transaction puts it into the node's pool *)
(* (lib.rs:509-512), procedure_a moves the head of the pool into the event *)
(* it forms (core.rs:139-147), consensus puts the event into a frame, and  *)
(* the consumer of every node gets it from there (module Delivery).        *)
(*                                                                         *)
(* Which frame an event falls into is what module DAGcore computes.  Here  *)
(* any frames are taken that its properties allow: the first records of a  *)
(* frame go on in every creator's chain where the frame before has         *)
(* stopped, records of a chain are in the order of the chain               *)
(* (FinalFramesFollowChains), and a frame is final when every peer has an  *)
(* event beyond it.  Besides, an event that a late answer has brought once *)
(* more has further records (lib.rs:135, store_sled.rs:69-83), in its own  *)
(* frame or in another one that is final later.                            *)
(*                                                                         *)
(* The nodes of one log are nodes with the same records: undisturbed ones  *)
(* (UndisturbedAgree), or one on its own.  Left out is what a late answer  *)
(* does besides: a record pushed into a frame that is final already, and   *)
(* an event that falls behind its parent's frame because the number of the *)
(* parent has changed.                                                     *)
(***************************************************************************)
EXTENDS Delivery

CONSTANTS
  TRANSACTIONS_LIMIT,  \* the most transactions in an event
  MaxSent,             \* bound: how many transactions are sent at each node
  MaxEmpty,            \* bound: how many events each forms with an empty pool
  MaxRecords,          \* bound: how many records a frame has
  MaxAgain             \* bound: how many further records there are of events in log

ASSUME LimitAssumption == TRANSACTIONS_LIMIT \in Nat \ {0}
ASSUME BoundsAssumption == {MaxSent, MaxEmpty} \subseteq [Nodes -> Nat]
ASSUME RecordsAssumption == {MaxRecords, MaxAgain} \subseteq Nat

VARIABLES
  tx_pool,  \* DAGcore::tx_pool of each node
  sent,     \* history: what the application has sent at each node
  formed,   \* the chain of each creator, the leaf first, each event its transactions
  decided,  \* how many events of each creator are in the frames of log
  again     \* history: the further records in log

xvars == <<dvars, tx_pool, sent, formed, decided, again>>

TransactionsInit ==
  /\ DeliveryInit
  /\ tx_pool = [n \in Nodes |-> <<>>]
  /\ sent = [n \in Nodes |-> <<>>]
  /\ formed = [n \in Nodes |-> << <<>> >>]
  /\ decided = [n \in Nodes |-> 0]
  /\ again = {}

(* A transaction is known by its sender and its number there. *)
send_transaction(n) ==
  /\ Len(sent[n]) < MaxSent[n]
  /\ LET tx == <<n, Len(sent[n]) + 1>>
     IN  /\ tx_pool' = [tx_pool EXCEPT ![n] = Append(@, tx)]
         /\ sent' = [sent EXCEPT ![n] = Append(@, tx)]
  /\ UNCHANGED <<dvars, formed, decided, again>>

TakenLength(pool) == IF Len(pool) > TRANSACTIONS_LIMIT THEN TRANSACTIONS_LIMIT ELSE Len(pool)

(* next_transactions without the swap: split_off returns the tail. *)
next_transactions_unswapped(pool) ==
  [taken |-> SubSeq(pool, TakenLength(pool) + 1, Len(pool)),
   kept |-> SubSeq(pool, 1, TakenLength(pool))]

(* next_transactions that clones the head of the pool. *)
next_transactions_cloned(pool) ==
  [taken |-> SubSeq(pool, 1, TakenLength(pool)), kept |-> pool]

next_transactions(pool) ==
  [taken |-> SubSeq(pool, 1, TakenLength(pool)),
   kept |-> SubSeq(pool, TakenLength(pool) + 1, Len(pool))]

Empties(n) == Cardinality({i \in 2 .. Len(formed[n]) : formed[n][i] = <<>>})

(* procedure_a forms an event, whether there are transactions or not. *)
FormEvent(n) ==
  /\ tx_pool[n] # <<>> \/ Empties(n) < MaxEmpty[n]
  /\ Len(formed[n]) <= MaxSent[n] + MaxEmpty[n]
  /\ LET next == next_transactions(tx_pool[n])
     IN  /\ tx_pool' = [tx_pool EXCEPT ![n] = next.kept]
         /\ formed' = [formed EXCEPT ![n] = Append(@, next.taken)]
  /\ UNCHANGED <<dvars, sent, decided, again>>

(* How many events of each creator come into the next frame.               *)
Sizes ==
  {size \in [Nodes -> UNION {0 .. Len(formed[c]) : c \in Nodes}] :
     /\ Cardinality({c \in Nodes : size[c] > 0}) >= 2
     /\ \A c \in Nodes : decided[c] + size[c] < Len(formed[c])}

(* A record is an event, that is a creator and a position, and 0 for the   *)
(* first record of the event or the number of a further one.               *)
Event(record) == record[1]

FirstRecords(size) ==
  UNION {({c} \X (decided[c] + 1 .. decided[c] + size[c])) \X {0} : c \in Nodes}

FormedEvents == UNION {{c} \X (1 .. Len(formed[c])) : c \in Nodes}

FurtherRecords ==
  {records \in SUBSET (FormedEvents \X (1 .. MaxAgain)) :
     records \cap again = {} /\ Cardinality(again \cup records) <= MaxAgain}

(* finalise: by Lamport time, which grows along each chain.                *)
Orders(records) ==
  {order \in SetToSeqs(records) :
     \A i, j \in DOMAIN order :
       Event(order[i])[1] = Event(order[j])[1] /\ Event(order[i])[2] < Event(order[j])[2] => i < j}

FrameInOrder(order) ==
  [i \in DOMAIN order |-> formed[Event(order[i])[1]][Event(order[i])[2]]]

(* insert_event finalises a frame that another node has finalised, or one  *)
(* that no node has.                                                       *)
FinaliseKnown(n) ==
  /\ last_finalised_frame[n] + 1 < Len(log)
  /\ FinaliseFrame(n, {})
  /\ UNCHANGED <<tx_pool, sent, formed, decided, again>>

FinaliseNew(n) ==
  /\ last_finalised_frame[n] + 1 = Len(log)
  /\ \E size \in Sizes, further \in FurtherRecords :
       /\ Cardinality(FirstRecords(size) \cup further) <= MaxRecords
       /\ FinaliseFrame(n, {FrameInOrder(order) :
                              order \in Orders(FirstRecords(size) \cup further)})
       /\ decided' = [c \in Nodes |-> decided[c] + size[c]]
       /\ again' = again \cup further
  /\ UNCHANGED <<tx_pool, sent, formed>>

PollTransactions(n) == Poll(n) /\ UNCHANGED <<tx_pool, sent, formed, decided, again>>

TransactionsNext ==
  \E n \in Nodes :
    send_transaction(n) \/ FormEvent(n) \/ FinaliseKnown(n) \/ FinaliseNew(n)
      \/ PollTransactions(n)

TransactionsSpec == TransactionsInit /\ [][TransactionsNext]_xvars

-----------------------------------------------------------------------------
(* No transaction is lost on its way into the DAG, doubled or overtaken by *)
(* a later one, although only some of a long pool go into an event and the *)
(* application sends while events are formed (core.rs:139-147).            *)
PoolInOrder == \A n \in Nodes : FlattenSeq(formed[n]) \o tx_pool[n] = sent[n]

(* End to end, a consumer gets a transaction as often as its event is      *)
(* recorded in the final frames, at most: the transaction is in one event, *)
(* and the cursor goes over no record twice, whatever is finalised between *)
(* polls.  So it gets a transaction once unless a late answer has made     *)
(* insert_event record the event again (core.rs:139-147, lib.rs:600-696,   *)
(* lib.rs:135).  The final frames are those of one log, as said above.     *)
TxAt(place) == log[place[1] + 1][place[2] + 1][place[3] + 1]

RecordedAgain(tx) == \E r \in again : tx \in Range(formed[Event(r)[1]][Event(r)[2]])

ReceivedPerRecord ==
  \A n \in Nodes : \A i, j \in DOMAIN delivered[n] : i # j =>
    /\ delivered[n][i] # delivered[n][j]
    /\ TxAt(delivered[n][i]) = TxAt(delivered[n][j]) => RecordedAgain(TxAt(delivered[n][i]))
=============================================================================
