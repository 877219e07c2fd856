------------------------------- MODULE Gossip -------------------------------
(***************************************************************************)
(* How events travel: the three threads of every node (lib.rs) and the     *)
(* requests and replies between them.                                      *)
(*                                                                         *)
(*   procedure_a  picks a peer, sends it a SyncReq with the known heights, *)
(*                forms an event on top of its own last event and the last *)
(*                event it knows of that peer, and inserts it              *)
(*   procedure_b  answers a SyncReq with the events the requester lacks    *)
(*   listener     inserts the events of a SyncReply                        *)
(*                                                                         *)
(* One action is one critical section of the code: what runs under one     *)
(* acquisition of a lock of core, conf or store.  The store itself and     *)
(* insert_event are those of module DAGcore.                               *)
(*                                                                         *)
(* Peers are honest, so check_event is always true, and the peer list is   *)
(* the same on every node.  A send may fail; the code logs that and goes   *)
(* on.  Messages may overtake each other ("it may not be from the very     *)
(* same peer we have sent Sync Request above", lib.rs:106).                *)
(***************************************************************************)
EXTENDS DAGcore, SequencesExt

CONSTANTS
  MaxOutstanding,  \* bound: requests of a node not dealt with yet
  AskOn            \* bound: does a node ask on when it may form no more events?

ASSUME MaxOutstandingAssumption == MaxOutstanding \in Nat \ {0}
ASSUME AskOnAssumption == AskOn \in BOOLEAN

VARIABLES
  procA,      \* procA[n]: where procedure_a of n is, and its local variables
  procB,      \* procB[n]: the same for procedure_b
  listener,   \* listener[n]: the same for listener
  requests,   \* requests[n]: the SyncReqs on their way to n
  replies     \* replies[n]: the SyncReplies on their way to n

store == <<event, flag_table, frame, last_finalised_frame>>
gvars == <<vars, procA, procB, listener, requests, replies>>

GossipInit ==
  /\ Init
  /\ procA = [n \in Peers |-> [at |-> "loop"]]
  /\ procB = [n \in Peers |-> [at |-> "next"]]
  /\ listener = [n \in Peers |-> [at |-> "next"]]
  /\ requests = [n \in Peers |-> <<>>]
  /\ replies = [n \in Peers |-> <<>>]

-----------------------------------------------------------------------------
(* update_lamport_time without the comparison. *)
Later_overwrite(a, b) == b

(* update_lamport_time: the clock only goes forward. *)
Later(a, b) == IF a < b THEN b ELSE a

(* get_events_for_gossip that stops before the last known height. *)
get_events_for_gossip_last_kept(n, gossip) ==
  {e \in DOMAIN event[n] :
     \A h \in (gossip[Creator(e)] + 1) .. e[2] :
       <<Creator(e), h>> \in DOMAIN event[n] /\ h < height[n][Creator(e)]}
  \ {e \in DOMAIN event[n] : e[2] <= gossip[Creator(e)]}

(* get_events_for_gossip: of every peer the stored events from the height  *)
(* after the requester's on, up to the first that is missing.  The Vec is  *)
(* sorted by Lamport time only, so events of equal time may come in either *)
(* order: a reply carries the set and Earliest names who may come next.    *)
get_events_for_gossip(n, gossip) ==
  {e \in DOMAIN event[n] :
     \A h \in (gossip[Creator(e)] + 1) .. e[2] : <<Creator(e), h>> \in DOMAIN event[n]}
  \ {e \in DOMAIN event[n] : e[2] <= gossip[Creator(e)]}

(* Events in any order, as without the sort. *)
Earliest_unsorted(events) == events

Earliest(events) ==
  {e \in events : \A x \in events : dag[e].lamport_timestamp <= dag[x].lamport_timestamp}

(* The requests of n that are still on their way, in work, or answered by  *)
(* a reply that n has not worked off.                                      *)
Outstanding(n) ==
  LET RequestsAt(m) == Cardinality({i \in DOMAIN requests[m] : requests[m][i].from = n})
      InWorkAt(m) == IF procB[m].at # "next" /\ procB[m].from = n THEN 1 ELSE 0
  IN  FoldFunction(+, 0, [m \in Peers |-> RequestsAt(m) + InWorkAt(m)])
        + Len(replies[n]) + (IF listener[n].at = "next" THEN 0 ELSE 1)

(* The heights the peer list has, and how they go up. *)
get_gossip_list(n) == height[n]

get_next_height(n) == height' = [height EXCEPT ![n][n] = @ + 1]

update_lamport_time_and_height(n, p, h) == height' = [height EXCEPT ![n][p] = Later(@, h)]

(* What is sent.  The receiver needs no more of it. *)
SyncReq(n, gossip) == [from |-> n, gossip |-> gossip, lamport_time |-> lamport_time[n]]
SyncReply(n, events) == [lamport_time |-> lamport_time[n], events |-> events]

(* TCPsender::send: the message arrives, or an error is logged. *)
Send(inbox, to, message) ==
  \/ inbox' = [inbox EXCEPT ![to] = Append(@, message)]
  \/ UNCHANGED inbox

-----------------------------------------------------------------------------
MayForm(n) == height[n][n] < MaxHeight[n]

(* procedure_a, under conf.write: next_peer and get_gossip_list.           *)
APick(n, p) ==
  /\ procA[n].at = "loop"
  /\ MayForm(n) \/ AskOn
  /\ Outstanding(n) < MaxOutstanding
  /\ procA' = [procA EXCEPT ![n] = [at |-> "send", peer |-> p, gossip |-> get_gossip_list(n)]]
  /\ UNCHANGED <<vars, procB, listener, requests, replies>>

(* The clock is read under core.read, then the request is sent.            *)
ASend(n) ==
  /\ procA[n].at = "send"
  /\ Send(requests, procA[n].peer, SyncReq(n, procA[n].gossip))
  /\ procA' = [procA EXCEPT ![n] = [at |-> "form", peer |-> procA[n].peer]]
  /\ UNCHANGED <<vars, procB, listener, replies>>

(* The last event known of the peer that was asked. *)
OtherParent(n) == <<procA[n].peer, height[n][procA[n].peer]>>

(* A next height that is not stored in the peer list. *)
AForm_height_kept(n) ==
  /\ procA[n].at = "form" /\ MayForm(n)
  /\ {OtherParent(n), <<n, height[n][n]>>} \subseteq DOMAIN event[n]
  /\ procA' = [procA EXCEPT ![n] = [at |-> "stamp", self_parent |-> <<n, height[n][n]>>,
                                    other_parent |-> OtherParent(n)]]
  /\ UNCHANGED <<vars, procB, listener, requests, replies>>

(* get_next_height and the other peer's height, then the two parents from  *)
(* the store.  Nobody else raises the own height, heights only grow and    *)
(* stored events stay, so the three critical sections are one step.  A     *)
(* parent that is not stored would panic (lib.rs:277, 280).                *)
AForm(n) ==
  LET h == height[n][n] + 1
  IN  /\ procA[n].at = "form" /\ MayForm(n)
      /\ {OtherParent(n), <<n, h - 1>>} \subseteq DOMAIN event[n]
      /\ get_next_height(n)
      /\ procA' = [procA EXCEPT ![n] = [at |-> "stamp", self_parent |-> <<n, h - 1>>,
                                        other_parent |-> OtherParent(n)]]
      /\ UNCHANGED <<dag, store, lamport_time, procB, listener, requests, replies>>

(* The bound on the events: the round ends without one. *)
AFormNone(n) ==
  /\ procA[n].at = "form" /\ ~ MayForm(n)
  /\ procA' = [procA EXCEPT ![n] = [at |-> "loop"]]
  /\ UNCHANGED <<vars, procB, listener, requests, replies>>

(* get_next_lamport_time under core.write. *)
AStamp(n) ==
  /\ procA[n].at = "stamp"
  /\ lamport_time' = [lamport_time EXCEPT ![n] = @ + 1]
  /\ procA' = [procA EXCEPT ![n] = [at |-> "insert", self_parent |-> procA[n].self_parent,
                                    other_parent |-> procA[n].other_parent,
                                    lamport_timestamp |-> lamport_time[n] + 1]]
  /\ UNCHANGED <<dag, store, height, procB, listener, requests, replies>>

(* Event::new and insert_event under core.write. *)
AInsert(n) ==
  LET sp == procA[n].self_parent
      op == procA[n].other_parent
      e  == <<n, sp[2] + 1>>
      content == NewEvent(dag, e, sp, op, procA[n].lamport_timestamp)
  IN  /\ procA[n].at = "insert"
      /\ dag' = insert(dag, e, content)
      /\ insert_event(n, e, insert(dag, e, content))
      /\ procA' = [procA EXCEPT ![n] = [at |-> "loop"]]
      /\ UNCHANGED <<lamport_time, height, procB, listener, requests, replies>>

-----------------------------------------------------------------------------
(* procedure_b: receive a request and merge its clock under core.write.    *)
BReceive(n) ==
  /\ procB[n].at = "next"
  /\ \E i \in DOMAIN requests[n] :
       LET req == requests[n][i]
       IN  /\ requests' = [requests EXCEPT ![n] = RemoveAt(@, i)]
           /\ lamport_time' = [lamport_time EXCEPT ![n] = Later(@, req.lamport_time)]
           /\ procB' = [procB EXCEPT ![n] = [at |-> "events", from |-> req.from,
                                             gossip |-> req.gossip]]
  /\ UNCHANGED <<dag, store, height, procA, listener, replies>>

(* get_events_for_gossip under store.read. *)
BEvents(n) ==
  /\ procB[n].at = "events"
  /\ procB' = [procB EXCEPT ![n] = [at |-> "reply", from |-> procB[n].from,
                                    events |-> get_events_for_gossip(n, procB[n].gossip)]]
  /\ UNCHANGED <<vars, procA, listener, requests, replies>>

(* The clock is read under core.read, after the events, and the reply is   *)
(* sent.                                                                   *)
BReply(n) ==
  /\ procB[n].at = "reply"
  /\ Send(replies, procB[n].from, SyncReply(n, procB[n].events))
  /\ procB' = [procB EXCEPT ![n] = [at |-> "next"]]
  /\ UNCHANGED <<vars, procA, listener, requests>>

-----------------------------------------------------------------------------
(* The heights raised when the reply arrives, before the events are stored. *)
LReceive_heights(n) ==
  /\ listener[n].at = "next"
  /\ \E i \in DOMAIN replies[n] :
       LET reply == replies[n][i]
       IN  /\ reply.events # {}
           /\ replies' = [replies EXCEPT ![n] = RemoveAt(@, i)]
           /\ lamport_time' = [lamport_time EXCEPT ![n] = Later(@, reply.lamport_time)]
           /\ height' = [height EXCEPT ![n] = [p \in Peers |->
                Max({@[p]} \cup {e[2] : e \in {x \in reply.events : Creator(x) = p}})]]
           /\ listener' = [listener EXCEPT ![n] = [at |-> "insert", events |-> reply.events]]
  /\ UNCHANGED <<dag, store, procA, procB, requests>>

(* listener: receive a reply and merge its clock under core.write.         *)
LReceive(n) ==
  /\ listener[n].at = "next"
  /\ \E i \in DOMAIN replies[n] :
       LET reply == replies[n][i]
       IN  /\ replies' = [replies EXCEPT ![n] = RemoveAt(@, i)]
           /\ lamport_time' = [lamport_time EXCEPT ![n] = Later(@, reply.lamport_time)]
           /\ listener' = [listener EXCEPT ![n] =
                IF reply.events = {} THEN [at |-> "next"]
                ELSE [at |-> "insert", events |-> reply.events]]
  /\ UNCHANGED <<dag, store, height, procA, procB, requests>>

(* insert_event under core.write, for the next event of the reply.  A      *)
(* parent or its flag table that is not stored would panic (lib.rs:135).   *)
LInsert(n) ==
  /\ listener[n].at = "insert"
  /\ \E e \in Earliest(listener[n].events) :
       /\ {dag[e].self_parent, dag[e].other_parent} \subseteq DOMAIN event[n]
       /\ insert_event(n, e, dag)
       /\ listener' = [listener EXCEPT ![n] =
                         [at |-> "height", inserted |-> e, events |-> listener[n].events \ {e}]]
  /\ UNCHANGED <<dag, lamport_time, height, procA, procB, requests, replies>>

(* update_lamport_time_and_height under conf.write. *)
LHeight(n) ==
  LET e == listener[n].inserted
      rest == listener[n].events
  IN  /\ listener[n].at = "height"
      /\ update_lamport_time_and_height(n, Creator(e), e[2])
      /\ listener' = [listener EXCEPT ![n] =
           IF rest = {} THEN [at |-> "next"] ELSE [at |-> "insert", events |-> rest]]
      /\ UNCHANGED <<dag, store, lamport_time, procA, procB, requests, replies>>

-----------------------------------------------------------------------------
ProcedureA(n) ==
  (\E p \in Partners(n) : APick(n, p)) \/ ASend(n) \/ AForm(n) \/ AFormNone(n)
    \/ AStamp(n) \/ AInsert(n)
ProcedureB(n) == BReceive(n) \/ BEvents(n) \/ BReply(n)
Listener(n) == LReceive(n) \/ LInsert(n) \/ LHeight(n)

GossipNext == \E n \in Peers : ProcedureA(n) \/ ProcedureB(n) \/ Listener(n)

GossipSpec == GossipInit /\ [][GossipNext]_gvars

(* The threads loop for ever, and a message that is sent to the same peer  *)
(* again and again arrives in the end.                                     *)
MessagesArrive ==
  \A n \in Peers : \A p \in Peers \ {n} :
    /\ SF_gvars(ASend(n) /\ requests'[p] # requests[p])
    /\ SF_gvars(BReply(n) /\ replies'[p] # replies[p])

(* insert_event ends: WF of AInsert and LInsert, with the guard in place of *)
(* ENABLED.                                                                *)
Insertable(n) ==
  \E e \in Earliest(listener[n].events) :
    {dag[e].self_parent, dag[e].other_parent} \subseteq DOMAIN event[n]

InsertsEnd(n) ==
  /\ []<>(procA[n].at # "insert")
  /\ []<>(listener[n].at = "insert" => ~ Insertable(n))

FairGossipSpec ==
  /\ GossipSpec
  /\ MessagesArrive
  /\ \A n \in Peers :
       /\ WF_gvars((\E p \in Partners(n) : APick(n, p)) \/ ASend(n) \/ AForm(n) \/ AFormNone(n)
                     \/ AStamp(n))
       /\ WF_gvars(ProcedureB(n))
       /\ WF_gvars(LReceive(n) \/ LHeight(n))
       /\ InsertsEnd(n)

-----------------------------------------------------------------------------
(* Neither thread ever panics on a parent that is not in the store: what   *)
(* procedure_a reads (lib.rs:272-282) and what insert_event needs for the  *)
(* events of a reply, taken in the order of the reply (core.rs:188-196).   *)
ParentsStored ==
  \A n \in Peers :
    /\ procA[n].at = "form" =>
         {OtherParent(n), <<n, height[n][n]>>} \subseteq DOMAIN event[n]
    /\ listener[n].at = "insert" => \A e \in Earliest(listener[n].events) :
         {dag[e].self_parent, dag[e].other_parent} \subseteq DOMAIN event[n]

(* A node's clock covers every event it stores, so what it stamps next is  *)
(* later than the parents; the order of replies, by Lamport time, is then  *)
(* an order in which parents come first (lib.rs:115-119, 363-367, 388).    *)
ClockCoversStore ==
  \A n \in Peers : \A e \in DOMAIN event[n] : dag[e].lamport_timestamp <= lamport_time[n]

(* The heights a node claims in a request are those of events it has when  *)
(* the request is sent, and the answer leaves no gap behind them           *)
(* (lib.rs:144-150 after 135; store_sled.rs:140-174).                      *)
RequestsBacked ==
  \A n \in Peers : \A i \in DOMAIN requests[n] :
    LET req == requests[n][i]
    IN  \A p \in Peers : <<p, req.gossip[p]>> \in DOMAIN event[req.from]

(* A creator never forms two events of one height: while procedure_a forms *)
(* an event its hash is new, although the listener raises heights too and  *)
(* other nodes send the own events back (lib.rs:246-254, 144-150).         *)
NoFork ==
  \A n \in Peers :
    procA[n].at \in {"stamp", "insert"} => <<n, procA[n].self_parent[2] + 1>> \notin DOMAIN dag

(* Every event that a node stores, every node stores in the end: lost      *)
(* messages are made up for by the next request, and no height is claimed  *)
(* that keeps an event from being sent again (lib.rs:201-317, 144-150).    *)
EventsSpread ==
  \A p \in Peers : \A h \in 1 .. MaxHeight[p] :
    <<p, h>> \in DOMAIN dag ~> \A n \in Peers : <<p, h>> \in DOMAIN event[n]
=============================================================================
