---------------------------- MODULE GossipProofs ----------------------------
(***************************************************************************)
(* Safety of module Gossip for every number of peers, every bound on the   *)
(* heights and every number of requests under way.                         *)
(*                                                                         *)
(* The argument.  A node claims a height only when it stores the event of  *)
(* it, and it stores a prefix of every creator's chain.  So whatever a     *)
(* request's heights leave out of the answer is stored by the requester,   *)
(* and the parents of an answered event are stored there or are in the     *)
(* answer themselves (Replyable), now and for good, as stores only grow.   *)
(* Parents have earlier stamps than their children; hence the earliest     *)
(* event of an answer never waits for another one of the answer.  That     *)
(* stamps grow along the edges of the DAG needs the clocks: a node's clock *)
(* covers its store, since the clock that a reply carries was read after   *)
(* its events and is merged before they are inserted.                      *)
(*                                                                         *)
(* The frames come last: as every insertion finds its parents stored, the  *)
(* invariant of the stores (FrameProofs) is kept, late answers or not, and *)
(* what the core promises holds at every undisturbed node.                 *)
(***************************************************************************)
EXTENDS Gossip, FrameProofs, SequenceTheorems

Stamp(e) == dag[e].lamport_timestamp
Parents(e) == {dag[e].self_parent, dag[e].other_parent}
Stored(n) == DOMAIN event[n]

(* Every event but the leaves is later than its two parents. *)
TreeOK ==
  /\ Leaves \subseteq DOMAIN dag /\ DOMAIN dag \subseteq Events
  /\ \A e \in DOMAIN dag : Stamp(e) \in Nat
  /\ \A e \in DOMAIN dag \ Leaves :
       /\ dag[e].self_parent = SelfParentOf(e)
       /\ Parents(e) \subseteq DOMAIN dag
       /\ \A x \in Parents(e) : Stamp(x) < Stamp(e)

(* A store has a prefix of every chain, the parents of what it has, and    *)
(* nothing that is later than the node's clock.                            *)
StoreOK(n) ==
  /\ Leaves \subseteq Stored(n) /\ Stored(n) \subseteq DOMAIN dag
  /\ PrefixOK(Stored(n))
  /\ \A e \in Stored(n) \ Leaves : Parents(e) \subseteq Stored(n)
  /\ \A e \in Stored(n) : Stamp(e) <= lamport_time[n]

(* The heights of the peer list are those of stored events; the own height *)
(* is one ahead while procedure_a forms an event.                          *)
Forming(n) == procA[n].at \in {"stamp", "insert"}

PeerHeightsOK(n) ==
  /\ \A p \in Peers \ {n} : <<p, height[n][p]>> \in Stored(n)
  /\ ~ Forming(n) => <<n, height[n][n]>> \in Stored(n)
  /\ \A k \in Nat : <<n, k>> \in DOMAIN dag =>
       /\ <<n, k>> \in Stored(n) /\ k <= height[n][n]
       /\ Forming(n) => k # height[n][n]

(* Heights that node n may claim, now and later. *)
Backed(n, gossip) ==
  gossip \in [Peers -> Nat] /\ \A p \in Peers : <<p, gossip[p]>> \in Stored(n)

(* Events that node n can insert in the order of their stamps. *)
Replyable(n, events) ==
  /\ events \subseteq DOMAIN dag \ Leaves
  /\ \A e \in events : Parents(e) \subseteq events \cup Stored(n)

ProcAOK(n) ==
  /\ procA[n].at \in {"loop", "send", "form", "stamp", "insert"}
  /\ procA[n].at \in {"send", "form"} => procA[n].peer \in Peers
  /\ procA[n].at = "send" => Backed(n, procA[n].gossip)
  /\ Forming(n) =>
       /\ procA[n].self_parent = <<n, height[n][n] - 1>>
       /\ height[n][n] - 1 \in Nat
       /\ {procA[n].self_parent, procA[n].other_parent} \subseteq Stored(n)
  /\ procA[n].at = "insert" =>
       /\ procA[n].lamport_timestamp \in Nat
       /\ procA[n].lamport_timestamp <= lamport_time[n]
       /\ Stamp(procA[n].self_parent) < procA[n].lamport_timestamp
       /\ Stamp(procA[n].other_parent) < procA[n].lamport_timestamp

ProcBOK(n) ==
  /\ procB[n].at \in {"next", "events", "reply"}
  /\ procB[n].at # "next" => procB[n].from \in Peers
  /\ procB[n].at = "events" => Backed(procB[n].from, procB[n].gossip)
  /\ procB[n].at = "reply" => /\ procB[n].events \subseteq Stored(n)
                              /\ Replyable(procB[n].from, procB[n].events)

ListenerOK(n) ==
  /\ listener[n].at \in {"next", "insert", "height"}
  /\ listener[n].at # "next" =>
       /\ Replyable(n, listener[n].events)
       /\ \A e \in listener[n].events : Stamp(e) <= lamport_time[n]
  /\ listener[n].at = "height" => listener[n].inserted \in Stored(n)

GoodRequests ==
  {r \in [from : Peers, gossip : [Peers -> Nat], lamport_time : Nat] : Backed(r.from, r.gossip)}

GoodReplies(n) ==
  {r \in [lamport_time : Nat, events : SUBSET DOMAIN dag] :
     Replyable(n, r.events) /\ \A e \in r.events : Stamp(e) <= r.lamport_time}

ShapeOK ==
  /\ DOMAIN event = Peers
  /\ lamport_time \in [Peers -> Nat]
  /\ height \in [Peers -> [Peers -> Nat]]
  /\ DOMAIN procA = Peers /\ DOMAIN procB = Peers /\ DOMAIN listener = Peers
  /\ DOMAIN requests = Peers /\ DOMAIN replies = Peers

GossipInv ==
  /\ ShapeOK
  /\ TreeOK
  /\ \A n \in Peers :
       /\ StoreOK(n) /\ PeerHeightsOK(n)
       /\ ProcAOK(n) /\ ProcBOK(n) /\ ListenerOK(n)
       /\ requests[n] \in Seq(GoodRequests)
       /\ replies[n] \in Seq(GoodReplies(n))

-----------------------------------------------------------------------------
(* An inbox after one message has been taken out, or one put in.           *)
LEMMA InboxTake ==
  ASSUME NEW S, NEW s \in Seq(S), NEW i \in DOMAIN s
  PROVE  s[i] \in S /\ RemoveAt(s, i) \in Seq(S)
<1>1. i \in 1 .. Len(s) /\ Len(s) \in Nat
  OBVIOUS
<1>2. SubSeq(s, 1, i - 1) \in Seq(S) /\ SubSeq(s, i + 1, Len(s)) \in Seq(S)
  BY <1>1, SubSeqProperties
<1>. QED  BY <1>1, <1>2, ConcatProperties DEF RemoveAt

-----------------------------------------------------------------------------
(* What only grows: the DAG, the stores and the clocks. *)
Grown ==
  /\ \A e \in DOMAIN dag : e \in DOMAIN dag' /\ dag'[e] = dag[e]
  /\ \A m \in Peers : Stored(m) \subseteq Stored(m)'
  /\ lamport_time' \in [Peers -> Nat]
  /\ \A m \in Peers : lamport_time[m] <= lamport_time'[m]

(* What is claimed or answered stays true while that grows.                *)
LEMMA BackedKept ==
  ASSUME Grown, NEW n \in Peers, NEW gossip, Backed(n, gossip)
  PROVE  Backed(n, gossip)'
BY DEF Grown, Backed

LEMMA ReplyableKept ==
  ASSUME Grown, NEW n \in Peers, NEW events, Replyable(n, events)
  PROVE  Replyable(n, events)' /\ \A e \in events : Stamp(e)' = Stamp(e)
BY DEF Grown, Replyable, Parents, Stamp

LEMMA MessagesKept ==
  ASSUME Grown
  PROVE  /\ GoodRequests \subseteq GoodRequests'
         /\ \A n \in Peers : GoodReplies(n) \subseteq GoodReplies(n)'
<1>1. ASSUME NEW r \in GoodRequests PROVE r \in GoodRequests'
  <2>1. r.from \in Peers /\ Backed(r.from, r.gossip)
    BY DEF GoodRequests
  <2>2. Backed(r.from, r.gossip)'
    BY <2>1, BackedKept
  <2>. QED  BY <2>2 DEF GoodRequests
<1>2. ASSUME NEW n \in Peers, NEW r \in GoodReplies(n) PROVE r \in GoodReplies(n)'
  <2>1. Replyable(n, r.events)
    BY DEF GoodReplies
  <2>2. Replyable(n, r.events)' /\ \A e \in r.events : Stamp(e)' = Stamp(e)
    BY <2>1, ReplyableKept
  <2>3. r.events \subseteq DOMAIN dag'
    BY <2>2 DEF Replyable
  <2>. QED  BY <2>2, <2>3 DEF GoodReplies
<1>. QED  BY <1>1, <1>2

(* What no step of its own thread touches keeps its part of the invariant. *)
LEMMA Kept ==
  ASSUME GossipInv, Grown, NEW n \in Peers
  PROVE  /\ procA'[n] = procA[n] /\ height'[n][n] = height[n][n] => ProcAOK(n)'
         /\ procB'[n] = procB[n] => ProcBOK(n)'
         /\ listener'[n] = listener[n] => ListenerOK(n)'
         /\ requests'[n] = requests[n] => requests'[n] \in Seq(GoodRequests')
         /\ replies'[n] = replies[n] => replies'[n] \in Seq(GoodReplies(n)')
<1>1. ASSUME procA'[n] = procA[n], height'[n][n] = height[n][n] PROVE ProcAOK(n)'
  <2>. PICK a : a = procA[n]
    OBVIOUS
  <2>1. ProcAOK(n) /\ Stored(n) \subseteq DOMAIN dag
    BY DEF GossipInv, StoreOK
  <2>2. a.at = "send" => Backed(n, a.gossip)'
    BY <2>1, BackedKept DEF ProcAOK
  <2>3. Stored(n) \subseteq Stored(n)' /\ lamport_time[n] <= lamport_time'[n]
        /\ lamport_time[n] \in Nat /\ lamport_time'[n] \in Nat
    BY DEF Grown, GossipInv, ShapeOK
  <2>4. \A x \in Stored(n) : Stamp(x)' = Stamp(x)
    BY <2>1 DEF Grown, Stamp
  <2>5. a.at = "send" => Backed(n, procA[n].gossip)'
    BY <1>1, <2>2 DEF Backed
  <2>6. a.at = "insert" =>
          /\ Stamp(procA[n].self_parent)' < a.lamport_timestamp
          /\ Stamp(procA[n].other_parent)' < a.lamport_timestamp
    <3>1. ASSUME a.at = "insert"
          PROVE  /\ Stamp(a.self_parent)' < a.lamport_timestamp
                 /\ Stamp(a.other_parent)' < a.lamport_timestamp
      BY <2>1, <2>4, <3>1 DEF ProcAOK, Forming
    <3>. QED  BY <1>1, <3>1 DEF Stamp
  <2>. QED  BY <1>1, <2>1, <2>3, <2>5, <2>6 DEF ProcAOK, Forming
<1>2. ASSUME procB'[n] = procB[n] PROVE ProcBOK(n)'
  <2>. PICK b : b = procB[n]
    OBVIOUS
  <2>1. ProcBOK(n) /\ Stored(n) \subseteq Stored(n)'
    BY DEF GossipInv, Grown
  <2>2. b.at = "events" => Backed(b.from, b.gossip)'
    BY <2>1, BackedKept DEF ProcBOK
  <2>3. b.at = "reply" => Replyable(b.from, b.events)'
    BY <2>1, ReplyableKept DEF ProcBOK
  <2>4. b.at = "events" => Backed(procB[n].from, procB[n].gossip)'
    BY <1>2, <2>2 DEF Backed, Stored
  <2>5. b.at = "reply" => Replyable(procB[n].from, procB[n].events)'
    BY <1>2, <2>3 DEF Replyable, Stored
  <2>. QED  BY <1>2, <2>1, <2>4, <2>5 DEF ProcBOK
<1>3. ASSUME listener'[n] = listener[n] PROVE ListenerOK(n)'
  <2>. PICK l : l = listener[n]
    OBVIOUS
  <2>1. ListenerOK(n) /\ Stored(n) \subseteq Stored(n)' /\ lamport_time[n] <= lamport_time'[n]
        /\ lamport_time[n] \in Nat /\ lamport_time'[n] \in Nat
    BY DEF GossipInv, Grown, ShapeOK
  <2>2. l.at # "next" =>
          /\ Replyable(n, l.events)'
          /\ \A e \in l.events : Stamp(e)' = Stamp(e) /\ Stamp(e) \in Nat
    <3>1. \A e \in DOMAIN dag : Stamp(e) \in Nat
      BY DEF GossipInv, TreeOK
    <3>2. l.at # "next" => l.events \subseteq DOMAIN dag /\ Replyable(n, l.events)
      BY <2>1 DEF ListenerOK, Replyable
    <3>. QED  BY <3>1, <3>2, ReplyableKept
  <2>3. l.at # "next" =>
          /\ Replyable(n, listener[n].events)'
          /\ \A e \in listener'[n].events : Stamp(e)' <= lamport_time'[n]
    <3>1. l.at # "next" => Replyable(n, listener[n].events)'
      BY <1>3, <2>2 DEF Replyable
    <3>2. ASSUME l.at # "next", NEW e \in l.events PROVE Stamp(e)' <= lamport_time'[n]
      BY <2>1, <2>2, <3>2 DEF ListenerOK
    <3>. QED  BY <1>3, <3>1, <3>2
  <2>. QED  BY <1>3, <2>1, <2>3 DEF ListenerOK
<1>4. requests[n] \in Seq(GoodRequests) /\ replies[n] \in Seq(GoodReplies(n))
  BY DEF GossipInv
<1>5. /\ requests[n] \in Seq(GoodRequests')
      /\ replies[n] \in Seq(GoodReplies(n)')
  BY <1>4, MessagesKept, SeqMonotonic
<1>. QED  BY <1>1, <1>2, <1>3, <1>5

-----------------------------------------------------------------------------
(* The critical sections that store no event. *)

(* They leave DAG and stores alone, and clocks only go forward.            *)
Quiet ==
  /\ UNCHANGED <<dag, event>>
  /\ lamport_time' \in [Peers -> Nat]
  /\ \A m \in Peers : lamport_time[m] <= lamport_time'[m]

LEMMA QuietKept ==
  ASSUME GossipInv, Quiet
  PROVE  /\ Grown /\ TreeOK'
         /\ \A n \in Peers :
              /\ StoreOK(n)'
              /\ height'[n] = height[n] /\ (Forming(n)' <=> Forming(n)) => PeerHeightsOK(n)'
<1>1. Grown
  BY DEF Quiet, Grown, Stored
<1>2. TreeOK'
  BY DEF Quiet, GossipInv, TreeOK, Stamp, Parents
<1>3. ASSUME NEW n \in Peers PROVE StoreOK(n)'
  <2>1. StoreOK(n) /\ lamport_time[n] \in Nat /\ lamport_time'[n] \in Nat
        /\ lamport_time[n] <= lamport_time'[n]
    BY DEF GossipInv, ShapeOK, Quiet
  <2>2. Stored(n)' = Stored(n) /\ dag' = dag
    BY DEF Quiet, Stored
  <2>3. \A e \in Stored(n) : Stamp(e)' <= lamport_time'[n]
    <3>1. \A e \in Stored(n) : Stamp(e) \in Nat /\ Stamp(e) <= lamport_time[n]
      BY <2>1 DEF StoreOK, GossipInv, TreeOK
    <3>2. \A e : Stamp(e)' = Stamp(e)
      BY <2>2 DEF Stamp
    <3>. QED  BY <2>1, <3>1, <3>2
  <2>. QED  BY <2>1, <2>2, <2>3 DEF StoreOK, Parents
<1>4. ASSUME NEW n \in Peers, height'[n] = height[n], Forming(n)' <=> Forming(n)
      PROVE  PeerHeightsOK(n)'
  BY <1>4 DEF Quiet, GossipInv, PeerHeightsOK, Stored
<1>. QED  BY <1>1, <1>2, <1>3, <1>4

(* procedure_a picks a peer and copies the heights (lib.rs:213-219).       *)
LEMMA APickStep ==
  ASSUME GossipInv, NEW n \in Peers, NEW p \in Partners(n), APick(n, p)
  PROVE  GossipInv'
<1>1. ShapeOK' /\ Quiet
  BY DEF GossipInv, ShapeOK, APick, Quiet, vars
<1>2. \A m \in Peers : height'[m] = height[m] /\ (Forming(m)' <=> Forming(m))
  BY DEF GossipInv, ShapeOK, APick, vars, Forming
<1>3. ProcAOK(n)'
  <2>1. p \in Peers
    BY PartnersArePeers
  <2>2. Backed(n, height[n])
    BY DEF GossipInv, ShapeOK, PeerHeightsOK, APick, Backed, Forming
  <2>3. procA'[n] = [at |-> "send", peer |-> p, gossip |-> height[n]]
    BY DEF GossipInv, ShapeOK, APick, get_gossip_list
  <2>4. event' = event
    BY <1>1 DEF Quiet
  <2>5. Backed(n, procA[n].gossip)'
    BY <2>2, <2>3, <2>4 DEF Backed, Stored
  <2>. QED  BY <2>1, <2>3, <2>5 DEF ProcAOK, Forming
<1>4. \A m \in Peers \ {n} : procA'[m] = procA[m]
  BY DEF GossipInv, ShapeOK, APick
<1>5. UNCHANGED <<procB, listener, requests, replies>>
  BY DEF APick
<1>. QED  BY <1>1, <1>2, <1>3, <1>4, <1>5, QuietKept, Kept DEF GossipInv

(* A message that is sent arrives, or nothing does.                        *)
LEMMA SendKept ==
  ASSUME NEW inbox, NEW after, NEW to, NEW message, NEW S, NEW m \in DOMAIN inbox,
         inbox[m] \in Seq(S), m = to => message \in S,
         after = [inbox EXCEPT ![to] = Append(@, message)] \/ after = inbox
  PROVE  DOMAIN after = DOMAIN inbox /\ after[m] \in Seq(S)
<1>1. m = to => Append(inbox[m], message) \in Seq(S)
  BY AppendProperties
<1>. QED  BY <1>1

(* procedure_a sends the request with the heights it copied before         *)
(* (lib.rs:221-240).                                                       *)
LEMMA ASendStep ==
  ASSUME GossipInv, NEW n \in Peers, ASend(n)
  PROVE  GossipInv'
<1>1. Quiet /\ UNCHANGED height
  BY DEF GossipInv, ShapeOK, ASend, Quiet, vars
<1>2. ProcAOK(n) /\ procA[n].at = "send" /\ procA[n].peer \in Peers
  BY DEF GossipInv, ASend, ProcAOK
<1>3. procA'[n] = [at |-> "form", peer |-> procA[n].peer]
  BY DEF GossipInv, ShapeOK, ASend
<1>4. \A m \in Peers \ {n} : procA'[m] = procA[m]
  BY DEF GossipInv, ShapeOK, ASend
<1>5. \A m \in Peers : Forming(m)' <=> Forming(m)
  BY <1>2, <1>3, <1>4 DEF Forming
<1>6. ProcAOK(n)'
  BY <1>2, <1>3 DEF ProcAOK, Forming
<1>7. UNCHANGED <<procB, listener, replies>>
  BY DEF ASend
<1>8. DOMAIN requests' = Peers /\ \A m \in Peers : requests'[m] \in Seq(GoodRequests')
  <2>. DEFINE message == SyncReq(n, procA[n].gossip)
  <2>1. message \in GoodRequests
    BY <1>2 DEF ProcAOK, SyncReq, GoodRequests, Backed, GossipInv, ShapeOK
  <2>2. \/ requests' = [requests EXCEPT ![procA[n].peer] = Append(@, message)]
        \/ requests' = requests
    BY DEF ASend, Send
  <2>3. DOMAIN requests = Peers /\ \A m \in Peers : requests[m] \in Seq(GoodRequests)
    BY DEF GossipInv, ShapeOK
  <2>. HIDE DEF message
  <2>4. \A m \in Peers : DOMAIN requests' = Peers /\ requests'[m] \in Seq(GoodRequests)
    BY <2>1, <2>2, <2>3, SendKept
  <2>5. GoodRequests \subseteq GoodRequests'
    BY <1>1, QuietKept, MessagesKept
  <2>. QED  BY <2>4, <2>5, SeqMonotonic
<1>9. ShapeOK'
  BY <1>1, <1>7, <1>8 DEF GossipInv, ShapeOK, ASend, Quiet
<1>. QED  BY <1>1, <1>4, <1>5, <1>6, <1>7, <1>8, <1>9, QuietKept, Kept DEF GossipInv

(* procedure_a takes the next height (lib.rs:244-285).                     *)
LEMMA AFormStep ==
  ASSUME GossipInv, NEW n \in Peers, AForm(n)
  PROVE  GossipInv'
<1>1. Quiet
  BY DEF GossipInv, ShapeOK, AForm, Quiet, store
<1>2. /\ height' = [height EXCEPT ![n][n] = @ + 1] /\ procA[n].at = "form"
      /\ {OtherParent(n), <<n, (height[n][n] + 1) - 1>>} \subseteq Stored(n)
  BY DEF AForm, get_next_height, Stored
<1>3. /\ height[n] \in [Peers -> Nat] /\ height[n][n] \in Nat
      /\ height'[n] \in [Peers -> Nat] /\ height'[n][n] = height[n][n] + 1
      /\ height' \in [Peers -> [Peers -> Nat]]
      /\ \A p \in Peers \ {n} : height'[n][p] = height[n][p]
      /\ \A m \in Peers \ {n} : height'[m] = height[m]
  BY <1>2 DEF GossipInv, ShapeOK
<1>4. (height[n][n] + 1) - 1 = height[n][n] /\ height'[n][n] - 1 = height[n][n]
  BY <1>3
<1>5. procA'[n] = [at |-> "stamp", self_parent |-> <<n, height[n][n]>>,
                   other_parent |-> OtherParent(n)]
  BY <1>4 DEF GossipInv, ShapeOK, AForm
<1>6. \A m \in Peers \ {n} : procA'[m] = procA[m]
  BY DEF GossipInv, ShapeOK, AForm
<1>7. UNCHANGED <<procB, listener, requests, replies>>
  BY DEF AForm
<1>8. Stored(n)' = Stored(n) /\ dag' = dag
  BY <1>1 DEF Quiet, Stored
<1>9. ProcAOK(n)'
  BY <1>2, <1>3, <1>4, <1>5, <1>8 DEF ProcAOK, Forming
<1>10. PeerHeightsOK(n)'
  <2>1. PeerHeightsOK(n) /\ Forming(n)'
    BY <1>5 DEF GossipInv, Forming
  <2>2. \A p \in Peers \ {n} : <<p, height'[n][p]>> \in Stored(n)'
    BY <1>3, <1>8, <2>1 DEF PeerHeightsOK
  <2>3. ASSUME NEW k \in Nat, <<n, k>> \in DOMAIN dag
        PROVE  <<n, k>> \in Stored(n) /\ k <= height'[n][n] /\ k # height'[n][n]
    <3>1. <<n, k>> \in Stored(n) /\ k <= height[n][n]
      BY <2>1, <2>3 DEF PeerHeightsOK
    <3>. QED  BY <1>3, <3>1
  <2>. QED  BY <1>8, <2>1, <2>2, <2>3 DEF PeerHeightsOK
<1>11. ShapeOK'
  BY <1>1, <1>3, <1>7 DEF GossipInv, ShapeOK, AForm, Quiet
<1>12. ASSUME NEW m \in Peers \ {n} PROVE PeerHeightsOK(m)' /\ ProcAOK(m)'
  BY <1>1, <1>3, <1>6, QuietKept, Kept DEF Forming
<1>. QED  BY <1>1, <1>7, <1>9, <1>10, <1>11, <1>12, QuietKept, Kept DEF GossipInv

(* The bound on the events ends the round.                                 *)
LEMMA AFormNoneStep ==
  ASSUME GossipInv, NEW n \in Peers, AFormNone(n)
  PROVE  GossipInv'
<1>1. ShapeOK' /\ Quiet /\ UNCHANGED height
  BY DEF GossipInv, ShapeOK, AFormNone, Quiet, vars
<1>2. procA[n].at = "form" /\ procA'[n] = [at |-> "loop"]
  BY DEF GossipInv, ShapeOK, AFormNone
<1>3. \A m \in Peers \ {n} : procA'[m] = procA[m]
  BY DEF GossipInv, ShapeOK, AFormNone
<1>4. \A m \in Peers : Forming(m)' <=> Forming(m)
  BY <1>2, <1>3 DEF Forming
<1>5. ProcAOK(n)'
  BY <1>2 DEF ProcAOK, Forming
<1>6. UNCHANGED <<procB, listener, requests, replies>>
  BY DEF AFormNone
<1>. QED  BY <1>1, <1>3, <1>4, <1>5, <1>6, QuietKept, Kept DEF GossipInv

(* procedure_a takes the next clock (lib.rs:286-293).                      *)
LEMMA AStampStep ==
  ASSUME GossipInv, NEW n \in Peers, AStamp(n)
  PROVE  GossipInv'
<1>1. /\ lamport_time[n] \in Nat /\ lamport_time'[n] = lamport_time[n] + 1
      /\ lamport_time' \in [Peers -> Nat] /\ \A m \in Peers \ {n} : lamport_time'[m] = lamport_time[m]
      /\ \A m \in Peers : lamport_time[m] \in Nat
  BY DEF GossipInv, ShapeOK, AStamp
<1>2. Quiet /\ UNCHANGED height
  BY <1>1 DEF AStamp, Quiet, store
<1>3. procA[n].at = "stamp"
      /\ procA'[n] = [at |-> "insert", self_parent |-> procA[n].self_parent,
                      other_parent |-> procA[n].other_parent,
                      lamport_timestamp |-> lamport_time[n] + 1]
  BY DEF GossipInv, ShapeOK, AStamp
<1>4. \A m \in Peers \ {n} : procA'[m] = procA[m]
  BY DEF GossipInv, ShapeOK, AStamp
<1>5. \A m \in Peers : Forming(m)' <=> Forming(m)
  BY <1>3, <1>4 DEF Forming
<1>6. ShapeOK'
  BY <1>1 DEF GossipInv, ShapeOK, AStamp, store
<1>7. ProcAOK(n)'
  <2>. PICK a : a = procA[n]
    OBVIOUS
  <2>1. /\ a.self_parent = <<n, height[n][n] - 1>> /\ height[n][n] - 1 \in Nat
        /\ {a.self_parent, a.other_parent} \subseteq Stored(n)
    BY <1>3 DEF GossipInv, ProcAOK, Forming
  <2>2. \A x \in Stored(n) : Stamp(x) \in Nat /\ Stamp(x) <= lamport_time[n]
    BY DEF GossipInv, StoreOK, TreeOK
  <2>3. Stamp(a.self_parent) < lamport_time[n] + 1 /\ Stamp(a.other_parent) < lamport_time[n] + 1
    BY <1>1, <2>1, <2>2
  <2>4. Stamp(procA[n].self_parent)' < lamport_time[n] + 1
        /\ Stamp(procA[n].other_parent)' < lamport_time[n] + 1
    BY <1>2, <1>3, <2>3 DEF Stamp, Quiet
  <2>5. Stored(n)' = Stored(n)
    BY <1>2 DEF Quiet, Stored
  <2>. QED  BY <1>1, <1>2, <1>3, <2>1, <2>4, <2>5 DEF ProcAOK, Forming
<1>8. UNCHANGED <<procB, listener, requests, replies>>
  BY DEF AStamp
<1>. QED  BY <1>2, <1>4, <1>5, <1>6, <1>7, <1>8, QuietKept, Kept DEF GossipInv

(* The later of two clocks. *)
LEMMA LaterClock ==
  ASSUME GossipInv, NEW n \in Peers, NEW time \in Nat,
         lamport_time' = [lamport_time EXCEPT ![n] = Later(@, time)], UNCHANGED <<dag, event>>
  PROVE  Quiet /\ time <= lamport_time'[n]
<1>1. Later(lamport_time[n], time) \in Nat /\ lamport_time[n] <= Later(lamport_time[n], time)
      /\ time <= Later(lamport_time[n], time) /\ \A m \in Peers : lamport_time[m] \in Nat
  BY DEF GossipInv, ShapeOK, Later
<1>. QED  BY <1>1 DEF Quiet, GossipInv, ShapeOK

(* procedure_b takes a request and merges its clock (lib.rs:348-367).      *)
LEMMA BReceiveStep ==
  ASSUME GossipInv, NEW n \in Peers, BReceive(n)
  PROVE  GossipInv'
<1>1. PICK i \in DOMAIN requests[n] :
        /\ requests' = [requests EXCEPT ![n] = RemoveAt(@, i)]
        /\ lamport_time' = [lamport_time EXCEPT ![n] = Later(@, requests[n][i].lamport_time)]
        /\ procB' = [procB EXCEPT ![n] = [at |-> "events", from |-> requests[n][i].from,
                                          gossip |-> requests[n][i].gossip]]
  BY DEF BReceive
<1>. PICK req : req = requests[n][i]
  OBVIOUS
<1>2. req \in GoodRequests /\ RemoveAt(requests[n], i) \in Seq(GoodRequests)
  BY <1>1, InboxTake DEF GossipInv
<1>3. req.from \in Peers /\ Backed(req.from, req.gossip) /\ req.lamport_time \in Nat
  BY <1>2 DEF GoodRequests
<1>4. UNCHANGED <<dag, event, height, procA, listener, replies>>
  BY DEF BReceive, store
<1>5. Quiet
  BY <1>1, <1>3, <1>4, LaterClock
<1>6. procB'[n] = [at |-> "events", from |-> req.from, gossip |-> req.gossip]
      /\ \A m \in Peers \ {n} : procB'[m] = procB[m]
  BY <1>1 DEF GossipInv, ShapeOK
<1>7. ProcBOK(n)'
  <2>1. Backed(procB[n].from, procB[n].gossip)'
    BY <1>3, <1>4, <1>6 DEF Backed, Stored
  <2>. QED  BY <1>3, <1>6, <2>1 DEF ProcBOK
<1>8. \A m \in Peers : requests'[m] \in Seq(GoodRequests')
  <2>1. \A m \in Peers : requests'[m] \in Seq(GoodRequests)
    BY <1>1, <1>2 DEF GossipInv, ShapeOK
  <2>2. GoodRequests \subseteq GoodRequests'
    BY <1>5, QuietKept, MessagesKept
  <2>. QED  BY <2>1, <2>2, SeqMonotonic
<1>9. ShapeOK'
  BY <1>1, <1>4, <1>5 DEF GossipInv, ShapeOK, Quiet
<1>10. \A m \in Peers : Forming(m)' <=> Forming(m)
  BY <1>4 DEF Forming
<1>. QED  BY <1>4, <1>5, <1>6, <1>7, <1>8, <1>9, <1>10, QuietKept, Kept DEF GossipInv

(* What procedure_b answers: all that the claimed heights leave out, so    *)
(* the parents of an answered event are claimed or answered                *)
(* (store_sled.rs:140-174).                                                *)
LEMMA AnswerReplyable ==
  ASSUME GossipInv, NEW n \in Peers, NEW m \in Peers, NEW gossip, Backed(m, gossip)
  PROVE  LET events == get_events_for_gossip(n, gossip)
         IN  events \subseteq Stored(n) /\ Replyable(m, events)
<1>. DEFINE events == get_events_for_gossip(n, gossip)
<1>1. /\ StoreOK(n) /\ StoreOK(m) /\ TreeOK
      /\ \A p \in Peers : gossip[p] \in Nat /\ <<p, gossip[p]>> \in Stored(m)
  BY DEF GossipInv, Backed
<1>2. events \subseteq Stored(n) /\ Stored(n) \subseteq DOMAIN dag /\ DOMAIN dag \subseteq Events
  BY <1>1 DEF get_events_for_gossip, StoreOK, Stored, TreeOK
<1>3. ASSUME NEW e \in Stored(n)
      PROVE  e \in events <=> gossip[Creator(e)] < e[2]
  <2>1. Creator(e) \in Peers /\ e[2] \in Nat /\ e = <<Creator(e), e[2]>>
    BY <1>2 DEF Events, Creator
  <2>2. \A h \in (gossip[Creator(e)] + 1) .. e[2] : <<Creator(e), h>> \in DOMAIN event[n]
    <3>1. PrefixOK(Stored(n)) /\ gossip[Creator(e)] \in Nat
      BY <1>1, <2>1 DEF StoreOK
    <3>2. \A h \in 0 .. e[2] : <<Creator(e), h>> \in Stored(n)
      BY <2>1, <3>1 DEF PrefixOK
    <3>. QED  BY <2>1, <3>1, <3>2 DEF Stored
  <2>3. gossip[Creator(e)] \in Nat
    BY <1>1, <2>1
  <2>. QED  BY <2>1, <2>2, <2>3 DEF get_events_for_gossip, Stored
<1>4. ASSUME NEW e \in events PROVE e \notin Leaves
  <2>1. Creator(e) \in Peers /\ gossip[Creator(e)] < e[2] /\ e[2] \in Nat
    BY <1>2, <1>3 DEF Events, Creator
  <2>2. gossip[Creator(e)] \in Nat
    BY <1>1, <2>1
  <2>3. \A x \in Leaves : x[2] = 0
    BY DEF Leaf, Leaves
  <2>4. e[2] # 0
    BY <2>1, <2>2
  <2>. QED  BY <2>3, <2>4
<1>5. ASSUME NEW e \in events, NEW x \in Parents(e)
      PROVE  x \in events \cup Stored(m)
  <2>1. x \in Stored(n)
    BY <1>1, <1>2, <1>4 DEF StoreOK
  <2>2. Creator(x) \in Peers /\ x[2] \in Nat /\ x = <<Creator(x), x[2]>>
    BY <1>2, <2>1 DEF Events, Creator
  <2>3. CASE gossip[Creator(x)] < x[2]
    BY <1>3, <2>1, <2>3
  <2>4. CASE x[2] <= gossip[Creator(x)]
    <3>1. PrefixOK(Stored(m)) /\ <<Creator(x), gossip[Creator(x)]>> \in Stored(m)
          /\ gossip[Creator(x)] \in Nat
      BY <1>1, <2>2 DEF StoreOK
    <3>. QED  BY <2>2, <2>4, <3>1 DEF PrefixOK
  <2>5. gossip[Creator(x)] \in Nat
    BY <1>1, <2>2
  <2>. QED  BY <2>2, <2>3, <2>4, <2>5
<1>. HIDE DEF events
<1>6. events \subseteq Stored(n) /\ Replyable(m, events)
  BY <1>2, <1>4, <1>5 DEF Replyable
<1>. QED  BY <1>6 DEF events

LEMMA BEventsStep ==
  ASSUME GossipInv, NEW n \in Peers, BEvents(n)
  PROVE  GossipInv'
<1>1. ShapeOK' /\ Quiet /\ UNCHANGED <<event, dag, height, procA, listener, requests, replies>>
  BY DEF GossipInv, ShapeOK, BEvents, Quiet, vars
<1>. DEFINE events == get_events_for_gossip(n, procB[n].gossip)
<1>2. procB'[n] = [at |-> "reply", from |-> procB[n].from, events |-> events]
      /\ \A m \in Peers \ {n} : procB'[m] = procB[m]
  BY DEF GossipInv, ShapeOK, BEvents
<1>3. procB[n].from \in Peers /\ Backed(procB[n].from, procB[n].gossip)
  BY DEF BEvents, GossipInv, ProcBOK
<1>4. events \subseteq Stored(n) /\ Replyable(procB[n].from, events)
  BY <1>3, AnswerReplyable
<1>. HIDE DEF events
<1>5. ProcBOK(n)'
  <2>1. procB'[n].from = procB[n].from /\ procB'[n].events = events /\ procB'[n].at = "reply"
    BY <1>2
  <2>2. Replyable(procB[n].from, procB[n].events)'
    BY <1>1, <1>4, <2>1 DEF Replyable, Stored, Parents
  <2>. QED  BY <1>1, <1>3, <1>4, <2>1, <2>2 DEF ProcBOK, Stored
<1>6. \A m \in Peers : Forming(m)' <=> Forming(m)
  BY <1>1 DEF Forming
<1>. QED  BY <1>1, <1>2, <1>5, <1>6, QuietKept, Kept DEF GossipInv

(* procedure_b answers with a clock that is read after the events          *)
(* (lib.rs:380-413).                                                       *)
LEMMA BReplyStep ==
  ASSUME GossipInv, NEW n \in Peers, BReply(n)
  PROVE  GossipInv'
<1>1. Quiet /\ UNCHANGED <<height, procA, listener, requests>>
  BY DEF GossipInv, ShapeOK, BReply, Quiet, vars
<1>. PICK b : b = procB[n]
  OBVIOUS
<1>2. /\ b.from \in Peers /\ b.events \subseteq Stored(n) /\ Replyable(b.from, b.events)
  BY DEF BReply, GossipInv, ProcBOK
<1>3. procB'[n] = [at |-> "next"] /\ \A m \in Peers \ {n} : procB'[m] = procB[m]
  BY DEF GossipInv, ShapeOK, BReply
<1>4. ProcBOK(n)'
  BY <1>3 DEF ProcBOK
<1>5. DOMAIN replies' = Peers /\ \A m \in Peers : replies'[m] \in Seq(GoodReplies(m)')
  <2>. DEFINE message == SyncReply(n, b.events)
  <2>1. message \in GoodReplies(b.from)
    <3>1. /\ lamport_time[n] \in Nat /\ Stored(n) \subseteq DOMAIN dag
          /\ \A e \in Stored(n) : Stamp(e) <= lamport_time[n]
      BY DEF GossipInv, ShapeOK, StoreOK
    <3>2. message = [lamport_time |-> lamport_time[n], events |-> b.events]
      BY DEF SyncReply
    <3>. HIDE DEF message
    <3>. QED  BY <1>2, <3>1, <3>2 DEF GoodReplies
  <2>2. \/ replies' = [replies EXCEPT ![b.from] = Append(@, message)]
        \/ replies' = replies
    BY DEF BReply, Send
  <2>. HIDE DEF message
  <2>3. DOMAIN replies = Peers /\ \A m \in Peers : replies[m] \in Seq(GoodReplies(m))
    BY DEF GossipInv, ShapeOK
  <2>4. \A m \in Peers : DOMAIN replies' = Peers /\ replies'[m] \in Seq(GoodReplies(m))
    BY <2>1, <2>2, <2>3, SendKept
  <2>5. \A m \in Peers : GoodReplies(m) \subseteq GoodReplies(m)'
    BY <1>1, QuietKept, MessagesKept
  <2>6. ASSUME NEW m \in Peers PROVE replies'[m] \in Seq(GoodReplies(m)')
    BY <2>4, <2>5, SeqMonotonic
  <2>. QED  BY <2>4, <2>6
<1>6. ShapeOK'
  BY <1>1, <1>5 DEF GossipInv, ShapeOK, BReply, Quiet
<1>7. \A m \in Peers : Forming(m)' <=> Forming(m)
  BY <1>1 DEF Forming
<1>. QED  BY <1>1, <1>3, <1>4, <1>5, <1>6, <1>7, QuietKept, Kept DEF GossipInv

(* The listener takes a reply and merges its clock, so its clock covers    *)
(* the events of the reply (lib.rs:105-121).                               *)
LEMMA LReceiveStep ==
  ASSUME GossipInv, NEW n \in Peers, LReceive(n)
  PROVE  GossipInv'
<1>1. PICK i \in DOMAIN replies[n] :
        /\ replies' = [replies EXCEPT ![n] = RemoveAt(@, i)]
        /\ lamport_time' = [lamport_time EXCEPT ![n] = Later(@, replies[n][i].lamport_time)]
        /\ listener' = [listener EXCEPT ![n] =
             IF replies[n][i].events = {} THEN [at |-> "next"]
             ELSE [at |-> "insert", events |-> replies[n][i].events]]
  BY DEF LReceive
<1>. PICK reply : reply = replies[n][i]
  OBVIOUS
<1>2. reply \in GoodReplies(n) /\ RemoveAt(replies[n], i) \in Seq(GoodReplies(n))
  BY <1>1, InboxTake DEF GossipInv
<1>3. /\ Replyable(n, reply.events) /\ reply.lamport_time \in Nat
      /\ \A e \in reply.events : Stamp(e) \in Nat /\ Stamp(e) <= reply.lamport_time
  BY <1>2 DEF GoodReplies, GossipInv, TreeOK
<1>4. UNCHANGED <<dag, event, height, procA, procB, requests>>
  BY DEF LReceive, store
<1>5. Quiet /\ reply.lamport_time <= lamport_time'[n]
  BY <1>1, <1>3, <1>4, LaterClock
<1>6. /\ listener'[n] = IF reply.events = {} THEN [at |-> "next"]
                        ELSE [at |-> "insert", events |-> reply.events]
      /\ \A m \in Peers \ {n} : listener'[m] = listener[m]
  BY <1>1 DEF GossipInv, ShapeOK
<1>7. ListenerOK(n)'
  <2>1. CASE reply.events = {}
    BY <1>6, <2>1 DEF ListenerOK
  <2>2. CASE reply.events # {}
    <3>1. listener'[n].at = "insert" /\ listener'[n].events = reply.events
      BY <1>6, <2>2
    <3>2. Replyable(n, listener[n].events)'
      BY <1>3, <1>4, <3>1 DEF Replyable, Stored, Parents
    <3>3. lamport_time'[n] \in Nat
      BY <1>5 DEF Quiet
    <3>4. ASSUME NEW e \in reply.events PROVE Stamp(e)' <= lamport_time'[n]
      <4>1. Stamp(e)' = Stamp(e)
        BY <1>4 DEF Stamp
      <4>. QED  BY <1>3, <1>5, <3>3, <4>1
    <3>. QED  BY <3>1, <3>2, <3>4 DEF ListenerOK
  <2>. QED  BY <2>1, <2>2
<1>8. \A m \in Peers : replies'[m] \in Seq(GoodReplies(m)')
  <2>1. \A m \in Peers : replies'[m] \in Seq(GoodReplies(m))
    BY <1>1, <1>2 DEF GossipInv, ShapeOK
  <2>2. \A m \in Peers : GoodReplies(m) \subseteq GoodReplies(m)'
    BY <1>5, QuietKept, MessagesKept
  <2>. QED  BY <2>1, <2>2, SeqMonotonic
<1>9. ShapeOK'
  BY <1>1, <1>4, <1>5 DEF GossipInv, ShapeOK, Quiet
<1>10. \A m \in Peers : Forming(m)' <=> Forming(m)
  BY <1>4 DEF Forming
<1>. QED  BY <1>4, <1>5, <1>6, <1>7, <1>8, <1>9, <1>10, QuietKept, Kept DEF GossipInv

(* The listener raises the height of the creator of the event it has       *)
(* stored; its own height is never raised by that (lib.rs:142-152).        *)
LEMMA LHeightStep ==
  ASSUME GossipInv, NEW n \in Peers, LHeight(n)
  PROVE  GossipInv'
<1>. PICK e : e = listener[n].inserted
  OBVIOUS
<1>. DEFINE c == Creator(e)
            rest == listener[n].events
<1>1. /\ height' = [height EXCEPT ![n][c] = Later(@, e[2])]
      /\ UNCHANGED <<dag, event, lamport_time, procA, procB, requests, replies>>
      /\ listener'[n] = IF rest = {} THEN [at |-> "next"] ELSE [at |-> "insert", events |-> rest]
      /\ \A m \in Peers \ {n} : listener'[m] = listener[m]
      /\ DOMAIN listener' = Peers
  BY DEF LHeight, update_lamport_time_and_height, store, GossipInv, ShapeOK
<1>2. /\ e \in Stored(n) /\ Replyable(n, rest)
      /\ \A x \in rest : Stamp(x) <= lamport_time[n]
  BY DEF LHeight, GossipInv, ListenerOK
<1>3. c \in Peers /\ e[2] \in Nat /\ e = <<c, e[2]>>
  BY <1>2 DEF GossipInv, TreeOK, StoreOK, Events, Creator
<1>4. Quiet
  BY <1>1 DEF Quiet, GossipInv, ShapeOK
<1>5. Stored(n)' = Stored(n) /\ dag' = dag
  BY <1>1 DEF Stored
<1>. HIDE DEF c
<1>6. height[n] \in [Peers -> Nat] /\ height[n][c] \in Nat /\ height[n][n] \in Nat
  BY <1>3 DEF GossipInv, ShapeOK
<1>7. /\ height'[n] \in [Peers -> Nat] /\ height' \in [Peers -> [Peers -> Nat]]
      /\ \A p \in Peers \ {c} : height'[n][p] = height[n][p]
      /\ height'[n][c] = Later(height[n][c], e[2])
      /\ \A m \in Peers \ {n} : height'[m] = height[m]
  BY <1>1, <1>3, <1>6 DEF GossipInv, ShapeOK, Later
<1>8. PeerHeightsOK(n) /\ (c = n => e[2] <= height[n][n])
  BY <1>2, <1>3, <1>6 DEF GossipInv, PeerHeightsOK, StoreOK
<1>9. height'[n][n] = height[n][n]
  BY <1>3, <1>6, <1>7, <1>8 DEF Later
<1>10. PeerHeightsOK(n)'
  <2>1. \A p \in Peers \ {n} : <<p, height'[n][p]>> \in Stored(n)
    BY <1>2, <1>3, <1>7, <1>8 DEF Later, PeerHeightsOK
  <2>. QED  BY <1>1, <1>5, <1>8, <1>9, <2>1 DEF PeerHeightsOK, Forming
<1>11. ListenerOK(n)'
  <2>1. CASE rest = {}
    BY <1>1, <2>1 DEF ListenerOK
  <2>2. CASE rest # {}
    <3>1. listener'[n].at = "insert" /\ listener'[n].events = rest
      BY <1>1, <2>2
    <3>. HIDE DEF rest
    <3>2. Replyable(n, listener[n].events)'
      BY <1>2, <1>5, <3>1 DEF Replyable, Parents
    <3>3. \A x \in rest : Stamp(x)' <= lamport_time'[n]
      BY <1>1, <1>2 DEF Stamp
    <3>. QED  BY <3>1, <3>2, <3>3 DEF ListenerOK
  <2>. QED  BY <2>1, <2>2
<1>12. ShapeOK'
  BY <1>1, <1>7 DEF GossipInv, ShapeOK
<1>13. \A m \in Peers : Forming(m)' <=> Forming(m)
  BY <1>1 DEF Forming
<1>14. \A m \in Peers : height'[m][m] = height[m][m]
  BY <1>7, <1>9
<1>. QED  BY <1>1, <1>4, <1>7, <1>10, <1>11, <1>12, <1>13, <1>14, QuietKept, Kept DEF GossipInv

-----------------------------------------------------------------------------
(* The two critical sections that store an event. *)

(* insert_event stores the one event on the one node.                      *)
LEMMA InsertStores ==
  ASSUME DOMAIN event = Peers, NEW n \in Peers, NEW e, NEW d, insert_event(n, e, d)
  PROVE  /\ DOMAIN event' = Peers
         /\ Stored(n)' = Stored(n) \cup {e}
         /\ \A m \in Peers \ {n} : Stored(m)' = Stored(m)
<1>. DEFINE stored == insert(event[n], e, FrameOf(n, d[e].self_parent, d[e].other_parent))
<1>1. event' = [event EXCEPT ![n] = stored]
  BY DEF insert_event
<1>2. DOMAIN stored = DOMAIN event[n] \cup {e}
  BY DEF insert
<1>. HIDE DEF stored
<1>. QED  BY <1>1, <1>2 DEF Stored

(* A store that takes an event whose parents it has, and which its clock   *)
(* covers, stays in order.                                                 *)
LEMMA StoreTakes ==
  ASSUME NEW n \in Peers, StoreOK(n), TreeOK', Grown,
         NEW e \in DOMAIN dag' \ Leaves, Stored(n)' = Stored(n) \cup {e},
         Parents(e)' \subseteq Stored(n), Stamp(e)' <= lamport_time'[n],
         \A x \in Stored(n) : Stamp(x)' <= lamport_time'[n]
  PROVE  StoreOK(n)'
<1>1. e \in Events /\ dag'[e].self_parent = SelfParentOf(e)
  BY DEF TreeOK
<1>2. SelfParentOf(e) \in Stored(n)
  BY <1>1 DEF Parents
<1>3. PICK c \in Peers, h \in Nat : e = <<c, h>>
  BY <1>1 DEF Events
<1>4. PrefixOK(Stored(n) \cup {e})
  <2>. SUFFICES ASSUME NEW p \in Peers, NEW k \in Nat, <<p, k>> \in Stored(n) \cup {e},
                       NEW i \in 0 .. k
                PROVE  <<p, i>> \in Stored(n) \cup {e}
    BY DEF PrefixOK
  <2>1. CASE <<p, k>> \in Stored(n)
    BY <2>1 DEF StoreOK, PrefixOK
  <2>2. CASE <<p, k>> = e
    <3>1. p = c /\ k = h
      BY <1>3, <2>2
    <3>2. <<p, k - 1>> \in Stored(n)
      BY <1>2, <1>3, <3>1 DEF SelfParentOf
    <3>3. CASE i = k
      BY <2>2, <3>3
    <3>4. CASE i # k
      <4>1. k - 1 \in Nat /\ i \in 0 .. (k - 1)
        BY <3>4
      <4>. QED  BY <3>2, <4>1 DEF StoreOK, PrefixOK
    <3>. QED  BY <3>3, <3>4
  <2>. QED  BY <2>1, <2>2
<1>5. Stored(n) \cup {e} \subseteq DOMAIN dag'
  BY DEF StoreOK, Grown
<1>6. ASSUME NEW x \in (Stored(n) \cup {e}) \ Leaves PROVE Parents(x)' \subseteq Stored(n) \cup {e}
  <2>1. CASE x = e
    BY <2>1
  <2>2. CASE x \in Stored(n)
    <3>1. Parents(x)' = Parents(x)
      BY <2>2 DEF StoreOK, Grown, Parents
    <3>. QED  BY <2>2, <3>1 DEF StoreOK
  <2>. QED  BY <2>1, <2>2
<1>7. ASSUME NEW x \in Stored(n) \cup {e} PROVE Stamp(x)' <= lamport_time'[n]
  OBVIOUS
<1>8. Leaves \subseteq Stored(n)
  BY DEF StoreOK
<1>. QED  BY <1>4, <1>5, <1>6, <1>7, <1>8 DEF StoreOK

(* A store that takes nothing stays in order as the DAG grows.             *)
LEMMA StoreStays ==
  ASSUME NEW n \in Peers, StoreOK(n), TreeOK, Grown, lamport_time[n] \in Nat, Stored(n)' = Stored(n)
  PROVE  StoreOK(n)' /\ \A x \in Stored(n) : Stamp(x)' <= lamport_time'[n]
<1>1. \A x \in Stored(n) : x \in DOMAIN dag' /\ dag'[x] = dag[x]
  BY DEF StoreOK, Grown
<1>2. lamport_time'[n] \in Nat /\ lamport_time[n] <= lamport_time'[n]
  BY DEF Grown
<1>3. \A x \in Stored(n) : Stamp(x) \in Nat /\ Stamp(x) <= lamport_time[n]
  BY DEF StoreOK, TreeOK
<1>4. \A x \in Stored(n) : Stamp(x)' <= lamport_time'[n]
  BY <1>1, <1>2, <1>3 DEF Stamp
<1>5. \A x \in Stored(n) \ Leaves : Parents(x)' \subseteq Stored(n)
  BY <1>1 DEF StoreOK, Parents
<1>. QED  BY <1>1, <1>4, <1>5 DEF StoreOK

(* The next event of a reply, in the order of its stamps, has its parents  *)
(* in the store: they are earlier, so they are not in what is left of the  *)
(* reply (lib.rs:115-119, 388).                                            *)
LEMMA EarliestInsertable ==
  ASSUME GossipInv, NEW n \in Peers, listener[n].at = "insert", NEW e \in Earliest(listener[n].events)
  PROVE  Parents(e) \subseteq Stored(n)
<1>. DEFINE events == listener[n].events
<1>1. e \in events /\ \A x \in events : Stamp(e) <= Stamp(x)
  BY DEF Earliest, Stamp
<1>2. Replyable(n, events)
  BY DEF GossipInv, ListenerOK
<1>. HIDE DEF events
<1>3. e \in DOMAIN dag \ Leaves /\ Parents(e) \subseteq events \cup Stored(n)
  BY <1>1, <1>2 DEF Replyable
<1>4. \A x \in Parents(e) : Stamp(x) < Stamp(e) /\ Stamp(x) \in Nat /\ Stamp(e) \in Nat
  BY <1>3 DEF GossipInv, TreeOK
<1>. QED  BY <1>1, <1>3, <1>4

(* The listener stores the next event of a reply (lib.rs:122-136).         *)
LEMMA LInsertStep ==
  ASSUME GossipInv, NEW n \in Peers, LInsert(n)
  PROVE  GossipInv'
<1>1. PICK e \in Earliest(listener[n].events) :
        /\ insert_event(n, e, dag)
        /\ listener' = [listener EXCEPT ![n] =
                          [at |-> "height", inserted |-> e, events |-> listener[n].events \ {e}]]
  BY DEF LInsert
<1>2. listener[n].at = "insert"
      /\ UNCHANGED <<dag, lamport_time, height, procA, procB, requests, replies>>
  BY DEF LInsert
<1>. DEFINE events == listener[n].events
<1>3. Parents(e) \subseteq Stored(n)
  BY <1>2, EarliestInsertable
<1>4. e \in events /\ Replyable(n, events) /\ \A x \in events : Stamp(x) <= lamport_time[n]
  BY <1>2 DEF Earliest, GossipInv, ListenerOK
<1>5. e \in DOMAIN dag \ Leaves
  BY <1>4 DEF Replyable
<1>6. /\ DOMAIN event' = Peers /\ Stored(n)' = Stored(n) \cup {e}
      /\ \A m \in Peers \ {n} : Stored(m)' = Stored(m)
  BY <1>1, InsertStores DEF GossipInv, ShapeOK
<1>7. Grown
  <2>1. \A m \in Peers : Stored(m) \subseteq Stored(m)'
    BY <1>6
  <2>2. lamport_time' \in [Peers -> Nat] /\ \A m \in Peers : lamport_time[m] <= lamport_time'[m]
    BY <1>2 DEF GossipInv, ShapeOK
  <2>. QED  BY <1>2, <2>1, <2>2 DEF Grown
<1>8. TreeOK'
  BY <1>2 DEF GossipInv, TreeOK, Stamp, Parents
<1>9. \A x : Stamp(x)' = Stamp(x) /\ Parents(x)' = Parents(x)
  BY <1>2 DEF Stamp, Parents
<1>10. StoreOK(n)'
  <2>1. \A x \in Stored(n) : Stamp(x)' <= lamport_time'[n]
    BY <1>2, <1>9 DEF GossipInv, StoreOK
  <2>2. Parents(e)' \subseteq Stored(n) /\ Stamp(e)' <= lamport_time'[n] /\ e \in DOMAIN dag' \ Leaves
    BY <1>2, <1>3, <1>4, <1>5, <1>9
  <2>3. StoreOK(n)
    BY DEF GossipInv
  <2>. QED  BY <1>6, <1>7, <1>8, <2>1, <2>2, <2>3, StoreTakes
<1>11. ASSUME NEW m \in Peers \ {n} PROVE StoreOK(m)'
  BY <1>6, <1>7, StoreStays DEF GossipInv, ShapeOK
<1>12. ASSUME NEW m \in Peers PROVE PeerHeightsOK(m)'
  <2>1. PeerHeightsOK(m) /\ Stored(m) \subseteq Stored(m)'
    BY <1>7 DEF GossipInv, Grown
  <2>. QED  BY <1>2, <2>1 DEF PeerHeightsOK, Forming
<1>13. ListenerOK(n)'
  <2>1. listener'[n] = [at |-> "height", inserted |-> e, events |-> events \ {e}]
    BY <1>1 DEF GossipInv, ShapeOK
  <2>. HIDE DEF events
  <2>2. Replyable(n, listener[n].events)'
    <3>1. events \ {e} \subseteq DOMAIN dag \ Leaves
      BY <1>4 DEF Replyable
    <3>2. \A x \in events \ {e} : Parents(x) \subseteq (events \ {e}) \cup Stored(n)'
      BY <1>4, <1>6 DEF Replyable
    <3>. QED  BY <1>2, <1>9, <2>1, <3>1, <3>2 DEF Replyable
  <2>3. e \in Stored(n)'
    BY <1>6
  <2>4. \A x \in events \ {e} : Stamp(x)' <= lamport_time'[n]
    BY <1>2, <1>4, <1>9
  <2>. QED  BY <2>1, <2>2, <2>3, <2>4 DEF ListenerOK
<1>14. ShapeOK' /\ \A m \in Peers \ {n} : listener'[m] = listener[m]
  BY <1>1, <1>2, <1>6 DEF GossipInv, ShapeOK
<1>. QED  BY <1>2, <1>7, <1>8, <1>10, <1>11, <1>12, <1>13, <1>14, Kept DEF GossipInv

(* procedure_a stores the event it has formed, the next of its own chain   *)
(* and later than its two parents (lib.rs:294-305).                        *)
LEMMA AInsertStep ==
  ASSUME GossipInv, NEW n \in Peers, AInsert(n)
  PROVE  GossipInv'
<1>. PICK a : a = procA[n]
  OBVIOUS
<1>. PICK h : h = height[n][n]
  OBVIOUS
<1>. DEFINE sp == a.self_parent
            op == a.other_parent
            e == <<n, h>>
            content == NewEvent(dag, e, sp, op, a.lamport_timestamp)
<1>1. /\ a.at = "insert" /\ Forming(n)
      /\ a.lamport_timestamp \in Nat /\ a.lamport_timestamp <= lamport_time[n]
      /\ Stamp(sp) < a.lamport_timestamp /\ Stamp(op) < a.lamport_timestamp
      /\ sp = <<n, h - 1>> /\ h - 1 \in Nat /\ h \in Nat /\ {sp, op} \subseteq Stored(n)
  BY DEF AInsert, GossipInv, ProcAOK, Forming, ShapeOK
<1>2. sp[2] + 1 = h /\ <<n, sp[2] + 1>> = e
  BY <1>1
<1>3. /\ dag' = insert(dag, e, content) /\ insert_event(n, e, insert(dag, e, content))
      /\ procA' = [procA EXCEPT ![n] = [at |-> "loop"]]
      /\ UNCHANGED <<lamport_time, height, procB, listener, requests, replies>>
  BY <1>2 DEF AInsert
<1>4. e \notin DOMAIN dag /\ \A k \in Nat : <<n, k>> \in DOMAIN dag => <<n, k>> \in Stored(n) /\ k <= h
  BY <1>1 DEF GossipInv, PeerHeightsOK
<1>5. content.self_parent = sp /\ content.other_parent = op
      /\ content.lamport_timestamp = a.lamport_timestamp
  BY DEF NewEvent
<1>. HIDE DEF content
<1>6. /\ DOMAIN dag' = DOMAIN dag \cup {e} /\ dag'[e] = content
      /\ \A x \in DOMAIN dag : dag'[x] = dag[x]
  BY <1>3, <1>4 DEF insert
<1>7. /\ DOMAIN event' = Peers /\ Stored(n)' = Stored(n) \cup {e}
      /\ \A m \in Peers \ {n} : Stored(m)' = Stored(m)
  BY <1>3, InsertStores DEF GossipInv, ShapeOK
<1>8. Grown
  <2>1. \A m \in Peers : Stored(m) \subseteq Stored(m)'
    BY <1>7
  <2>2. lamport_time' \in [Peers -> Nat] /\ \A m \in Peers : lamport_time[m] <= lamport_time'[m]
    BY <1>3 DEF GossipInv, ShapeOK
  <2>. QED  BY <1>6, <2>1, <2>2 DEF Grown
<1>9. StoreOK(n) /\ TreeOK /\ Stored(n) \subseteq DOMAIN dag
  BY DEF GossipInv, StoreOK
<1>10. e \in Events /\ e \notin Leaves
  BY <1>1, <1>4, <1>9 DEF Events, TreeOK
<1>11. /\ Parents(e)' = {sp, op} /\ Stamp(e)' = a.lamport_timestamp
       /\ SelfParentOf(e) = sp
       /\ \A x \in DOMAIN dag : Parents(x)' = Parents(x) /\ Stamp(x)' = Stamp(x)
  BY <1>1, <1>5, <1>6 DEF Parents, Stamp, SelfParentOf
<1>12. TreeOK'
  <2>1. Leaves \subseteq DOMAIN dag' /\ DOMAIN dag' \subseteq Events
    BY <1>6, <1>9, <1>10 DEF TreeOK
  <2>2. \A x \in DOMAIN dag' : Stamp(x)' \in Nat
    BY <1>1, <1>6, <1>9, <1>11 DEF TreeOK
  <2>3. ASSUME NEW x \in DOMAIN dag' \ Leaves
        PROVE  /\ dag'[x].self_parent = SelfParentOf(x) /\ Parents(x)' \subseteq DOMAIN dag'
               /\ \A y \in Parents(x)' : Stamp(y)' < Stamp(x)'
    <3>1. CASE x = e
      <4>1. sp \in DOMAIN dag /\ op \in DOMAIN dag
        BY <1>1, <1>9
      <4>. QED  BY <1>1, <1>5, <1>6, <1>11, <3>1, <4>1
    <3>2. CASE x # e
      <4>1. /\ x \in DOMAIN dag \ Leaves /\ dag'[x].self_parent = SelfParentOf(x)
            /\ Parents(x) \subseteq DOMAIN dag /\ \A y \in Parents(x) : Stamp(y) < Stamp(x)
        BY <1>6, <1>9, <3>2 DEF TreeOK
      <4>. HIDE DEF e
      <4>. QED  BY <1>6, <1>11, <4>1
    <3>. QED  BY <3>1, <3>2
  <2>. QED  BY <2>1, <2>2, <2>3 DEF TreeOK
<1>13. StoreOK(n)'
  <2>1. \A x \in Stored(n) : Stamp(x)' <= lamport_time'[n]
    BY <1>3, <1>9, <1>11 DEF StoreOK
  <2>2. Parents(e)' \subseteq Stored(n) /\ Stamp(e)' <= lamport_time'[n] /\ e \in DOMAIN dag' \ Leaves
    BY <1>1, <1>3, <1>6, <1>10, <1>11
  <2>. HIDE DEF e
  <2>. QED  BY <1>7, <1>8, <1>9, <1>12, <2>1, <2>2, StoreTakes
<1>14. ASSUME NEW m \in Peers \ {n} PROVE StoreOK(m)'
  BY <1>7, <1>8, StoreStays DEF GossipInv, ShapeOK
<1>15. procA'[n] = [at |-> "loop"] /\ \A m \in Peers \ {n} : procA'[m] = procA[m]
  BY <1>3 DEF GossipInv, ShapeOK
<1>16. PeerHeightsOK(n)'
  <2>1. ~ Forming(n)'
    BY <1>15 DEF Forming
  <2>2. \A p \in Peers \ {n} : <<p, height'[n][p]>> \in Stored(n)'
    BY <1>3, <1>7 DEF GossipInv, PeerHeightsOK
  <2>3. <<n, height'[n][n]>> \in Stored(n)'
    BY <1>3, <1>7
  <2>4. ASSUME NEW k \in Nat, <<n, k>> \in DOMAIN dag'
        PROVE  <<n, k>> \in Stored(n)' /\ k <= height'[n][n]
    <3>1. CASE <<n, k>> = e
      <4>1. k = h
        BY <3>1
      <4>. QED  BY <1>1, <1>3, <1>7, <4>1
    <3>2. CASE <<n, k>> # e
      BY <1>3, <1>4, <1>6, <1>7, <2>4, <3>2
    <3>. QED  BY <3>1, <3>2
  <2>. QED  BY <2>1, <2>2, <2>3, <2>4 DEF PeerHeightsOK
<1>17. ASSUME NEW m \in Peers \ {n} PROVE PeerHeightsOK(m)'
  <2>1. PeerHeightsOK(m) /\ Stored(m)' = Stored(m) /\ procA'[m] = procA[m]
    BY <1>7, <1>15 DEF GossipInv
  <2>2. \A k \in Nat : <<m, k>> \in DOMAIN dag' => <<m, k>> \in DOMAIN dag
    BY <1>6
  <2>. QED  BY <1>3, <2>1, <2>2 DEF PeerHeightsOK, Forming
<1>18. ProcAOK(n)'
  BY <1>15 DEF ProcAOK, Forming
<1>19. ShapeOK'
  BY <1>3, <1>7 DEF GossipInv, ShapeOK
<1>. HIDE DEF e
<1>20. ASSUME NEW m \in Peers
       PROVE  /\ StoreOK(m)' /\ PeerHeightsOK(m)' /\ ProcAOK(m)' /\ ProcBOK(m)' /\ ListenerOK(m)'
              /\ requests'[m] \in Seq(GoodRequests') /\ replies'[m] \in Seq(GoodReplies(m)')
  BY <1>3, <1>8, <1>13, <1>14, <1>15, <1>16, <1>17, <1>18, Kept
<1>. QED  BY <1>12, <1>19, <1>20 DEF GossipInv

-----------------------------------------------------------------------------
(* The invariant and what it means for the properties of Gossip. *)

(* DAGcore::new leaves the leaf events, and no message is under way.       *)
LEMMA GossipInitInv == GossipInit => GossipInv
<1>. SUFFICES ASSUME GossipInit PROVE GossipInv
  OBVIOUS
<1>1. /\ DOMAIN dag = Leaves
      /\ \A n \in Peers : Stored(n) = Leaves
      /\ lamport_time = [n \in Peers |-> 0]
      /\ height = [n \in Peers |-> [p \in Peers |-> 0]]
      /\ DOMAIN event = Peers
      /\ \A e \in Leaves : Stamp(e) = 0
  BY DEF GossipInit, Init, Stored, Stamp
<1>2. /\ procA = [n \in Peers |-> [at |-> "loop"]]
      /\ procB = [n \in Peers |-> [at |-> "next"]]
      /\ listener = [n \in Peers |-> [at |-> "next"]]
      /\ requests = [n \in Peers |-> <<>>] /\ replies = [n \in Peers |-> <<>>]
  BY DEF GossipInit
<1>3. /\ \A p \in Peers : <<p, 0>> \in Leaves
      /\ \A p, k : <<p, k>> \in Leaves => k = 0
      /\ Leaves \subseteq Events
  BY DEF Leaves, Leaf, Events
<1>4. ShapeOK
  BY <1>1, <1>2 DEF ShapeOK
<1>5. TreeOK
  BY <1>1, <1>3 DEF TreeOK
<1>6. ASSUME NEW n \in Peers PROVE StoreOK(n)
  <2>1. PrefixOK(Leaves)
    BY <1>3 DEF PrefixOK
  <2>. QED  BY <1>1, <2>1 DEF StoreOK
<1>7. ASSUME NEW n \in Peers PROVE PeerHeightsOK(n) /\ ProcAOK(n) /\ ProcBOK(n) /\ ListenerOK(n)
  <2>1. ~ Forming(n)
    BY <1>2 DEF Forming
  <2>2. PeerHeightsOK(n)
    BY <1>1, <1>3, <2>1 DEF PeerHeightsOK
  <2>. QED  BY <1>2, <2>1, <2>2 DEF ProcAOK, ProcBOK, ListenerOK
<1>8. \A n \in Peers : requests[n] \in Seq(GoodRequests) /\ replies[n] \in Seq(GoodReplies(n))
  BY <1>2
<1>. QED  BY <1>4, <1>5, <1>6, <1>7, <1>8 DEF GossipInv

LEMMA GossipStepInv == GossipInv /\ [GossipNext]_gvars => GossipInv'
<1>. SUFFICES ASSUME GossipInv, [GossipNext]_gvars PROVE GossipInv'
  OBVIOUS
<1>1. CASE UNCHANGED gvars
  <2>1. Quiet /\ UNCHANGED <<height, procA, procB, listener, requests, replies>>
    BY <1>1 DEF gvars, vars, GossipInv, ShapeOK, Quiet
  <2>2. ShapeOK' /\ \A m \in Peers : Forming(m)' <=> Forming(m)
    BY <1>1 DEF gvars, vars, GossipInv, ShapeOK, Forming
  <2>. QED  BY <2>1, <2>2, QuietKept, Kept DEF GossipInv
<1>2. ASSUME NEW n \in Peers, ProcedureA(n) PROVE GossipInv'
  BY <1>2, APickStep, ASendStep, AFormStep, AFormNoneStep, AStampStep, AInsertStep
     DEF ProcedureA
<1>3. ASSUME NEW n \in Peers, ProcedureB(n) PROVE GossipInv'
  BY <1>3, BReceiveStep, BEventsStep, BReplyStep DEF ProcedureB
<1>4. ASSUME NEW n \in Peers, Listener(n) PROVE GossipInv'
  BY <1>4, LReceiveStep, LInsertStep, LHeightStep DEF Listener
<1>. QED  BY <1>1, <1>2, <1>3, <1>4 DEF GossipNext

(* Stores, heights, clocks and messages fit together in every state the    *)
(* three threads reach (lib.rs:92-413).                                    *)
THEOREM GossipInvariance == GossipSpec => []GossipInv
BY GossipInitInv, GossipStepInv, PTL DEF GossipSpec

(* Neither procedure_a nor the listener panics on a parent that the store  *)
(* lacks (lib.rs:272-282, core.rs:188-196).                                *)
THEOREM ParentsStoredHolds == GossipSpec => []ParentsStored
<1>1. GossipInv => ParentsStored
  <2>. SUFFICES ASSUME GossipInv, NEW n \in Peers
                PROVE  /\ procA[n].at = "form" =>
                            {OtherParent(n), <<n, height[n][n]>>} \subseteq DOMAIN event[n]
                       /\ listener[n].at = "insert" => \A e \in Earliest(listener[n].events) :
                            {dag[e].self_parent, dag[e].other_parent} \subseteq DOMAIN event[n]
    BY DEF ParentsStored
  <2>1. procA[n].at = "form" => {OtherParent(n), <<n, height[n][n]>>} \subseteq DOMAIN event[n]
    BY DEF GossipInv, PeerHeightsOK, ProcAOK, Forming, OtherParent, Stored
  <2>2. listener[n].at = "insert" => \A e \in Earliest(listener[n].events) :
          {dag[e].self_parent, dag[e].other_parent} \subseteq DOMAIN event[n]
    BY EarliestInsertable DEF Parents, Stored
  <2>. QED  BY <2>1, <2>2
<1>. QED  BY <1>1, GossipInvariance, PTL

(* A node's clock covers every event it stores (lib.rs:115-119, 363-367).  *)
THEOREM ClockCoversStoreHolds == GossipSpec => []ClockCoversStore
<1>1. GossipInv => ClockCoversStore
  BY DEF GossipInv, StoreOK, ClockCoversStore, Stored, Stamp
<1>. QED  BY <1>1, GossipInvariance, PTL

(* The heights a node claims are those of events it has                    *)
(* (lib.rs:144-150 after 135; store_sled.rs:140-174).                      *)
THEOREM RequestsBackedHolds == GossipSpec => []RequestsBacked
<1>1. GossipInv => RequestsBacked
  <2>. SUFFICES ASSUME GossipInv, NEW n \in Peers, NEW i \in DOMAIN requests[n], NEW p \in Peers
                PROVE  <<p, requests[n][i].gossip[p]>> \in DOMAIN event[requests[n][i].from]
    BY DEF RequestsBacked
  <2>1. requests[n][i] \in GoodRequests
    BY DEF GossipInv
  <2>. QED  BY <2>1 DEF GoodRequests, Backed, Stored
<1>. QED  BY <1>1, GossipInvariance, PTL

(* The hash of the event that procedure_a forms is new                     *)
(* (lib.rs:246-254, 144-150).                                              *)
THEOREM NoForkHolds == GossipSpec => []NoFork
<1>1. GossipInv => NoFork
  <2>. SUFFICES ASSUME GossipInv, NEW n \in Peers, procA[n].at \in {"stamp", "insert"}
                PROVE  <<n, procA[n].self_parent[2] + 1>> \notin DOMAIN dag
    BY DEF NoFork
  <2>1. height[n][n] \in Nat /\ procA[n].self_parent = <<n, height[n][n] - 1>>
    BY DEF GossipInv, ShapeOK, ProcAOK, Forming
  <2>2. \A k \in Nat : <<n, k>> \in DOMAIN dag => k # height[n][n]
    BY DEF GossipInv, PeerHeightsOK, Forming
  <2>3. procA[n].self_parent[2] + 1 = height[n][n]
    BY <2>1
  <2>. QED  BY <2>1, <2>2, <2>3
<1>. QED  BY <1>1, GossipInvariance, PTL

-----------------------------------------------------------------------------
(* The threads implement the causal spreading of one DAG (module Spread). *)

(* A stored event is one more event held.                                  *)
LEMMA StoresHold ==
  ASSUME DOMAIN event = Peers, NEW n \in Peers, NEW e, NEW d, insert_event(n, e, d)
  PROVE  Dissemination!Hold(n, e)
<1>1. /\ Stored(n)' = Stored(n) \cup {e}
      /\ \A m \in Peers \ {n} : Stored(m)' = Stored(m)
  BY InsertStores
<1>. QED  BY <1>1 DEF Stored, Dissemination!Hold, StoredBy

(* procedure_a's event is the next of its creator, over stored events      *)
(* (lib.rs:294-305).                                                       *)
LEMMA AInsertForms ==
  ASSUME GossipInv, NEW n \in Peers, AInsert(n)
  PROVE  Dissemination!SpreadNext
<1>. PICK a : a = procA[n]
  OBVIOUS
<1>. PICK h : h = height[n][n]
  OBVIOUS
<1>. DEFINE sp == a.self_parent
            op == a.other_parent
            e == <<n, h>>
            content == NewEvent(dag, e, sp, op, a.lamport_timestamp)
<1>1. /\ sp = <<n, h - 1>> /\ h - 1 \in Nat /\ h \in Nat /\ {sp, op} \subseteq Stored(n)
      /\ Stored(n) \subseteq Events /\ DOMAIN event = Peers
      /\ e \notin DOMAIN dag
  BY DEF AInsert, GossipInv, ProcAOK, Forming, ShapeOK, PeerHeightsOK, StoreOK, TreeOK
<1>2. sp[2] + 1 = h /\ <<n, sp[2] + 1>> = e /\ e[1] = n /\ sp = <<n, e[2] - 1>>
  BY <1>1
<1>3. dag' = insert(dag, e, content) /\ insert_event(n, e, insert(dag, e, content))
  BY <1>2 DEF AInsert
<1>4. content.self_parent = sp /\ content.other_parent = op
  BY DEF NewEvent
<1>. HIDE DEF content
<1>5. Dissemination!Hold(n, e)
  BY <1>1, <1>3, StoresHold
<1>6. {sp, op} \ {NoHash} = {sp, op}
  BY <1>1, NoHashAssumption
<1>. HIDE DEF e, sp, op
<1>7. ParentsOf' = [x \in DOMAIN ParentsOf \cup {e} |-> IF x = e THEN {sp, op} ELSE ParentsOf[x]]
  BY <1>1, <1>3, <1>4, <1>6 DEF ParentsOf, insert
<1>8. e \notin DOMAIN ParentsOf /\ e \in DOMAIN ParentsOf'
  BY <1>1, <1>7 DEF ParentsOf
<1>9. {sp, op} \in SUBSET StoredBy[n]
  BY <1>1 DEF StoredBy, Stored
<1>10. Dissemination!Form(n, e, {sp, op})
  BY <1>2, <1>5, <1>7, <1>8 DEF Dissemination!Form
<1>. QED  BY <1>8, <1>9, <1>10 DEF Dissemination!SpreadNext

(* An event of a reply is learnt after its parents, or was held before     *)
(* (lib.rs:122-136).                                                       *)
LEMMA LInsertLearns ==
  ASSUME GossipInv, NEW n \in Peers, LInsert(n)
  PROVE  Dissemination!SpreadNext \/ UNCHANGED Dissemination!spreadVars
<1>1. PICK e \in Earliest(listener[n].events) : insert_event(n, e, dag)
  BY DEF LInsert
<1>2. e \in DOMAIN dag \ Leaves /\ Parents(e) \subseteq Stored(n)
  <2>1. e \in listener[n].events /\ listener[n].at = "insert"
    BY DEF LInsert, Earliest
  <2>2. e \in DOMAIN dag \ Leaves
    BY <2>1 DEF GossipInv, ListenerOK, Replyable
  <2>. QED  BY <2>1, <2>2, EarliestInsertable
<1>3. dag' = dag /\ DOMAIN event = Peers
  BY DEF LInsert, GossipInv, ShapeOK
<1>4. ParentsOf' = ParentsOf /\ e \in DOMAIN ParentsOf /\ ParentsOf[e] \subseteq StoredBy[n]
  BY <1>2, <1>3 DEF ParentsOf, Parents, StoredBy, Stored
<1>5. Dissemination!Hold(n, e)
  BY <1>1, <1>3, StoresHold
<1>6. CASE e \in StoredBy[n]
  <2>1. [StoredBy EXCEPT ![n] = @ \cup {e}] = StoredBy
    BY <1>6 DEF StoredBy
  <2>. QED  BY <1>4, <1>5, <2>1 DEF Dissemination!Hold, Dissemination!spreadVars
<1>7. CASE e \notin StoredBy[n]
  <2>1. Dissemination!Learn(n, e)
    BY <1>4, <1>5, <1>7 DEF Dissemination!Learn
  <2>. QED  BY <1>4, <2>1 DEF Dissemination!SpreadNext
<1>. QED  BY <1>6, <1>7

(* The threads implement the causal spreading of one DAG: no event         *)
(* changes, no creator forks, no event is stored before its parents        *)
(* (lib.rs:92-413).                                                        *)
THEOREM GossipImplementsSpread == GossipSpec => ImplementsSpread
<1>1. GossipInit => Dissemination!SpreadInit
  <2>. SUFFICES ASSUME GossipInit PROVE Dissemination!SpreadInit
    OBVIOUS
  <2>1. ParentsOf = [e \in Leaves |-> {}]
    BY DEF GossipInit, Init, ParentsOf
  <2>2. StoredBy = [n \in Peers |-> Leaves]
    BY DEF GossipInit, Init, StoredBy
  <2>. QED  BY <2>1, <2>2 DEF Dissemination!SpreadInit
<1>2. GossipInv /\ [GossipNext]_gvars => [Dissemination!SpreadNext]_(Dissemination!spreadVars)
  <2>. SUFFICES ASSUME GossipInv, [GossipNext]_gvars
                PROVE  [Dissemination!SpreadNext]_(Dissemination!spreadVars)
    OBVIOUS
  <2>1. ASSUME UNCHANGED <<dag, event>> PROVE UNCHANGED Dissemination!spreadVars
    BY <2>1 DEF ParentsOf, StoredBy, Dissemination!spreadVars
  <2>2. ASSUME NEW n \in Peers, ProcedureA(n)
        PROVE  UNCHANGED <<dag, event>> \/ AInsert(n)
    BY <2>2 DEF ProcedureA, APick, ASend, AForm, AFormNone, AStamp, vars, store
  <2>3. ASSUME NEW n \in Peers, ProcedureB(n)
        PROVE  UNCHANGED <<dag, event>>
    BY <2>3 DEF ProcedureB, BReceive, BEvents, BReply, vars, store
  <2>4. ASSUME NEW n \in Peers, Listener(n)
        PROVE  UNCHANGED <<dag, event>> \/ LInsert(n)
    BY <2>4 DEF Listener, LReceive, LHeight, store
  <2>5. CASE UNCHANGED gvars
    BY <2>1, <2>5 DEF gvars, vars
  <2>. QED  BY <2>1, <2>2, <2>3, <2>4, <2>5, AInsertForms, LInsertLearns DEF GossipNext
<1>. QED  BY <1>1, <1>2, GossipInvariance, PTL
          DEF GossipSpec, ImplementsSpread, Dissemination!SpreadSpec

-----------------------------------------------------------------------------
(* What the nodes agree on although the listener inserts what it is sent   *)
(* without asking whether it is stored (lib.rs:122-151).                   *)

(* procedure_a's event is one of the DAG, over stored parents, when it is  *)
(* inserted (lib.rs:294-305).                                              *)
LEMMA AInsertInserts ==
  ASSUME GossipInv, StoresInv, NEW n \in Peers, AInsert(n)
  PROVE  StoresInv' /\ \A m \in Peers : Single(frame'[m]) => FinalKept(m)
<1>. PICK a : a = procA[n]
  OBVIOUS
<1>. PICK h : h = height[n][n]
  OBVIOUS
<1>. DEFINE sp == a.self_parent
            op == a.other_parent
            e == <<n, h>>
            content == NewEvent(dag, e, sp, op, a.lamport_timestamp)
<1>1. /\ a.lamport_timestamp \in Nat
      /\ sp = <<n, h - 1>> /\ h - 1 \in Nat /\ h \in Nat /\ {sp, op} \subseteq Stored(n)
      /\ Stored(n) \subseteq DOMAIN dag
      /\ e \notin DOMAIN dag
  BY DEF AInsert, GossipInv, ProcAOK, Forming, ShapeOK, PeerHeightsOK, StoreOK
<1>2. sp[2] + 1 = h /\ <<n, sp[2] + 1>> = e /\ (h - 1) + 1 = h
  BY <1>1
<1>3. dag' = insert(dag, e, content) /\ insert_event(n, e, insert(dag, e, content))
  BY <1>2 DEF AInsert
<1>4. DagOK(dag') /\ Extends(dag', dag)
  <2>1. DagOK(dag) /\ <<n, h - 1>> \in DOMAIN dag /\ op \in DOMAIN dag
        /\ <<n, (h - 1) + 1>> \notin DOMAIN dag
    BY <1>1, <1>2 DEF StoresInv
  <2>2. content = [self_parent |-> <<n, h - 1>>, other_parent |-> op,
                   lamport_timestamp |-> a.lamport_timestamp,
                   frame |-> CompleteFrame(dag, <<n, h - 1>>, op),
                   roots |-> CompleteRoots(dag, <<n, (h - 1) + 1>>, <<n, h - 1>>, op)]
    BY <1>1, <1>2 DEF NewEvent
  <2>. HIDE DEF content, op
  <2>3. /\ DagOK(insert(dag, <<n, (h - 1) + 1>>, content))
        /\ Extends(insert(dag, <<n, (h - 1) + 1>>, content), dag)
    BY <1>1, <2>1, <2>2, DagGrows
  <2>. QED  BY <1>2, <1>3, <2>3
<1>5. content.self_parent = sp /\ content.other_parent = op
  BY DEF NewEvent
<1>. HIDE DEF content
<1>6. e \in DOMAIN dag' /\ dag'[e] = content
  BY <1>3 DEF insert
<1>7. dag'[e].self_parent \in DOMAIN event[n] /\ dag'[e].other_parent \in DOMAIN event[n]
  BY <1>1, <1>5, <1>6 DEF Stored
<1>8. insert_event(n, e, dag')
  BY <1>3
<1>. HIDE DEF e
<1>. QED  BY <1>4, <1>6, <1>7, <1>8, StoresStep

(* The listener's event is one of the DAG, over stored parents, stored     *)
(* before or not (lib.rs:122-136).                                         *)
LEMMA LInsertInserts ==
  ASSUME GossipInv, StoresInv, NEW n \in Peers, LInsert(n)
  PROVE  StoresInv' /\ \A m \in Peers : Single(frame'[m]) => FinalKept(m)
<1>1. PICK e \in Earliest(listener[n].events) : insert_event(n, e, dag)
  BY DEF LInsert
<1>2. e \in DOMAIN dag /\ Parents(e) \subseteq Stored(n)
  <2>1. e \in listener[n].events /\ listener[n].at = "insert"
    BY DEF LInsert, Earliest
  <2>2. e \in DOMAIN dag
    BY <2>1 DEF GossipInv, ListenerOK, Replyable
  <2>. QED  BY <2>1, <2>2, EarliestInsertable
<1>3. dag' = dag
  BY DEF LInsert
<1>4. DagOK(dag') /\ Extends(dag', dag)
  BY <1>3 DEF StoresInv, Extends
<1>5. dag'[e].self_parent \in DOMAIN event[n] /\ dag'[e].other_parent \in DOMAIN event[n]
  BY <1>2, <1>3 DEF Parents, Stored
<1>6. insert_event(n, e, dag') /\ e \in DOMAIN dag'
  BY <1>1, <1>2, <1>3
<1>. QED  BY <1>4, <1>5, <1>6, StoresStep

LEMMA GossipStores ==
  ASSUME GossipInv, StoresInv, [GossipNext]_gvars
  PROVE  StoresInv' /\ \A m \in Peers : Single(frame'[m]) => FinalKept(m)
<1>. DEFINE Goal == StoresInv' /\ \A m \in Peers : Single(frame'[m]) => FinalKept(m)
<1>1. ASSUME UNCHANGED <<dag, event, flag_table, frame, last_finalised_frame>> PROVE Goal
  BY <1>1, StoresSame
<1>2. ASSUME NEW n \in Peers, ProcedureA(n)
      PROVE  UNCHANGED <<dag, event, flag_table, frame, last_finalised_frame>> \/ AInsert(n)
  BY <1>2 DEF ProcedureA, APick, ASend, AForm, AFormNone, AStamp, vars, store
<1>3. ASSUME NEW n \in Peers, ProcedureB(n)
      PROVE  UNCHANGED <<dag, event, flag_table, frame, last_finalised_frame>>
  BY <1>3 DEF ProcedureB, BReceive, BEvents, BReply, vars, store
<1>4. ASSUME NEW n \in Peers, Listener(n)
      PROVE  UNCHANGED <<dag, event, flag_table, frame, last_finalised_frame>> \/ LInsert(n)
  BY <1>4 DEF Listener, LReceive, LHeight, store
<1>5. CASE UNCHANGED gvars
  BY <1>1, <1>5 DEF gvars, vars
<1>6. ASSUME NEW n \in Peers, AInsert(n) PROVE Goal
  BY <1>6, AInsertInserts
<1>7. ASSUME NEW n \in Peers, LInsert(n) PROVE Goal
  BY <1>7, LInsertInserts
<1>. HIDE DEF Goal
<1>8. ASSUME NEW n \in Peers, ProcedureA(n) PROVE Goal
  <2>1. CASE UNCHANGED <<dag, event, flag_table, frame, last_finalised_frame>>
    BY <1>1, <2>1
  <2>2. CASE AInsert(n)
    BY <1>6, <2>2
  <2>. QED  BY <1>2, <1>8, <2>1, <2>2
<1>9. ASSUME NEW n \in Peers, ProcedureB(n) PROVE Goal
  BY <1>1, <1>3, <1>9
<1>10. ASSUME NEW n \in Peers, Listener(n) PROVE Goal
  <2>1. CASE UNCHANGED <<dag, event, flag_table, frame, last_finalised_frame>>
    BY <1>1, <2>1
  <2>2. CASE LInsert(n)
    BY <1>7, <2>2
  <2>. QED  BY <1>4, <1>10, <2>1, <2>2
<1>11. ASSUME GossipNext PROVE Goal
  BY <1>8, <1>9, <1>10, <1>11 DEF GossipNext
<1>. QED  BY <1>5, <1>11 DEF Goal

(* Every store has its types whatever is inserted again, and one with a    *)
(* single record of each event is faithful to the DAG (core.rs:183-308).   *)
THEOREM GossipStoresInvariance == GossipSpec => []StoresInv
<1>1. GossipInit => StoresInv
  BY StoresInit DEF GossipInit
<1>2. GossipInv /\ StoresInv /\ [GossipNext]_gvars => StoresInv'
  BY GossipStores
<1>. QED  BY <1>1, <1>2, GossipInvariance, PTL DEF GossipSpec

(* A flag table names stored events only, also on a node on which events   *)
(* have been inserted twice: no lookup recurses for ever (store.rs:64-72). *)
THEOREM GossipRootsStored == GossipSpec => []RootsStored
BY GossipStoresInvariance, StoresRoots, PTL

(* An undisturbed node has the frame numbers that complete tables give,    *)
(* with requests, answers and threads as in the code (core.rs:197-243).    *)
THEOREM GossipNumbers == GossipSpec => []UndisturbedNumbers
BY GossipStoresInvariance, StoresNumbers, PTL

(* Two undisturbed nodes have the same in every frame both have finalised, *)
(* whatever is inserted again on other nodes (core.rs:277-295).            *)
THEOREM GossipAgree == GossipSpec => []UndisturbedAgree
BY GossipStoresInvariance, StoresAgree, PTL

(* A final frame of an undisturbed node has every event of its number that *)
(* any node has formed, with messages under way as in the code             *)
(* (core.rs:277-295, lib.rs:122-151).                                      *)
THEOREM GossipComplete == GossipSpec => []UndisturbedComplete
BY GossipStoresInvariance, StoresComplete, PTL

(* An undisturbed node has finalised as far as its events decide           *)
(* (core.rs:260-278).                                                      *)
THEOREM GossipExact == GossipSpec => []UndisturbedExact
BY GossipStoresInvariance, StoresExact, PTL

(* A step that leaves a node undisturbed leaves its final frames alone     *)
(* (core.rs:277-306).                                                      *)
THEOREM GossipStable == GossipSpec => UndisturbedStable
<1>1. GossipInv /\ StoresInv /\ [GossipNext]_gvars =>
        [\A n \in Peers : Undisturbed(n)' =>
           /\ last_finalised_frame'[n] >= last_finalised_frame[n]
           /\ \A f \in 0 .. last_finalised_frame[n] : frame'[n][f] = frame[n][f]]_vars
  <2>. SUFFICES ASSUME GossipInv, StoresInv, [GossipNext]_gvars, NEW n \in Peers, Undisturbed(n)'
                PROVE  /\ last_finalised_frame'[n] >= last_finalised_frame[n]
                       /\ \A f \in 0 .. last_finalised_frame[n] : frame'[n][f] = frame[n][f]
    OBVIOUS
  <2>1. Single(frame'[n])
    BY DEF Undisturbed, Single
  <2>2. FinalKept(n)
    BY <2>1, GossipStores
  <2>. QED  BY <2>2 DEF FinalKept
<1>. QED  BY <1>1, GossipInvariance, GossipStoresInvariance, PTL DEF GossipSpec, UndisturbedStable
=============================================================================
