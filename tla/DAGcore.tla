------------------------------ MODULE DAGcore ------------------------------
(***************************************************************************)
(* The consensus core of libconsensus-dag: what every node's DAGcore and   *)
(* store hold, and what insert_event does to them.                         *)
(*                                                                         *)
(* N nodes build one DAG of events.  A node creates an event from its own  *)
(* last event and the last event it knows of one peer (procedure_a), and   *)
(* it learns the events of the others in an order in which parents come    *)
(* first (listener).  Each node computes frame numbers, roots and          *)
(* finalised frames on its own: the nodes never vote on them.  The module  *)
(* is about whether these local computations agree.                        *)
(*                                                                         *)
(* How requests and replies carry events is the subject of module Gossip;  *)
(* here an event reaches insert_event at any time after its parents.       *)
(***************************************************************************)
EXTENDS Integers, Sequences, FiniteSets, TLC, FlagTable

CONSTANTS
  N,            \* number of peers; a peer is its position in the sorted list
  MaxHeight,    \* bound: events each peer creates on top of its leaf event
  NoHash        \* EventHash::default(), the parents of a leaf event

ASSUME NAssumption == N \in Nat \ {0, 1}

Peers == 1 .. N

ASSUME MaxHeightAssumption == MaxHeight \in [Peers -> Nat]

(* A hash names an event.  A creator forms one event per height, so the    *)
(* pair <<creator, height>> stands for the hash.                           *)
Events == Peers \X Nat
Creator(e) == e[1]
Leaf(p) == <<p, 0>>

ASSUME NoHashAssumption == NoHash \notin Events

VARIABLES
  dag,                  \* the events ever formed, by hash, with their content
  event,                \* event[n]: n's stored events, with the frame number stored
  flag_table,           \* flag_table[n]: n's stored flag tables, by hash
  frame,                \* frame[n]: n's stored frames, the hashes in Vec order
  last_finalised_frame, \* per node; -1 is None
  lamport_time,         \* DAGcore::lamport_time of each node
  height                \* height[n][p]: the height n's peer list has for p

vars == <<dag, event, flag_table, frame, last_finalised_frame, lamport_time, height>>

-----------------------------------------------------------------------------
(* The content of an event.  frame and roots are history: what the creator *)
(* would compute from complete flag tables, with nothing ever pruned.  No  *)
(* action reads them; the properties compare the nodes' results to them.   *)
EventContent ==
  [self_parent : Events \cup {NoHash}, other_parent : Events \cup {NoHash},
   lamport_timestamp : Nat, frame : Nat, roots : SUBSET Events]

(* The frame number and the visible roots of an event over sp and op, from *)
(* the complete sets of visible roots of the parents in DAG d.             *)
CompleteFrame(d, sp, op) ==
  LET seen == {r \in d[sp].roots \cup d[op].roots : d[r].frame = d[sp].frame}
      majority == Cardinality({Creator(r) : r \in seen}) >= root_majority(N)
  IN  IF d[sp].frame < d[op].frame THEN d[op].frame
      ELSE IF d[sp].frame = d[op].frame /\ majority THEN d[sp].frame + 1
      ELSE d[sp].frame

CompleteRoots(d, e, sp, op) ==
  d[sp].roots \cup d[op].roots
    \cup (IF CompleteFrame(d, sp, op) > d[sp].frame THEN {e} ELSE {})

(* Event::new for event e over sp and op, stamped with time. *)
NewEvent(d, e, sp, op, time) ==
  [self_parent |-> sp, other_parent |-> op, lamport_timestamp |-> time,
   frame |-> CompleteFrame(d, sp, op), roots |-> CompleteRoots(d, e, sp, op)]

-----------------------------------------------------------------------------
(***************************************************************************)
(* frame.rs: finalise sorts a frame by Lamport time, then by hash.  Any    *)
(* fixed total order does for the hashes; this one is lexicographic.       *)
(***************************************************************************)
HashLess(a, b) == a[1] < b[1] \/ (a[1] = b[1] /\ a[2] < b[2])

Before(d, a, b) ==
  LET ta == d[a].lamport_timestamp
      tb == d[b].lamport_timestamp
  IN  ta < tb \/ (ta = tb /\ HashLess(a, b))

(* finalise without the tie break on the hash. *)
finalise_no_tie_break(d, events) ==
  SortSeq(events, LAMBDA a, b : d[a].lamport_timestamp < d[b].lamport_timestamp)

(* finalise that compares the wrong way round. *)
finalise_descending(d, events) == SortSeq(events, LAMBDA a, b : Before(d, b, a))

(* sort_by: position i gets the entry that has fewer than i entries before *)
(* it and at least i entries, itself included, that are not after it.      *)
finalise(d, events) ==
  [i \in DOMAIN events |->
     CHOOSE x \in Range(events) :
       /\ Cardinality({j \in DOMAIN events : Before(d, events[j], x)}) < i
       /\ Cardinality({j \in DOMAIN events : ~ Before(d, x, events[j])}) >= i]

(* get_frame that forgets what is stored. *)
get_frame_overwrite(frames, f) == <<>>

(* get_frame: a frame that was never written is empty. *)
get_frame(frames, f) == IF f \in DOMAIN frames THEN frames[f] ELSE <<>>

(* set_event's record of e in the frame of its number. *)
push_record(frames, number, e) == insert(frames, number, Append(get_frame(frames, number), e))

(* Some(x) => x. *)
first_not_finalised_frame_off_by_one(n) == last_finalised_frame[n]

(* None => 0, Some(x) => x + 1. *)
first_not_finalised_frame(n) == last_finalised_frame[n] + 1

(***************************************************************************)
(* insert_event's frame number and root flag for an event over the stored  *)
(* parents sp and op (core.rs, the match on the parents' frame numbers).   *)
(***************************************************************************)
CreatorOf(stored) == [e \in stored |-> Creator(e)]

RootMajorityVisible(n, sp, op) ==
  LET root_flag_table ==
        strict_merge_flag_table(flag_table[n][sp], flag_table[n][op], event[n][sp])
      creator_root_flag_table ==
        derive_creator_flag_table(root_flag_table, event[n][sp], CreatorOf(DOMAIN event[n]))
  IN  Cardinality(DOMAIN creator_root_flag_table) >= root_majority(N)

IsRoot(n, sp, op) ==
  \/ event[n][sp] < event[n][op]
  \/ event[n][sp] = event[n][op] /\ RootMajorityVisible(n, sp, op)

(* FrameOf that raises the number above an other parent that is behind. *)
FrameOf_ahead(n, sp, op) ==
  IF event[n][sp] < event[n][op] THEN event[n][op] ELSE event[n][sp] + 1

FrameOf(n, sp, op) ==
  IF event[n][sp] < event[n][op] THEN event[n][op]
  ELSE IF IsRoot(n, sp, op) THEN event[n][sp] + 1
  ELSE event[n][sp]

(* Visibilis with the hash the new event still has before it is signed. *)
Visibilis_default_hash(n, e, sp, op) ==
  LET merged == open_merge_flag_table(flag_table[n][sp], flag_table[n][op],
                                      first_not_finalised_frame(n))
  IN  IF IsRoot(n, sp, op) THEN insert(merged, NoHash, FrameOf(n, sp, op)) ELSE merged

(* The flag table insert_event stores for e. *)
Visibilis(n, e, sp, op) ==
  LET merged == open_merge_flag_table(flag_table[n][sp], flag_table[n][op],
                                      first_not_finalised_frame(n))
  IN  IF IsRoot(n, sp, op) THEN insert(merged, e, FrameOf(n, sp, op)) ELSE merged

(* FrameUpto with the greatest frame instead of the smallest. *)
FrameUpto_max(n, ft, stored) ==
  LET creator_ft == derive_creator_flag_table(ft, first_not_finalised_frame(n) + 1,
                                              CreatorOf(stored))
  IN  IF Cardinality(DOMAIN creator_ft) = N THEN Max(Range(creator_ft))
      ELSE first_not_finalised_frame(n)

(* FrameUpto that does not wait for a root of every peer. *)
FrameUpto_some_peers(n, ft, stored) ==
  Max({first_not_finalised_frame(n),
       min_frame(derive_creator_flag_table(ft, first_not_finalised_frame(n) + 1,
                                           CreatorOf(stored)))})

(* The first frame insert_event does not finalise, given the new table.    *)
FrameUpto(n, ft, stored) ==
  LET creator_ft == derive_creator_flag_table(ft, first_not_finalised_frame(n) + 1,
                                              CreatorOf(stored))
  IN  IF Cardinality(DOMAIN creator_ft) = N THEN min_frame(creator_ft)
      ELSE first_not_finalised_frame(n)

(***************************************************************************)
(* DAGcore::insert_event of event e, whose content is in d, on node n.  It *)
(* runs under core's write lock from end to end.  Nothing in it asks       *)
(* whether e is stored already.                                            *)
(***************************************************************************)
insert_event(n, e, d) ==
  LET sp     == d[e].self_parent
      op     == d[e].other_parent
      number == FrameOf(n, sp, op)
      ft     == Visibilis(n, e, sp, op)
      stored == insert(event[n], e, number)
      pushed == push_record(frame[n], number, e)
      first  == first_not_finalised_frame(n)
      upto   == FrameUpto(n, ft, DOMAIN stored)
      final  == first .. (upto - 1)
  IN  /\ event' = [event EXCEPT ![n] = stored]
      /\ flag_table' = [flag_table EXCEPT ![n] = insert(@, e, ft)]
      /\ frame' = [frame EXCEPT ![n] =
                     [f \in DOMAIN pushed \cup final |->
                        IF f \in final THEN finalise(d, get_frame(pushed, f)) ELSE pushed[f]]]
      /\ last_finalised_frame' =
           [last_finalised_frame EXCEPT ![n] = IF upto > first THEN upto - 1 ELSE @]

-----------------------------------------------------------------------------
(***************************************************************************)
(* DAGcore::new on every node: the leaf events of all peers are stored as  *)
(* roots of frame 0, in the order of the sorted peer list.                 *)
(***************************************************************************)
Leaves == {Leaf(p) : p \in Peers}

Init ==
  /\ dag = [e \in Leaves |-> [self_parent |-> NoHash, other_parent |-> NoHash,
                              lamport_timestamp |-> 0, frame |-> 0, roots |-> {e}]]
  /\ event = [n \in Peers |-> [e \in Leaves |-> 0]]
  /\ flag_table = [n \in Peers |-> [e \in Leaves |-> [k \in {e} |-> 0]]]
  /\ frame = [n \in Peers |-> [f \in {0} |-> [p \in Peers |-> Leaf(p)]]]
  /\ last_finalised_frame = [n \in Peers |-> -1]
  /\ lamport_time = [n \in Peers |-> 0]
  /\ height = [n \in Peers |-> [p \in Peers |-> 0]]

(* The peers next_peer can return to node n: those at a distance of N      *)
(* halved once or more, down to 1 (module PeerList).                       *)
Halvings == {r \in 1 .. (N \div 2) : \E k \in 1 .. N : r = N \div (2 ^ k)}
Partners(n) == {((n - 1 + r) % N) + 1 : r \in Halvings}

(***************************************************************************)
(* procedure_a: form an event over the own last event and the last known   *)
(* event of peer p, stamp it, insert it.                                   *)
(***************************************************************************)
CreateEvent(n, p) ==
  /\ height[n][n] < MaxHeight[n]
  /\ LET h  == height[n][n] + 1
         e  == <<n, h>>
         sp == <<n, h - 1>>
         op == <<p, height[n][p]>>
         content == NewEvent(dag, e, sp, op, lamport_time[n] + 1)
     IN  /\ dag' = insert(dag, e, content)
         /\ height' = [height EXCEPT ![n][n] = h]
         /\ lamport_time' = [lamport_time EXCEPT ![n] = @ + 1]
         /\ insert_event(n, e, insert(dag, e, content))

(* update_lamport_time, called with the clock another node put into a      *)
(* request or a reply some time ago.                                       *)
UpdateLamportTime(n) ==
  \E m \in Peers \ {n} :
    \E time \in (lamport_time[n] + 1) .. lamport_time[m] :
      /\ lamport_time' = [lamport_time EXCEPT ![n] = time]
      /\ UNCHANGED <<dag, event, flag_table, frame, last_finalised_frame, height>>

(* The reply's clock, which covers the event, has been merged before and   *)
(* the event's parents precede it in the reply or are stored already.      *)
Receivable(n, e) ==
  /\ {dag[e].self_parent, dag[e].other_parent} \subseteq DOMAIN event[n]
  /\ dag[e].lamport_timestamp <= lamport_time[n]

(* listener: insert one event of a reply and raise the creator's height.   *)
ReceiveEvent(n, e) ==
  /\ Receivable(n, e)
  /\ height' = [height EXCEPT ![n][Creator(e)] = IF @ < e[2] THEN e[2] ELSE @]
  /\ insert_event(n, e, dag)
  /\ UNCHANGED <<dag, lamport_time>>

(* Every event is handed to insert_event once per node.                    *)
Next ==
  \E n \in Peers :
    \/ \E p \in Partners(n) : CreateEvent(n, p)
    \/ UpdateLamportTime(n)
    \/ \E e \in DOMAIN dag \ DOMAIN event[n] : ReceiveEvent(n, e)

Spec == Init /\ [][Next]_vars

-----------------------------------------------------------------------------
(* Every variable has its type, a flag table exists for every stored event *)
(* (set_flag_table and set_event of insert_event go together) and no       *)
(* stored frame is empty.                                                  *)
StoreTypeOK ==
  /\ DOMAIN dag \subseteq {e \in Events : e[2] <= MaxHeight[Creator(e)]}
  /\ dag \in [DOMAIN dag -> EventContent]
  /\ lamport_time \in [Peers -> Nat]
  /\ height \in [Peers -> [Peers -> Nat]]
  /\ last_finalised_frame \in [Peers -> Nat \cup {-1}]
  /\ DOMAIN event = Peers /\ DOMAIN flag_table = Peers
  /\ \A n \in Peers :
       /\ DOMAIN event[n] \subseteq DOMAIN dag
       /\ event[n] \in [DOMAIN event[n] -> Nat]
       /\ DOMAIN flag_table[n] = DOMAIN event[n]
       /\ \A e \in DOMAIN event[n] :
            flag_table[n][e] \in [DOMAIN flag_table[n][e] -> Nat]

FrameTypeOK ==
  /\ DOMAIN frame = Peers
  /\ \A n \in Peers : \A f \in DOMAIN frame[n] :
       f \in Nat /\ frame[n][f] \in Seq(DOMAIN event[n]) \ {<<>>}

TypeOK == StoreTypeOK /\ FrameTypeOK

-----------------------------------------------------------------------------
(* A flag table names events that the node stores, so the lookups of       *)
(* derive_creator_flag_table find every key.  A key that is missing goes   *)
(* to a comparison that calls itself for ever (store.rs:66-72,             *)
(* errors.rs:78), with core's lock held.                                   *)
RootsStored ==
  \A n \in Peers : \A e \in DOMAIN event[n] :
    DOMAIN flag_table[n][e] \subseteq DOMAIN event[n]

(* A node computes for an event the frame number that every other node and *)
(* the event's creator computes, although each prunes its flag tables at   *)
(* its own first_not_finalised_frame (core.rs:197-227, 235-243).           *)
FrameAgreement ==
  \A n \in Peers : \A e \in DOMAIN event[n] : event[n][e] = dag[e].frame

(* Pruning loses nothing a later decision needs: a stored flag table has   *)
(* only visible roots of its event, at their frames, and every visible     *)
(* root at or above the first frame that is not final (flag_table.rs:60).  *)
FlagTableFaithful ==
  \A n \in Peers : \A e \in DOMAIN event[n] :
    LET ft == flag_table[n][e]
    IN  /\ DOMAIN ft \subseteq dag[e].roots
        /\ \A r \in DOMAIN ft : ft[r] = dag[r].frame
        /\ \A r \in dag[e].roots :
             dag[r].frame >= first_not_finalised_frame(n) => r \in DOMAIN ft

(* The frames on disk and the events on disk say the same: every stored    *)
(* event has one record, in the frame of its number, and frames have no    *)
(* gap (set_event's read-modify-write of the frame, store_sled.rs:69-83).  *)
FramesHoldStore ==
  \A n \in Peers :
    /\ DOMAIN frame[n] = 0 .. Max(DOMAIN frame[n])
    /\ \A f \in DOMAIN frame[n] :
         /\ Range(frame[n][f]) = {e \in DOMAIN event[n] : event[n][e] = f}
         /\ Len(frame[n][f]) = Cardinality(Range(frame[n][f]))

(* Consensus: two nodes that have finalised a frame have the same events   *)
(* in the same order in it (core.rs:277-295, frame.rs finalise).           *)
FinalisedFrameAgreement ==
  \A n, m \in Peers : \A f \in 0 .. last_finalised_frame[n] :
    f <= last_finalised_frame[m] => frame[n][f] = frame[m][f]

(* The events of a finalised frame are all the events the DAG has, or will *)
(* get, with that frame number.                                            *)
FinalisedFrameComplete ==
  \A n \in Peers : \A e \in DOMAIN dag :
    dag[e].frame <= last_finalised_frame[n] => e \in DOMAIN event[n]

(* Finalisation depends on the set of stored events only, not on the order *)
(* of their arrival: the first open frame is the greatest frame that some  *)
(* stored event sees a root at or above of, for every peer                 *)
(* (core.rs:260-263, 277-278; frames are finalised as far as possible).    *)
TopRoot(e, p) == Max({dag[r].frame : r \in {x \in dag[e].roots : Creator(x) = p}})

DecidedUpto(e) ==
  IF {Creator(r) : r \in dag[e].roots} = Peers THEN Min({TopRoot(e, p) : p \in Peers}) ELSE 0

FinalisationExact ==
  \A n \in Peers :
    first_not_finalised_frame(n) = Max({DecidedUpto(e) : e \in DOMAIN event[n]})

(* A frame is final only when a majority of the peers have an event in it, *)
(* although a slow peer's frame number jumps over frames to that of its    *)
(* other parent (core.rs:219-227, 277-278).  poll_next reads two events of *)
(* a frame without asking whether there are any (lib.rs:655-658).          *)
FinalFramesHaveMajority ==
  \A n \in Peers : \A f \in 0 .. last_finalised_frame[n] :
    Cardinality({Creator(e) : e \in Range(frame[n][f])}) >= root_majority(N)

(* The final frames, one after the other, have the events of each creator  *)
(* in the order in which it formed them: its transactions come out in the  *)
(* order in which they were sent.  Frame numbers must not fall and clocks  *)
(* must rise along its chain (core.rs:219-227, lib.rs:286-290,             *)
(* frame.rs:39-54).                                                        *)
FinalFramesFollowChains ==
  \A n \in Peers : \A f, g \in 0 .. last_finalised_frame[n] :
    \A i \in DOMAIN frame[n][f], j \in DOMAIN frame[n][g] :
      LET a == frame[n][f][i]
          b == frame[n][g][j]
      IN  Creator(a) = Creator(b) /\ a[2] < b[2] => f < g \/ (f = g /\ i < j)

(* What the consumer may have read never changes: no event is added to a   *)
(* finalised frame, and finalisation is never taken back.                  *)
FinalisedFramesStable ==
  [][\A n \in Peers :
       /\ last_finalised_frame'[n] >= last_finalised_frame[n]
       /\ \A f \in 0 .. last_finalised_frame[n] : frame'[n][f] = frame[n][f]]_vars

-----------------------------------------------------------------------------
(***************************************************************************)
(* What is left of this when an event is handed to insert_event again, as  *)
(* it is in modules Late and Gossip.                                       *)
(***************************************************************************)

(* Node n has one record of every event in its frames: no late answer has  *)
(* brought it an event that it stored already (lib.rs:135, core.rs:183).   *)
Undisturbed(n) ==
  \A f, g \in DOMAIN frame[n] : \A i \in DOMAIN frame[n][f], j \in DOMAIN frame[n][g] :
    frame[n][f][i] = frame[n][g][j] => f = g /\ i = j

(* Pruned tables give an undisturbed node the frame numbers the creators   *)
(* would get from complete ones, whatever late answers do to other nodes   *)
(* and to the numbers they compute (core.rs:197-227, 235-243).             *)
UndisturbedNumbers ==
  \A n \in Peers : Undisturbed(n) => \A e \in DOMAIN event[n] : event[n][e] = dag[e].frame

(* A final frame of an undisturbed node has all events with its number,    *)
(* those formed by disturbed nodes and those not yet received anywhere     *)
(* included, by Lamport time and hash.  So nothing that is still to come   *)
(* belongs into it, and its content does not depend on the node            *)
(* (core.rs:277-295, frame.rs:39-54).                                      *)
UndisturbedComplete ==
  \A n \in Peers : Undisturbed(n) => \A f \in 0 .. last_finalised_frame[n] :
    /\ Range(frame[n][f]) = {e \in DOMAIN dag : dag[e].frame = f}
    /\ \A i, j \in DOMAIN frame[n][f] : i < j => Before(dag, frame[n][f][i], frame[n][f][j])

(* Consensus as far as the code has it: two undisturbed nodes that have    *)
(* finalised a frame have the same events in the same order in it, so an   *)
(* event that is inserted twice is the only cause of disagreement, and it  *)
(* does not spread from node to node (core.rs:277-295, frame.rs:39-54).    *)
UndisturbedAgree ==
  \A n, m \in {p \in Peers : Undisturbed(p)} : \A f \in 0 .. last_finalised_frame[n] :
    f <= last_finalised_frame[m] => frame[n][f] = frame[m][f]

(* An undisturbed node finalises as far as its events decide, in whatever  *)
(* order the answers brought them (core.rs:260-263, 277-278).              *)
UndisturbedExact ==
  \A n \in Peers : Undisturbed(n) =>
    first_not_finalised_frame(n) = Max({DecidedUpto(e) : e \in DOMAIN event[n]})

(* A step that leaves a node undisturbed takes no final frame back and     *)
(* adds nothing to one: what the consumer has read stands                  *)
(* (core.rs:277-306, store_sled.rs:69-83).                                 *)
UndisturbedStable ==
  [][\A n \in Peers : Undisturbed(n)' =>
       /\ last_finalised_frame'[n] >= last_finalised_frame[n]
       /\ \A f \in 0 .. last_finalised_frame[n] : frame'[n][f] = frame[n][f]]_vars

-----------------------------------------------------------------------------
(* The frames a node has finalised, and those of the node that is furthest. *)
FinalisedFrames(n) == [i \in 1 .. first_not_finalised_frame(n) |-> frame[n][i - 1]]

Furthest ==
  CHOOSE n \in Peers : \A m \in Peers : last_finalised_frame[m] <= last_finalised_frame[n]

Log == INSTANCE FrameLog WITH Nodes <- Peers,
                              decided <- FinalisedFrames(Furthest),
                              known <- [n \in Peers |-> FinalisedFrames(n)]

(* The core implements the one log of frames: whatever the order in which  *)
(* events reach the nodes, what each has finalised is a prefix of one      *)
(* sequence of frames that have no event in common (core.rs:277-306).      *)
ImplementsFrameLog == Log!LogSpec

(* The parents of every event formed, and the events each node stores. *)
ParentsOf == [e \in DOMAIN dag |-> {dag[e].self_parent, dag[e].other_parent} \ {NoHash}]

StoredBy == [n \in Peers |-> DOMAIN event[n]]

Dissemination == INSTANCE Spread WITH Nodes <- Peers, formed <- ParentsOf, held <- StoredBy

(* The stores implement the causal spreading of one DAG: a creator forms   *)
(* one event per height, on top of the one before and of events it stores, *)
(* an event never changes, and none is stored before its parents           *)
(* (lib.rs:246-305, 122-151).                                              *)
ImplementsSpread == Dissemination!SpreadSpec

-----------------------------------------------------------------------------
(* A frame that one node finalises, every node finalises in the end, even  *)
(* when no further event is created (core.rs:277-306).  It takes the       *)
(* fairness of the threads, see module Gossip.  With two peers an event is *)
(* at most one frame above its self-parent, and a final frame has a root   *)
(* of either peer above it: no greater frame is ever final.                *)
EveryoneFinalises ==
  \A f \in 0 .. Min(Range(MaxHeight)) - 1 :
    (\E n \in Peers : last_finalised_frame[n] >= f)
      ~> (\A n \in Peers : last_finalised_frame[n] >= f)
=============================================================================
