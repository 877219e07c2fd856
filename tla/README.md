# libconsensus-dag: a TLA+ model, its checks and its proofs

The repository is a Rust library for a leaderless, DAG-based consensus. Every
node forms *events* over its own last event and the last event it knows of
another peer, spreads them by gossip, and computes from the DAG alone which
events are *roots*, which *frame* an event belongs to, and which frames are
*final*. The transactions of final frames are handed to a consumer as a stream.
Nodes never vote and never exchange a frame number: the whole consensus is that
local computations, run on different orders of arrival and pruned at different
moments, come to the same result. That is what these modules are about.

Line numbers refer to `src/src/*.rs`.

## 1. Inventory

### The parts, their state and their operations

| part | state | operations | modelled in |
|---|---|---|---|
| Flag tables (`flag_table.rs`, `store.rs:60-95`) | none; maps root hash to frame | `strict_merge_flag_table`, `open_merge_flag_table`, `derive_creator_flag_table`, `min_frame` | `FlagTable`; laws in `DAGcoreProofs` |
| Consensus core (`core.rs`, `frame.rs`) | `last_finalised_frame`, `lamport_time`, transaction pools, cursor, quit flag | `new` (leaf events), `insert_event`, `get_next_lamport_time`, `update_lamport_time`, `next_transactions` | `DAGcore`; pools in `Transactions`, quit flag in `Threads`, a second start in `Restart`, late answers in `Late` and `Gossip` |
| Event store (`store_sled.rs`) | three sled trees: events, frames, flag tables | `set_event` (which also appends to a frame), `set_frame`, `set_flag_table`, getters, `get_events_for_gossip` | `DAGcore`, `Gossip`; failing writes in `Threads` |
| Events (`event.rs`, `lamport_time.rs`) | creator, height, parents, Lamport time, frame | constructors, conversions to and from the wire form | `DAGcore` (the content of `dag`) |
| Peer list (`peer.rs`) | peers, `n`, `r`, `creator`, `current`, a height per peer | `add`, `set_creator`, `get_peers_from_file`, `next_peer`, `root_majority`, heights | `PeerList`; heights in `DAGcore`, `Gossip` |
| Gossip threads (`lib.rs:71-416`, `sync.rs`) | locals of three threads per node; messages under way | `procedure_a`, `procedure_b`, `listener` | `Gossip`, `Spread` (abstract) |
| Delivery (`lib.rs:600-696`) | the cursor `current_frame/event/tx`, the waker in `conf` | `poll_next`, and the wake-up in `insert_event` | `Delivery` |
| Transaction pool (`core.rs:135-147`, `lib.rs:509-512`) | a `Vec` of transactions | `send_transaction`, `next_transactions` (up to `TRANSACTIONS_LIMIT`) | `Transactions` |
| Life cycle (`lib.rs:428-560`) | quit flag, quit channels, join handles | `new`, `shutdown`, `drop` | `Threads` |
| Locks (`core`, `conf`, `store`) | three `RwLock`s behind `Arc`s | nested acquisitions, poisoning | `Threads` |
| Configuration, errors, internal transactions | data | setters, conversions | not modelled: no behaviour of their own |

### How they interact

Each node runs three threads. `procedure_a` asks the next peer of the list for
events (a `SyncReq` with the heights it knows), and forms and inserts one event.
`procedure_b` answers requests with a `SyncReply`: the events the requester's
heights say it lacks, sorted by Lamport time. `listener` inserts the events of
replies. All three share `core`, `conf` (which holds the peer list and the
waker) and `store` through read-write locks, and hold them for short critical
sections: what one section reads may be stale in the next. The consumer's task
polls through the same locks and is woken through `conf.waker`. Messages go over
TCP; a failed send is logged and forgotten, and a reply may come from any peer.

### What is hard

The hazards are listed, each at its line, in `PROJECT.json`. The main ones:

* *Pruning.* `insert_event` drops roots below the node's own first open frame
  from the tables it stores, and computes frame numbers from those tables.
  Two nodes therefore compute the number of one event from different tables.
* *Order.* Each node sorts and closes a frame at the arrival of whichever event
  decides it, which is another event on another node. An event with a low frame
  number might still arrive.
* *Stale reads.* Heights in a request, the clock in a reply, `last_finalised_frame`
  in `poll_next` are read in one critical section and used in another.
* *Unreliable and overlapping messages.* Requests and replies are lost, reordered,
  answered late; nothing pairs a reply with a request.
* *Panics with a lock held.* A parent that is not stored, an index outside a
  frame, a failed write: each `unwrap` is in a thread that holds `core`, so a panic
  poisons it and the next user of `core` panics as well.
* *Nested locks.* `insert_event` and `poll_next` take `conf` and `store` under `core`,
  `conf` stays locked while a reply is sent, and `drop` joins threads that need all three.
* *The end.* The listener sees its quit message only when its receiver has returned,
  `procedure_a` only the flag that the listener sets, `procedure_b` only its receiver.
* *Starting again.* The trees survive, heights, clock and `last_finalised_frame` do not.

What makes each part correct: the core, that all nodes agree on numbers, on
final frames and their order, and that what is final is complete and stays; gossip,
that parents always come first, that a node's clock covers its store and that no
creator forks; the peer list, that a node never asks itself and that who-asks-whom
stays connected; delivery, that every consumer gets the one sequence, no record of it
twice, without a gap, and is woken for what is new; the pool, that it hands every
transaction to exactly one event, in order; the threads, that they never wait in a
circle, that they end, and that a failure in one of them stays in its node.

## 2. Modules and how they correspond to the code

```
 FlagTable ---- DAGcore ---- Gossip ---- MCGossip          PeerList ---- MCPeerList
                  |  \ \
                  |   \ Restart ---- MCRestart              Delivery ---- MCDelivery
                  |    Late ---- MCLate                       |
              MCDAGcore                                    Transactions ---- MCTransactions

 FrameLog, Spread: abstract specifications
 (DAGcore implements both, Gossip the second)              Threads

 proofs:   MinMax (lemmas on minima and maxima)
              |                        \
           DAGcoreProofs                DeliveryProofs ---- TransactionsProofs
              |
           FrameProofs ---- LateProofs                     PeerListProofs
              |
           GossipProofs
```

A module of proofs extends the module it is about.

**FlagTable** has the operators on flag tables, with hash maps as functions with
a finite domain. `open_merge_flag_table` is as asymmetric as the code: the floor
is applied to the first table only. (The comment at `flag_table.rs:57-59` says
otherwise; likewise `store.rs:58` says "minimal frame number" where the code
keeps the greatest. Nothing depends on the first; the second is the comment's slip.)

**DAGcore** is the state of every node's core and store: `event`, `flag_table`,
`frame` are the sled trees, `last_finalised_frame`, `lamport_time` and `height`
the fields of the same name. `insert_event` is the whole function
(`core.rs:183-308`): root test, frame number, new flag table, `set_event` with its
append to the frame, finalisation with the sort of every frame it closes (`finalise`: the
entry at a position is the one with that many entries before it). It is
one action because it runs under `core.write` from end to end. `CreateEvent`
is the rest of `procedure_a`, `ReceiveEvent` an iteration of `listener`,
`UpdateLamportTime` the merge of a clock. An event's hash is the pair of creator
and height. `dag` holds the content of every event formed, and with it, as
history that no action reads, the frame number and the visible roots that follow from
complete tables: the reference the nodes' pruned computations are compared to.
In this module an event reaches `insert_event` at any time after its parents,
and *once per node*. `Late` and `Gossip` are where that is looked into.

**Late** is `DAGcore` with a listener that hands `insert_event` an event its node has stored
already (`ReceiveAgain`), as a late answer does. `Gossip` has how such an answer comes about; `Late`
leaves the messages out, so that TLC gets to instances in which frames are final on every node. A node is
*undisturbed* while its frames record no event twice. Since a second record stays for good, that is a
node to which it has not happened so far. The `Undisturbed...` properties say what is left of the
properties of the core: all of them, at the undisturbed nodes, whatever happens at the others.
`UndisturbedComplete` says what is in a final frame of an undisturbed node without looking at another
node: all the events of its number, sorted. That two such nodes agree follows (`UndisturbedAgree`);
next to a disturbed node it takes a third, so it is left to the proofs, which have any number.

**FrameLog** is the abstract specification: one sequence of decided frames that
only grows at its end, of which each node knows a prefix. `DAGcore` is shown to
implement it with `known[n]` the node's final frames and `decided` those of the
node that is furthest.

**Spread** is the abstract specification of what gossip owes to the core: an event has
its parents once and for all, each node forms one chain, whoever holds an event holds its
parents. `DAGcore` and `Gossip` both implement it, with `formed` the parents in `dag` and
`held[n]` the keys of `event[n]`.

**Gossip** extends `DAGcore` with the three threads. One action is one critical
section: `APick`, `ASend`, `AForm`, `AStamp`, `AInsert` for `procedure_a`;
`BReceive`, `BEvents`, `BReply` for `procedure_b`; `LReceive`, `LInsert`, `LHeight`
for `listener`. Messages are in bags per receiver from which any one may be taken,
and a send may fail. Where the code would panic on a missing parent the action is
guarded, and `ParentsStored` says the guard is never what stops it. The sort of a
reply by Lamport time leaves events of equal time in the order of a hash map's
iteration, so the model takes either.

`insert_event` is atomic here although two readers, the parents of `procedure_a`
(`lib.rs:273`) and the events of `procedure_b` (`lib.rs:372`), take `store` alone and not
`core`. `procedure_a` looks at events whose height is known, whose insertion has ended.
`procedure_b` may see an event between its `set_event` and the end of `insert_event`, but
needs `core` before it can send it; by then the insertion has ended, or has poisoned `core`.
`HalfDoneContained` of `Threads` is that argument, checked.

**PeerList** is the set-up of the list, in any order of `add` and `set_creator`, and
`next_peer` afterwards. The list is sorted after every change and ids are
distinct, so a set stands for the `Vec` and an index is a position in the order.

**Delivery** is `poll_next`: one action per lock acquisition, so that `insert_event`
may finalise in between. An event is the sequence of its transactions; the frames are
any sequence of frames with at least two events each, known to each node up to some frame:
that is what `FrameLog` promises and `FinalFramesHaveMajority` says.

**Transactions** extends `Delivery` with what comes before: `send_transaction`, the pool,
`next_transactions` in `procedure_a`, the chain of events each node forms. Which frame
an event falls into is left open within what the core guarantees: every frame goes on
where the one before has stopped in each creator's chain, has the events of one creator in
chain order (`FinalFramesFollowChains` of `DAGcore`), and is final when every peer has an
event beyond it. On top of that come late answers: an event may have further records, each a push of
`set_event`, in its own frame or in another one that becomes final later; `again` remembers them. Two nodes
share one log only if they have the same records, which is so at undisturbed nodes; otherwise the log is
that of one node.

**Threads** is one node as threads and locks, without the data. The rest of a thread's
current round is a sequence of steps (take a guard, drop it, write, send, join), one
sequence per function of the code, transcribed in the order of the code and with the scope
Rust gives each guard: a temporary in the head of a `match` or an `if let` lives to the end
of that statement, so `conf` is held while a reply is sent (`lib.rs:392-401`) and
while a waker runs (`core.rs:301`). A write may fail: the `unwrap` of `insert_event`'s
result panics, drops the guards and poisons `core`; a thread that then takes `core` panics
in turn. The application polls, sends transactions, shuts down and drops, in any order.

**Restart** extends `DAGcore` with `StartAgain`, which is `SledStore::new` and
`DAGcore::new` on the trees as they are: the leaf events are pushed into frame 0 again,
heights, clock and `last_finalised_frame` start anew. A hash is the whole content of an
event there, since a node may form two of one height, and `by_height` is the second key
under which `set_event` stores.

## 3. What the runs check

| run | instance | checks |
|---|---|---|
| `core_two` | 2 nodes, 4 and 3 events, 195 k states | types; `RootsStored`; `FrameAgreement`; `FlagTableFaithful`; `FramesHoldStore`; `FinalisedFrameAgreement`; `FinalisedFrameComplete`; `FinalisationExact`; `FinalFramesHaveMajority`; `FinalFramesFollowChains`; `FinalisedFramesStable`; `ImplementsFrameLog` |
| `gossip_overlap` | 2 nodes, 2 and 1 events, 2 requests outstanding, 78 k states | `ParentsStored`, `ClockCoversStore`, `RequestsBacked`, `NoFork`, `ImplementsSpread` |
| `gossip_live` | 2 nodes, 2 and 1 events, fairness, 127 k states | `EventsSpread`, `EveryoneFinalises` |
| `core_late` | 2 nodes, 3 and 2 events, one event that comes again, 82 k states | `UndisturbedNumbers`, `UndisturbedComplete`, `UndisturbedExact`, `UndisturbedStable`, `RootsStored` |
| `gossip_duplicates` | 2 nodes, 2 events each | **violated**: `FinalisedFrameAgreement` |
| `peers` | up to 6 peers | `NeverSelf`, `OffsetIsHalving`, `CurrentIsCreator`, `SuccessorAskedForEver` |
| `peers_from_file` | up to 4 peers | **violated**: `PeerCountIsLen` |
| `transactions` | 2 nodes, 3 transactions of one of them, 2 to an event, 3 frames of up to 5 records, 1 further record, 1.57 M states | `PoolInOrder`, `ReceivedPerRecord`, `SameOrder`, `CursorInRange`, `SleeperHasWaker` |
| `lost_wakeup` | 1 node | **violated**: `SleeperUpToDate` |
| `skipped_event` | 1 node | **violated**: `NothingSkipped` |
| `threads` | 1 node, 4 threads, 3 locks, fairness, 185 k states | `NoWaitingCircle`, `HalfDoneContained`, `ShutdownEndsThreads`, `DropReturns` |
| `restart` | 2 nodes, 2 and 1 events, 1 restart each | **violated**: `SelfParentIsLast` |

`NoWaitingCircle` counts a reader behind a waiting writer as waiting for it, which a
`RwLock` may do and need not. `ShutdownEndsThreads` is the comment at `lib.rs:501`, and
holds also when a thread panics: it ends, and `core` being poisoned ends the others.
`ReceivedPerRecord` is what the code has of "a transaction comes once": a consumer gets no place of the
log twice, and so a transaction a second time only if a late answer has had its event recorded again
(finding 1). That does happen in the run.

Deadlock is not checked where a bound stops the model (heights, frames, a
consumer that nothing wakes) or the program ends (`threads`); in `peers` it is.

### The bounds and why they are enough

* `MaxHeight` (events per peer). With two peers a majority is both, a root needs
  one event of the other, and the heights 4 and 3 reach several final frames on
  one node while the other has none, late events, and every order of arrival. Three peers
  with events relayed by a third are too many for TLC; the proofs have them.
* `MaxAgain` = 1, in `core_late`: one event comes again, any of the stored ones at any time and
  at either node, so one node is disturbed while the other goes on. The heights are such that both
  have final frames.
* `MaxOutstanding` (requests of a node not dealt with). With one, a reply already
  overlaps the node's own new event, since `procedure_a` does not wait; with two,
  replies overtake each other.
* `AskOn`: whether `procedure_a` goes on asking when the bound on its events is reached
  (its round then ends without one, `AFormNone`). The code always asks on; safety runs stop
  to stay small, `gossip_live` must not.
* `MaxFrames` and the two shapes in `MCFrames`, for the two violated runs. A frame is
  `<<1, 2>>` or `<<0, 1, 1>>` transactions: an event with several, one with none, a frame
  that starts with each. Frames have at least two events (`FinalFramesHaveMajority`).
* `TRANSACTIONS_LIMIT` = 2 instead of 16000, with `MaxSent` = 3 on one node: a pool above, at and
  below the limit. The other node sends none, but its events are in every frame, and in any order;
  the proofs are about any number on each. `MaxEmpty` = 3 on that node: events formed with an empty
  pool, so that frames fill up, and the consumer has events without transactions to pass over. Frames
  come out of the chains there, up to `MaxFrames` = 3.
* `MaxRecords` = 5 (records of a frame) and `MaxAgain` = 1 (further records in the log), in
  `transactions`: a frame has up to five events of both chains, or up to four and, first, last or
  between, a further record of any event formed. The proofs have any number of both.
* In `Threads`, a reply has at most one event, a final decision at most one frame, and
  `shutdown()` is called at most once: repetitions go through the same steps.
* `MaxRestarts` = 1; with 0, `SelfParentIsLast` holds in the same instance.
* `PeerIds`, up to six: odd and even sizes, and two halvings.

### Fairness

`gossip_live` (`FairGossipSpec`): every thread of every node goes on when it can. That is
weak fairness of each thread, since the three of them loop for ever and the critical
sections of others are short; for the two steps that call `insert_event` it is written
as "again and again not enabled or over", with the guard in place of `ENABLED`, which for
those actions is the same. On the network: a message that is sent to the same peer again
and again arrives at times (strong fairness of the sends that succeed). `procedure_a` asks
the successor in the ring again and again (`SuccessorAskedForEver`), and with two nodes
that is the only partner. Nothing says that events must be formed.

`peers` assumes weak fairness of `next_peer`, which `procedure_a` calls in every round.

`threads`: a thread that wants a lock which is free again and again gets it (strong
fairness of a thread's steps; `std` leaves this to the platform, but critical sections are
short and each thread rests, at its heartbeat or its receiver, between rounds), the
heartbeat of `procedure_a` expires, and a receiver that has a quit message sees it even
if messages keep coming. No message, no failing write and no call of the
application has to come.

### Findings

1. **A late answer duplicates events and breaks agreement** (`gossip_duplicates`).
   A request carries the heights of the moment it was formed; `procedure_a` then
   forms its event without waiting. An answer that comes later contains events the
   node has meanwhile, its own new one included, or that another reply brought.
   `listener` (`lib.rs:135`) inserts each of them again and `set_event`
   (`store_sled.rs:78`) pushes a second record into the frame. The final frames of two
   nodes then differ, and the consumers' streams with them: a consumer may get a transaction twice, though
   only then (`ReceivedPerRecord`). The event is also given a new
   flag table, pruned at the floor of that moment: if two events of a chain come again, the second
   may get another frame number than before. What such a node computes is then its own; that it
   does not spread is `core_late`, and proved.
2. **A lost wake-up** (`lost_wakeup`). `poll_next` compares the cursor with a
   `last_finalised_frame` it read under an earlier lock. A frame finalised in
   between finds no waker, and the consumer sleeps until the next frame.
   `SleeperHasWaker` holds: the next frame does wake it.
3. **The first event of frame 1 is skipped** (`skipped_event`). At the end of a frame
   `current_frame` is stored raised (`lib.rs:685`) and raised again, locally, in the
   next turn (`lib.rs:645`). The first event is thus read from one frame further on than
   the others. Over all frames that only shifts first events, except that the first
   event of frame 1 is never read. All consumers do the same, so `SameOrder` holds.
4. **A list that was not built with `add` has `n` = 0** (`peers_from_file`), and
   `next_peer` computes a remainder by zero.
5. **A restarted node forks** (`restart`). `DAGcore::new` on a directory that is not empty
   stores the leaf events once more and starts at height 0; nothing reads back the last event
   of the own chain. `procedure_a` forms its next event, of height 1, on the leaf, and
   `set_event` overwrites the key of creator and height. The rule that
   `check_event` names as still to be implemented (`core.rs:172`) is broken by honest nodes.

Seen while reading, not findings of a run:

* `Drop` starts with `core.read().unwrap()`. On a poisoned `core` it panics there, before it
  has sent a quit message, and leaves `procedure_b` running.
* `shutdown()` wakes no sleeping consumer; only `Drop` does.
* A node sends to others with its `conf` locked; if the peer's TCP stack blocks, so do the
  node's other threads. Across nodes this is outside `NoWaitingCircle`.
* `DAG::new` returning an error after a `spawn` leaves that thread running.

## 4. What is proved

All in TLAPS, for every number of peers (at least two), every bound on heights and requests,
every `PeerIds`, every number of consumers, transactions and frames:

| theorem | module | says |
|---|---|---|
| `Invariance` | `DAGcoreProofs` | `Spec => []IInv`, the invariant of the core |
| `FrameAgreementHolds` | | all nodes give an event the number its creator gave it |
| `FlagTableFaithfulHolds` | | pruning loses no root of an open frame |
| `FinalisedFrameCompleteHolds` | | no event still to come belongs to a final frame |
| `FinalisedFramesStableHolds` | | a final frame never changes |
| `RootsStoredHolds` | | every root of a flag table is a stored event |
| `ImplementsSpreadHolds` | | `DAGcore` implements `Spread` |
| `FramesInvariance` | `FrameProofs` | the invariant of the frames |
| `TypeOKHolds` | | the types of all variables |
| `FramesHoldStoreHolds` | | the frames and the events on disk say the same |
| `FinalisedFrameAgreementHolds` | | **consensus**: two nodes have the same events in the same order in a final frame |
| `FinalisationExactHolds` | | what is final depends on the events stored, not on their order of arrival |
| `ImplementsFrameLogHolds` | | `DAGcore` implements `FrameLog` |
| `ChainInvariance` | | majorities below every event; stamps rise along chains; clocks cover stores |
| `FinalFramesHaveMajorityHolds` | | a final frame has events of a majority of the peers |
| `FinalFramesFollowChainsHolds` | | the final frames have the events of a creator in the order of its chain |
| `AllUndisturbed` | | in `DAGcore`, every node is undisturbed |
| `LateInvariance` | `LateProofs` | the invariant of the core with late answers |
| `UndisturbedNumbersHolds` | | undisturbed nodes compute the right frame numbers |
| `UndisturbedAgreeHolds` | | undisturbed nodes agree on the frames final at both |
| `UndisturbedCompleteHolds` | | a final frame of an undisturbed node has every event of its number, sorted |
| `UndisturbedExactHolds` | | an undisturbed node has finalised what its events decide |
| `UndisturbedStableHolds` | | a final frame of an undisturbed node never changes |
| `LateRootsStored` | | every root of a flag table is a stored event, at every node |
| `GossipInvariance` | `GossipProofs` | the invariant of the three threads and the messages |
| `ParentsStoredHolds` | | no thread looks up a parent that is not there |
| `ClockCoversStoreHolds` | | a clock is never behind a stored event |
| `RequestsBackedHolds` | | a height in a request is that of an event the node stores |
| `NoForkHolds` | | the event being formed is new |
| `GossipImplementsSpread` | | `Gossip` implements `Spread` |
| `GossipStoresInvariance` | | the invariant of the stores, with the three threads and the messages |
| `GossipNumbers`, `GossipAgree`, `GossipComplete`, `GossipExact`, `GossipStable`, `GossipRootsStored` | | the six results of `LateProofs`, for `Gossip` |
| `DeliveryInvariance` | `DeliveryProofs` | the invariant of the cursors, for arbitrary frames |
| `ConsumersAgree` | | the three properties of `Delivery` below, for arbitrary frames |
| `TransactionsInvariance` | `TransactionsProofs` | the invariant from the pool to the consumers |
| `SameOrderHolds`, `CursorInRangeHolds`, `SleeperHasWakerHolds` | | consumers get one sequence, inside the frames; a sleeper has a waker |
| `ReceivedPerRecordHolds` | | a consumer gets a transaction a second time only if its event is recorded again |
| `PoolInOrderHolds` | | what was sent is in events or in the pool, once, in order |
| `OpenMergeSymmetric` | `DAGcoreProofs` | at and above the floor, the order of the two tables does not matter |
| `PruningCommutes` | | pruning before a merge or after it gives the same there |
| `NeverSelfHolds`, `CurrentIsCreatorHolds`, `OffsetIsHalvingHolds` | `PeerListProofs` | a node asks others only, at a halving of the list; the kept index is right |

**Assumptions**: `N \in Nat \ {0, 1}`, `MaxHeight \in [Peers -> Nat]`,
`NoHash \notin Events`; finite `PeerIds \subseteq Nat`; finite `Nodes`, frames of at least two
events, a positive `TRANSACTIONS_LIMIT`, bounds that are numbers. And those of the model: injective
hashes, honest peers, and, in `DAGcore`, each event inserted once per node. `LateProofs` and `GossipProofs`
do without the last, and say for which nodes the results of the core remain.

**The argument for the core.** `FrameAgreement` is not inductive: that a node computes
the right number depends on its pruned tables, that these hold enough depends on
what is final, and that what is final was final rightly depends on the frame numbers.
The invariant `IInv` ties the three together. It says of the DAG (`DagOK`) that
frame numbers do not decrease along a peer's chain and that every event's history
content is what `CompleteFrame` and `CompleteRoots` give; and of every node
(`NodeOK`) that it stores a prefix of every chain, that every stored number equals
the history's, that every table has all visible roots at or above the first open frame
(`FaithfulAt`), and that of every peer it stores some event at or above that frame
(`Reached`). The key is lemma `Fresh`: an event that is not stored yet is, by
`Reached` and the chains, at or above the first open frame, *and so is its
self-parent*. So the root test for a new event only looks at a frame nobody has
pruned (`InsertMajority`), and gives the creator's result (`InsertFrame`);
`InsertTable` re-establishes `FaithfulAt`, `InsertUpto` re-establishes `Reached`.
`Fresh` also gives `FinalisedFrameComplete` and `FinalisedFramesStable`.

**The argument for the frames.** `FramesInv` says that the frames of a node have no gap, that
each lists the stored events of its number once (`Lists`), and that the final ones are sorted.
`InsertFramesOK` keeps it: an append lists one event more (`ListAppend`), a sort loses and
doubles nothing (`FinaliseSorts`). Two nodes that have a final frame list the same set, by
`Fresh`; a set has one sorted listing (`SortedUnique`), so the frames are equal. `ExactInv`,
for `FinalisationExact`, says that the first open frame is the greatest that a stored event
decides; `InsertDecided` shows that `insert_event`, with its pruned tables and its minimum
one above the first open frame, computes just that. For `FrameLog`, all nodes' final frames are prefixes
of those of the furthest node, and no two frames share an event.

**The argument for what consumers need of the frames.** A final frame might be thin: a slow
peer's number jumps to its other parent's, over frames it then has no event in. But a number
that is higher than both parents' comes from a majority test, so below every event of the DAG
each frame has a majority (`MajorityBelow`, `MajorityStays`), and a frame that is final is below
some event. That own events stay in order needs the clocks: `StampsRise` follows from `ClocksCover`, as
a new event is stamped above the clock of a node that stores its whole chain.

**The argument for gossip.** `GossipInv` says that a node's heights, and those in its requests,
are of events it stores, and it stores a prefix of every chain; so what a request's heights leave
out of the answer is stored by the requester, and the parents of an answered event are there
or in the answer (`Replyable`), now and for good. Parents have earlier stamps, hence the earliest
event of an answer never waits for another (`EarliestInsertable`). That stamps rise along
the edges needs that a clock covers the store, and that holds since the clock in a reply is read
after its events. Nothing in this says that an event comes once: it need not.

**The argument for undisturbed nodes.** `StoresInv` says of every node that its tables and frames
are of stored events (`StoreTyped`), and of every node with a single record of each event
(`Single`) what `NodeOK`, `FramesOK` and the exactness of the core say (`Faithful`). It is inductive for three
reasons. A record is never lost: a sort keeps the number of times an entry occurs (`FinaliseDoubles`) and a push
only adds, so two records of an event stay for good (`DoubledStays`), and a step after which
a node is single has found it single. At a single node that is faithful, an event that is stored is in a
frame, hence inserting it would give it a second record: the event just inserted
was new, and the lemmas of the core apply to that step (`FaithfulExtends`,
`InsertFaithful`). And `dag`, which these lemmas compare a node to, does not depend on any node's tables, so what
disturbed nodes compute reaches nobody: only parents and stamps travel. `StoresComplete` and `StoresAgree`
then follow as for the core: by `Fresh` a final frame lists all events of its number. What is left to
show per module is that parents are stored first, which for `Gossip` is `ParentsStored`, and for
`Late` that heights name stored events.

**The argument for delivery.** The cursor visits the places of the log in an order of its own
(`Precedes`): frame 0, then with every later frame `f` the first event of frame `f + 1` and the other
events of frame `f`, because `current_frame` is raised twice. `WalkOK` says that a consumer
has got the readable places before its cursor, each once, in that order; a frame that becomes
final later has no place before a cursor (`NewFrameBeyond`). Two walks of this kind
differ in their length only (`WalksAgree`). The transactions of a node are
numbered as they are sent; the pool has the last ones, the chain the others, each once
(`PoolOK`, `ChainOK`). The first records of a new frame are of events that are not decided, hence of
transactions no place of the log has (`NewFrameOnce`); a further record is in `again`, which never loses
one (`AgainKept`). So a transaction is at one place of the log, or its event has a further record (`LogOnce`),
and a walk goes over no place twice.

**The refinements** follow action by action. `Spread`: an insertion by `CreateEvent` or `AInsert` is `Form`
(the hash is new because the own height is tied to the own chain), one by
`ReceiveEvent` or `LInsert` is `Learn` or, of an event that is there already, a stutter. `FrameLog`: an
`insert_event` that finalises extends one node's prefix, and the log if that node is the furthest.

**The flag tables.** `OpenMergeSymmetric` and `PruningCommutes` are about all tables that
agree on the frame of a root they share. They are why `FrameAgreement` can hold at all:
what a node drops early is what it would not look at later, and the floor on one
argument only (`flag_table.rs:60-84`) makes no difference at or above it.

**The argument for the peer list.** `n` is the size of the list and `0 < r <= n \div 2`
once the node runs, hence `(current + r) % n` is neither `current` nor out
of range (`PartialTurn`). `OffsetIsHalving` needs that halving a rounded quotient is dividing by
the next power of two, and that at most `n` halvings fit (`k < 2^k <= n`). The provers know nothing of
powers; `2^k` is had as the number of subsets of `1 .. k` (`PowerOfNext`).

**Data.** Where a proof needs what a sort, a walk or a concatenation gives for every sequence, it
takes the least place where the claim fails (`MinProperty`) instead of an induction theorem, which
the installed provers cannot instantiate: so `SortedUnique`, `WalksAgree` and, for the recursive
function behind `FlattenSeq`, `FlattenExists` and `FlattenUnique`. `finalise` is
written with counts of smaller entries and not with `SortSeq` for the same reason.

**Only model-checked.** Liveness (`EveryoneFinalises`, `EventsSpread`,
`SuccessorAskedForEver`, `ShutdownEndsThreads`, `DropReturns`): beyond this prover's reach.
`FrameAgreement`, `FinalisationExact` and their like are not said of disturbed nodes, where they are false:
`FinalisedFrameAgreement` has the counterexample of `gossip_duplicates`. `NoWaitingCircle` and `HalfDoneContained`: `Threads` is one finite system without
constants, and TLC visits all of it. `Restart`, `PeerCountIsLen`, `SleeperUpToDate` and
`NothingSkipped` have counterexamples.

## 5. What is not modelled

* Faulty peers: `check_event` is always true, no forged event, one peer list for all. A
  fork comes up only by a restart. Hash collisions; the order `HashLess` gives to two
  events of one height and one Lamport time, which only a fork has.
* A crash inside `insert_event` that is followed by a restart. `Threads` has the failing
  write, `Restart` the restart between two critical sections.
* Configuration, errors and internal transactions: data without behaviour. The conversions
  of events to and from their wire form, which drop what `insert_event` computes again.
* Signing, logging (but the locks taken for `debug!` arguments are in `Threads`), addresses.
* The transport beyond loss and reordering: how the receivers see their quit message and
  that `next()` returns `None` once for it is taken from the way `lib.rs` uses them. A
  send that blocks for ever on another node.
* In `Transactions`: a further record that is pushed into a frame which is final already (it comes after
  the sort, at the end), and an event whose frame number falls behind that of its parent because the
  parent was inserted again. A node to which that happens has a log of its own that changes under its
  consumer; `SameOrder` and `ReceivedPerRecord` say nothing of it. `Late` and `Gossip` do have these steps.
* Several frames finalised by one `insert_event`: the model and the proofs have them,
  but no instance small enough for TLC reaches one.

## 6. Plan

Done so far, in this order: `FlagTable`, `DAGcore`, the proofs of the core, `PeerList` and
its proofs, `Gossip`, `FrameLog`, `Delivery`; then `Transactions`, `Threads`, `Restart`, `Spread`, the
liveness of gossip, the laws of the tables and the refinement proof; then the proofs of the
frames, of gossip, of delivery and of the transactions; then `Late` and the proofs about
events that are inserted again.

Next, in order of importance:

1. The types of a disturbed node in full: `TypeOK` with late answers holds in the instance of
   `core_late`, and `StoreTyped` is most of it, but neither is a theorem of `Late`.
2. `Gossip` as an implementation of `DAGcore` without the duplicates. The obstacle: the
   clock goes up at `AStamp` and the event appears at `AInsert`, so the abstract clock
   has to lag behind.
3. The frames of `DAGcore` as those `Transactions` chooses from: that a frame goes on in each
   chain where the one before has stopped is, without late answers, a corollary of
   `FinalFramesFollowChains` and `FramesHoldStore`, not yet stated as a refinement. With it, the final frames
   of one disturbed node, whose log may change.
4. A crash between the three writes of `insert_event`, in `Restart`.
