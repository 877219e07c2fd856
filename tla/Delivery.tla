------------------------------ MODULE Delivery ------------------------------
(***************************************************************************)
(* How the consumer of a node reads the transactions of finalised frames:  *)
(* DAG::poll_next (lib.rs:600-696), the cursor it keeps in DAGcore and the *)
(* waker it leaves in the configuration, against insert_event finalising   *)
(* frames in the other threads (core.rs:277-306).                          *)
(*                                                                         *)
(* The frames are the one log of module FrameLog.  An event is the         *)
(* sequence of its transactions, a frame the sequence of its events.  What *)
(* is delivered is noted by its place, <<frame, event, transaction>>.  Vec *)
(* indices start at 0, sequences at 1.                                     *)
(***************************************************************************)
EXTENDS Integers, Sequences, FiniteSets, SequencesExt

CONSTANTS
  Nodes,
  Frames,    \* the frames that may be decided
  MaxFrames  \* bound: how many frames are finalised

(* A final frame has events of a majority of the peers, and that is two at *)
(* least (FinalFramesHaveMajority of module DAGcore).                      *)
IsFrame(f) ==
  /\ f \in Seq(Range(f)) /\ Len(f) >= 2
  /\ \A event \in Range(f) : event \in Seq(Range(event))

ASSUME NodesAssumption == IsFiniteSet(Nodes)
ASSUME FramesAssumption == \A f \in Frames : IsFrame(f)
ASSUME MaxFramesAssumption == MaxFrames \in Nat

None == -1

VARIABLES
  log,                   \* the decided frames
  last_finalised_frame,  \* of each node, as of DAGcore
  current_frame, current_event, current_tx,  \* the cursor, each an Option
  poll,                  \* where the consumer is, and the frame number poll_next has read
  waker,                 \* conf.waker is Some
  woken,                 \* the consumer's task is to be polled again
  delivered              \* what the consumer has got so far

cursor == <<current_frame, current_event, current_tx>>
dvars == <<log, last_finalised_frame, cursor, poll, waker, woken, delivered>>

DeliveryInit ==
  /\ log = <<>>
  /\ last_finalised_frame = [n \in Nodes |-> None]
  /\ current_frame = [n \in Nodes |-> None]
  /\ current_event = [n \in Nodes |-> 0]
  /\ current_tx = [n \in Nodes |-> 0]
  /\ poll = [n \in Nodes |-> [at |-> "ready"]]
  /\ waker = [n \in Nodes |-> FALSE]
  /\ woken = [n \in Nodes |-> FALSE]
  /\ delivered = [n \in Nodes |-> <<>>]

-----------------------------------------------------------------------------
(* insert_event finalises the next frame, one of the candidates if no node *)
(* has done so before, and calls the waker if there is one.  Several       *)
(* frames finalised in one call are several such steps with none of this   *)
(* node's consumer in between.                                             *)
FinaliseFrame(n, candidates) ==
  LET f == last_finalised_frame[n] + 1
  IN  /\ f < MaxFrames
      /\ IF f < Len(log) THEN UNCHANGED log
         ELSE \E new \in candidates : log' = Append(log, new)
      /\ last_finalised_frame' = [last_finalised_frame EXCEPT ![n] = f]
      /\ waker' = [waker EXCEPT ![n] = FALSE]
      /\ woken' = [woken EXCEPT ![n] = @ \/ waker[n]]
      /\ UNCHANGED <<cursor, poll, delivered>>

(* Poll::Pending without a waker. *)
Sleep_without_waker(n) ==
  /\ poll' = [poll EXCEPT ![n] = [at |-> "pending"]]
  /\ UNCHANGED <<waker, log, last_finalised_frame, cursor, woken, delivered>>

(* conf.waker = Some(cx.waker()); return Poll::Pending.                    *)
Sleep(n) ==
  /\ waker' = [waker EXCEPT ![n] = TRUE]
  /\ poll' = [poll EXCEPT ![n] = [at |-> "pending"]]
  /\ UNCHANGED <<log, last_finalised_frame, cursor, woken, delivered>>

(* The executor polls a task again when its waker has been called.         *)
PollAgain(n) ==
  /\ poll[n].at = "pending" /\ woken[n]
  /\ woken' = [woken EXCEPT ![n] = FALSE]
  /\ poll' = [poll EXCEPT ![n] = [at |-> "ready"]]
  /\ UNCHANGED <<log, last_finalised_frame, cursor, waker, delivered>>

(* poll_next reads last_finalised_frame under core.read.                   *)
PollStart(n) ==
  /\ poll[n].at = "ready"
  /\ IF last_finalised_frame[n] = None THEN Sleep(n)
     ELSE /\ poll' = [poll EXCEPT ![n] = [at |-> "loop", last |-> last_finalised_frame[n]]]
          /\ UNCHANGED <<log, last_finalised_frame, cursor, waker, woken, delivered>>

(* The cursor at the head of the loop.  After the last event of a frame    *)
(* current_frame has been raised already, and is raised again here.        *)
CurrentFrame(n) == IF current_frame[n] = None THEN 0 ELSE current_frame[n]
FrameEnded(n) == current_event[n] = None
FrameAt(n) == IF FrameEnded(n) THEN CurrentFrame(n) + 1 ELSE CurrentFrame(n)
EventAt(n) == IF FrameEnded(n) THEN 0 ELSE current_event[n]

(* The next frame is entered before the check. *)
LoopSleep_entered(n) ==
  /\ poll[n].at = "loop"
  /\ FrameEnded(n) /\ CurrentFrame(n) >= poll[n].last
  /\ current_frame' = [current_frame EXCEPT ![n] = CurrentFrame(n) + 1]
  /\ current_event' = [current_event EXCEPT ![n] = 0]
  /\ waker' = [waker EXCEPT ![n] = TRUE]
  /\ poll' = [poll EXCEPT ![n] = [at |-> "pending"]]
  /\ UNCHANGED <<log, last_finalised_frame, current_tx, woken, delivered>>

(* No more finalised frames, as far as this poll knows. *)
LoopSleep(n) ==
  /\ poll[n].at = "loop"
  /\ FrameEnded(n) /\ CurrentFrame(n) >= poll[n].last
  /\ Sleep(n)

(* current_tx is not reset after the last transaction. *)
Advance_tx_kept(n, n_tx, n_events) ==
  IF current_tx[n] + 1 < n_tx
  THEN /\ current_tx' = [current_tx EXCEPT ![n] = @ + 1]
       /\ UNCHANGED <<current_event, current_frame>>
  ELSE /\ UNCHANGED current_tx
       /\ IF EventAt(n) + 1 < n_events
          THEN /\ current_event' = [current_event EXCEPT ![n] = EventAt(n) + 1]
               /\ UNCHANGED current_frame
          ELSE /\ current_event' = [current_event EXCEPT ![n] = None]
               /\ current_frame' = [current_frame EXCEPT ![n] = FrameAt(n) + 1]

(* After the event: the next transaction of it, else the next event of the *)
(* frame, else the end of the frame.  current_frame is written only then.  *)
Advance(n, n_tx, n_events) ==
  IF current_tx[n] + 1 < n_tx
  THEN /\ current_tx' = [current_tx EXCEPT ![n] = @ + 1]
       /\ UNCHANGED <<current_event, current_frame>>
  ELSE /\ current_tx' = [current_tx EXCEPT ![n] = 0]
       /\ IF EventAt(n) + 1 < n_events
          THEN /\ current_event' = [current_event EXCEPT ![n] = EventAt(n) + 1]
               /\ UNCHANGED current_frame
          ELSE /\ current_event' = [current_event EXCEPT ![n] = None]
               /\ current_frame' = [current_frame EXCEPT ![n] = FrameAt(n) + 1]

(* One turn of the loop, under core.write.  An event without transactions  *)
(* is passed over and the loop goes on.  An index out of range would panic *)
(* (CursorInRange).                                                        *)
LoopEvent(n) ==
  /\ poll[n].at = "loop"
  /\ ~ (FrameEnded(n) /\ CurrentFrame(n) >= poll[n].last)
  /\ FrameAt(n) < Len(log)
  /\ LET events == log[FrameAt(n) + 1]
         n_tx   == Len(events[EventAt(n) + 1])
     IN  /\ Advance(n, n_tx, Len(events))
         /\ IF n_tx > 0
            THEN /\ delivered' = [delivered EXCEPT ![n] =
                                    Append(@, <<FrameAt(n), EventAt(n), current_tx[n]>>)]
                 /\ poll' = [poll EXCEPT ![n] = [at |-> "deliver"]]
            ELSE UNCHANGED <<delivered, poll>>
  /\ UNCHANGED <<log, last_finalised_frame, waker, woken>>

(* conf.waker = Some(cx.waker()); return Poll::Ready(data).                *)
PollReady(n) ==
  /\ poll[n].at = "deliver"
  /\ waker' = [waker EXCEPT ![n] = TRUE]
  /\ poll' = [poll EXCEPT ![n] = [at |-> "ready"]]
  /\ UNCHANGED <<log, last_finalised_frame, cursor, woken, delivered>>

Poll(n) ==
  PollStart(n) \/ LoopSleep(n) \/ LoopEvent(n) \/ PollReady(n) \/ PollAgain(n)

DeliveryNext ==
  \E n \in Nodes :
    FinaliseFrame(n, Frames) \/ Poll(n)

DeliverySpec == DeliveryInit /\ [][DeliveryNext]_dvars

-----------------------------------------------------------------------------
(* All consumers get the same transactions in the same order, whenever     *)
(* each polls and whenever its node finalises (lib.rs:600-696).            *)
SameOrder ==
  \A n, m \in Nodes :
    IsPrefix(delivered[n], delivered[m]) \/ IsPrefix(delivered[m], delivered[n])

(* The loop never indexes outside a frame or an event, which would panic   *)
(* with core's lock held, and reads finalised frames only, whose content   *)
(* does not change any more (lib.rs:655-671).                              *)
CursorInRange ==
  \A n \in Nodes :
    (poll[n].at = "loop" /\ ~ (FrameEnded(n) /\ CurrentFrame(n) >= poll[n].last)) =>
      /\ FrameAt(n) <= last_finalised_frame[n]
      /\ EventAt(n) < Len(log[FrameAt(n) + 1])
      /\ LET n_tx == Len(log[FrameAt(n) + 1][EventAt(n) + 1])
         IN  current_tx[n] = 0 \/ current_tx[n] < n_tx

(* A consumer never sleeps without a waker for insert_event to call: the   *)
(* next frame that is finalised wakes it (lib.rs:617, 641; core.rs:301).   *)
SleeperHasWaker ==
  \A n \in Nodes : poll[n].at = "pending" => waker[n] \/ woken[n]

(* core.rs:300: "notify consumer on next transaction in consensus          *)
(* availability": a consumer does not sleep when a finalised frame is      *)
(* there for it to read.                                                   *)
SleeperUpToDate ==
  \A n \in Nodes :
    (poll[n].at = "pending" /\ ~ woken[n]) =>
      \/ last_finalised_frame[n] = None
      \/ FrameEnded(n) /\ CurrentFrame(n) >= last_finalised_frame[n]

(* lib.rs:797-830, the test: every transaction sent comes out at every     *)
(* consumer.  So a consumer whose cursor is past a frame has got all the   *)
(* transactions of that frame.                                             *)
NothingSkipped ==
  \A n \in Nodes : \A f \in 0 .. (CurrentFrame(n) - 1) :
    \A e \in 0 .. (Len(log[f + 1]) - 1) : \A t \in 0 .. (Len(log[f + 1][e + 1]) - 1) :
      <<f, e, t>> \in Range(delivered[n])
=============================================================================
