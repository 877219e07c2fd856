------------------------------ MODULE Restart ------------------------------
(***************************************************************************)
(* A node that stops and is started again on the directory of its store.   *)
(*                                                                         *)
(* SledStore::new opens the trees with whatever they hold, while           *)
(* DAGcore::new starts heights, clock and last_finalised_frame anew and    *)
(* stores the leaf events once more.  Nothing reads back how far the node  *)
(* had come; it learns its own height only from the events that others     *)
(* send back.  The restart is between two critical sections.               *)
(*                                                                         *)
(* A node may form two events of one height here, so a hash has the whole  *)
(* content in it, and the key of creator and height is a map of its own.   *)
(* A node asks with the heights it has and stores the answer at once.      *)
(***************************************************************************)
EXTENDS DAGcore

CONSTANT MaxRestarts   \* bound: restarts of each node

VARIABLES
  by_height,   \* by_height[n]: the hash under the key <<creator, height>>
  restarts     \* how often each node was started again

restartVars == <<vars, by_height, restarts>>

RestartInit ==
  /\ Init
  /\ by_height = [n \in Peers |-> [leaf \in Leaves |-> leaf]]
  /\ restarts = [n \in Peers |-> 0]

-----------------------------------------------------------------------------
(* set_event stores under both keys; the last event of a height counts.    *)
Store(n, e, d) ==
  /\ insert_event(n, e, d)
  /\ by_height' = [by_height EXCEPT ![n] = insert(@, <<Creator(e), e[2]>>, e)]

(* procedure_a: the parents are looked up by creator and height.           *)
FormEvent(n, p) ==
  LET h    == height[n][n] + 1
      sp   == by_height[n][<<n, h - 1>>]
      op   == by_height[n][<<p, height[n][p]>>]
      time == lamport_time[n] + 1
      e    == <<n, h, sp, op, time>>
      content == NewEvent(dag, e, sp, op, time)
  IN  /\ h <= MaxHeight[n]
      /\ dag' = insert(dag, e, content)
      /\ Store(n, e, insert(dag, e, content))
      /\ height' = [height EXCEPT ![n][n] = h]
      /\ lamport_time' = [lamport_time EXCEPT ![n] = time]
      /\ UNCHANGED restarts

(* get_events_for_gossip of m and listener of n: of every creator the      *)
(* events after the height n has, the own events of n among them.          *)
Learn(n, m, c) ==
  LET next == <<c, height[n][c] + 1>>
  IN  /\ next \in DOMAIN by_height[m]
      /\ Receivable(n, by_height[m][next])
      /\ Store(n, by_height[m][next], dag)
      /\ height' = [height EXCEPT ![n][c] = next[2]]
      /\ UNCHANGED <<dag, lamport_time, restarts>>

MergeClock(n) == UpdateLamportTime(n) /\ UNCHANGED <<by_height, restarts>>

(* SledStore::new and DAGcore::new: the leaf events are stored again, and  *)
(* set_event pushes them into frame 0 again.                               *)
StartAgain(n) ==
  /\ restarts[n] < MaxRestarts
  /\ restarts' = [restarts EXCEPT ![n] = @ + 1]
  /\ frame' = [frame EXCEPT ![n][0] = @ \o [p \in Peers |-> Leaf(p)]]
  /\ last_finalised_frame' = [last_finalised_frame EXCEPT ![n] = -1]
  /\ lamport_time' = [lamport_time EXCEPT ![n] = 0]
  /\ height' = [height EXCEPT ![n] = [p \in Peers |-> 0]]
  /\ UNCHANGED <<dag, event, flag_table, by_height>>

RestartNext ==
  \E n \in Peers :
    \/ \E p \in Partners(n) : FormEvent(n, p)
    \/ \E m \in Peers \ {n}, c \in Peers : Learn(n, m, c)
    \/ MergeClock(n)
    \/ StartAgain(n)

RestartSpec == RestartInit /\ [][RestartNext]_restartVars

-----------------------------------------------------------------------------
LastHeight(n, c) == Max({key[2] : key \in {k \in DOMAIN by_height[n] : Creator(k) = c}})

(* The rule check_event is to enforce one day: the self-parent of an event *)
(* that is stored for the first time is the last event known of its        *)
(* creator (core.rs:172).                                                   *)
SelfParentIsLast ==
  [][\A n \in Peers : \A e \in DOMAIN event'[n] \ DOMAIN event[n] :
       dag'[e].self_parent = by_height[n][<<Creator(e), LastHeight(n, Creator(e))>>]]_restartVars
=============================================================================
