------------------------------ MODULE Threads ------------------------------
(***************************************************************************)
(* One node as threads and locks: listener, procedure_a, procedure_b and   *)
(* the application's thread, which polls, sends transactions, shuts down   *)
(* and drops the DAG, over the three RwLocks core, conf and store (lib.rs, *)
(* core.rs insert_event); and what becomes of them when a write to the     *)
(* store fails and the unwrap of insert_event's result panics.             *)
(*                                                                         *)
(* The data is left out.  A thread is the sequence of steps it has still   *)
(* to do, todo[t]; each function of the code is a sequence of steps:       *)
(*   Lock, Unlock  a guard that is held over further steps                 *)
(*   Use           a guard that is dropped before the thread goes on       *)
(* Consecutive Uses of one lock in one mode are written once.  A guard is  *)
(* dropped where Rust drops it: a temporary in the head of a match or an   *)
(* if let lives to the end of that statement.  Arguments of debug! are     *)
(* evaluated, as they are when debug logging is on.                        *)
(***************************************************************************)
EXTENDS Naturals, Sequences

Locks == {"core", "conf", "store"}
Thread == {"listener", "proc_a", "proc_b", "main"}
Spawned == Thread \ {"main"}

(* quit_txs: the listener's own channel and those of the two receivers. *)
Channels == {"listener", "replies", "requests"}

VARIABLES
  at,        \* where the thread is in its loop, or "ended", "panicked"
  todo,      \* the steps before it gets there
  held,      \* held[t][l]: "-", "R" or "W"
  poisoned,  \* the poisoned locks
  quit,      \* the quit channels that hold a message
  shutdown,  \* DAGcore::shutdown
  called,    \* the application has called shutdown()
  half,      \* an insert_event has written its event and has not returned Ok
  took_half  \* procedure_b has collected such an event for its reply

tvars == <<at, todo, held, poisoned, quit, shutdown, called, half, took_half>>

-----------------------------------------------------------------------------
(* Steps. *)
Use(l, m) == [do |-> "use", lock |-> l, mode |-> m]
Lock(l, m) == [do |-> "lock", lock |-> l, mode |-> m]
Unlock(l) == [do |-> "unlock", lock |-> l]

Put == [do |-> "put", lock |-> "store", mode |-> "W"]           \* may fail
PutEvent == [do |-> "put_event", lock |-> "store", mode |-> "W"] \* may fail
Inserted == [do |-> "inserted", lock |-> "core"]                \* Ok(true)
CheckQuit == [do |-> "check_quit", lock |-> "core", mode |-> "R"]
SetShutdown == [do |-> "set_shutdown", lock |-> "core", mode |-> "W"]
Decide == [do |-> "decide", lock |-> "conf", mode |-> "R"]
Collect == [do |-> "collect", lock |-> "store", mode |-> "R"]
Send == [do |-> "send"]
SendQuit(c) == [do |-> "send_quit", channel |-> c]
Join(t) == [do |-> "join", thread |-> t]

(* What procedure_a and listener hand to insert_event; the guard of core   *)
(* is held throughout.  Frames become final or not at Decide; for those    *)
(* that do, the frame is written and the waker runs under conf's guard.    *)
Insert ==
  <<Lock("core", "W"), Use("store", "R"), Use("conf", "R"), Put, Use("conf", "R"),
    PutEvent, Use("store", "R"), Decide, Put, Lock("conf", "W"), Unlock("conf"), Inserted>>

CheckEvent == <<Lock("core", "R"), Use("conf", "R"), Unlock("core")>>

(* procedure_a: next_peer, the clock, the request; the heights, the        *)
(* parents, the stamp, the event.                                          *)
Round ==
  <<CheckQuit, Use("conf", "W"), Use("core", "R"), Send, Use("conf", "W"), Use("conf", "R"),
    Use("store", "R"), Use("core", "W")>> \o Insert

(* procedure_b with the clock read before the events. *)
Answer_clock_first ==
  <<Use("conf", "R"), Use("core", "W"), Use("core", "R"), Collect, Use("conf", "R"),
    Lock("conf", "W"), Send, Unlock("conf")>>

(* procedure_b with the reply formed while the peer is held. *)
Answer_clock_under_conf ==
  <<Use("conf", "R"), Use("core", "W"), Use("core", "R"), Collect,
    Lock("conf", "W"), Use("core", "R"), Send, Unlock("conf")>>

(* procedure_b: the sender's address, update_lamport_time, the events, the *)
(* gossip list, the clock; the peer's guard is held while the reply is     *)
(* sent.                                                                   *)
Answer ==
  <<Use("conf", "R"), Use("core", "W"), Use("core", "R"), Collect, Use("conf", "R"),
    Use("core", "R"), Lock("conf", "W"), Send, Unlock("conf")>>

(* Before its loop procedure_a sleeps with the configuration locked.  The  *)
(* guards that the threads take one at a time before their loops are left  *)
(* out: they are those of a round over again.                              *)
Prologue ==
  [t \in Thread |-> IF t = "proc_a" THEN <<Lock("conf", "R"), Unlock("conf")>> ELSE <<>>]

(* The end of poll_next, and of its first part if nothing is final yet.    *)
SetWaker == <<Lock("core", "R"), Use("conf", "W"), Unlock("core")>>

(* One turn of its loop: no more final frames, or an event is read.        *)
NoMoreFrames == <<Lock("core", "W"), Use("conf", "W"), Unlock("core")>>
ReadEvent == <<Lock("core", "W"), Use("store", "R"), Unlock("core")>>

(* The receivers told to stop before the listener is. *)
QuitAll_listener_last == <<SendQuit("replies"), SendQuit("requests"), SendQuit("listener")>>

(* quit_txs in the order in which DAG::new has pushed them. *)
QuitAll == <<SendQuit("listener"), SendQuit("replies"), SendQuit("requests")>>

(* drop with the guard of the first line kept. *)
Drop_guard_kept ==
  <<Lock("core", "R")>> \o QuitAll \o
    <<Join("listener"), Join("proc_a"), Unlock("core"), Lock("core", "W"), Lock("conf", "W"),
      Unlock("conf"), Unlock("core"), Join("proc_b")>>

(* drop of the DAG. *)
Drop ==
  <<Use("core", "R")>> \o QuitAll \o
    <<Join("listener"), Join("proc_a"), Lock("core", "W"), Lock("conf", "W"),
      Unlock("conf"), Unlock("core"), Join("proc_b")>>

-----------------------------------------------------------------------------
ThreadsInit ==
  /\ at = [t \in Thread |-> "loop"]
  /\ todo = Prologue
  /\ held = [t \in Thread |-> [l \in Locks |-> "-"]]
  /\ poisoned = {}
  /\ quit = {}
  /\ shutdown = FALSE /\ called = FALSE
  /\ half = FALSE /\ took_half = FALSE

Does(t, kinds) == todo[t] # <<>> /\ Head(todo[t]).do \in kinds
AtLoop(t, place) == todo[t] = <<>> /\ at[t] = place
Wants(t) == todo[t] # <<>> /\ "mode" \in DOMAIN Head(todo[t])
Stopped(t) == todo[t] = <<>> /\ at[t] \in {"ended", "panicked"}

(* u's guard keeps t from what it wants. *)
Excludes(u, t) ==
  LET s == Head(todo[t])
  IN  held[u][s.lock] = "W" \/ (s.mode = "W" /\ held[u][s.lock] = "R")

Granted(t) == \A u \in Thread : ~ Excludes(u, t)
Gets(t, kinds) == Does(t, kinds) /\ Granted(t) /\ Head(todo[t]).lock \notin poisoned

Go(t, place, steps) ==
  /\ at' = [at EXCEPT ![t] = place]
  /\ todo' = [todo EXCEPT ![t] = steps]

Advance(t) == Go(t, at[t], Tail(todo[t]))

(* A panic drops all guards; a guard for writing poisons its lock.         *)
Panic(t) ==
  /\ Go(t, "panicked", <<>>)
  /\ held' = [held EXCEPT ![t] = [l \in Locks |-> "-"]]
  /\ poisoned' = poisoned \cup {l \in Locks : held[t][l] = "W"}
  /\ UNCHANGED <<quit, shutdown, called, took_half>>

(* unwrap of a poisoned lock. *)
FindPoison(t) ==
  /\ Wants(t) /\ Granted(t) /\ Head(todo[t]).lock \in poisoned
  /\ Panic(t)
  /\ UNCHANGED half

(* A write of insert_event fails; the caller's unwrap panics with core's   *)
(* guard held.  The event may be in the store, its frame record not.       *)
FailPut(t) ==
  /\ Gets(t, {"put", "put_event"})
  /\ Panic(t)
  /\ half' = (half \/ Head(todo[t]).do = "put_event")

TakeLock(t) ==
  /\ Gets(t, {"use", "lock", "put", "put_event", "collect", "set_shutdown"})
  /\ LET s == Head(todo[t])
     IN  /\ held' = IF s.do = "lock" THEN [held EXCEPT ![t][s.lock] = s.mode] ELSE held
         /\ shutdown' = (shutdown \/ s.do = "set_shutdown")
         /\ half' = (half \/ s.do = "put_event")
         /\ took_half' = IF s.do = "collect" THEN half ELSE took_half
  /\ Advance(t)
  /\ UNCHANGED <<poisoned, quit, called>>

(* Are there frames that become final? *)
DecideFinal(t) ==
  /\ Gets(t, {"decide"})
  /\ Advance(t) \/ Go(t, at[t], <<Inserted>>)
  /\ UNCHANGED <<held, poisoned, quit, shutdown, called, half, took_half>>

GiveBack(t) ==
  /\ Does(t, {"unlock", "inserted"})
  /\ LET s == Head(todo[t])
     IN  /\ held' = [held EXCEPT ![t][s.lock] = "-"]
         /\ half' = (half /\ s.do # "inserted")
         /\ took_half' = (took_half /\ s.do # "inserted")
  /\ Advance(t)
  /\ UNCHANGED <<poisoned, quit, shutdown, called>>

(* Transport and channels; a channel whose receiver is gone takes nothing. *)
Receiver == [listener |-> "listener", replies |-> "listener", requests |-> "proc_b"]

SendMessage(t) ==
  /\ Does(t, {"send", "send_quit"})
  /\ LET s == Head(todo[t])
     IN  quit' = IF s.do = "send_quit" /\ ~ Stopped(Receiver[s.channel])
                 THEN quit \cup {s.channel} ELSE quit
  /\ Advance(t)
  /\ UNCHANGED <<held, poisoned, shutdown, called, half, took_half>>

(* join().expect(...) *)
JoinThread(t) ==
  /\ Does(t, {"join"}) /\ Stopped(Head(todo[t]).thread)
  /\ IF at[Head(todo[t]).thread] = "panicked" THEN Panic(t) /\ UNCHANGED half
     ELSE /\ Advance(t)
          /\ UNCHANGED <<held, poisoned, quit, shutdown, called, half, took_half>>

-----------------------------------------------------------------------------
rest == <<held, poisoned, shutdown, called, half, took_half>>

(* The head of listener's loop: try_recv; and the loop over the events of  *)
(* a reply (bound: one event at most).                                     *)
ListenerLoop ==
  /\ \/ /\ AtLoop("listener", "loop")
        /\ IF "listener" \in quit
           THEN /\ quit' = quit \ {"listener", "replies"}
                /\ Go("listener", "ended", <<SetShutdown>>)
           ELSE Go("listener", "next", <<>>) /\ UNCHANGED quit
     \/ /\ AtLoop("listener", "events")
        /\ Go("listener", "loop", <<>>) \/ Go("listener", "height", CheckEvent \o Insert)
        /\ UNCHANGED quit
     \/ /\ AtLoop("listener", "height")
        /\ Go("listener", "loop", <<Use("conf", "W")>>)
        /\ UNCHANGED quit
  /\ UNCHANGED rest

(* next() of the reply receiver: None after a quit message, or a reply.    *)
ListenerQuit ==
  /\ AtLoop("listener", "next") /\ "replies" \in quit
  /\ quit' = quit \ {"replies"}
  /\ Go("listener", "loop", <<>>)
  /\ UNCHANGED rest

ListenerReply ==
  /\ AtLoop("listener", "next")
  /\ Go("listener", "events", <<Use("core", "W")>>)
  /\ UNCHANGED <<quit, rest>>

(* procedure_a goes round when its heartbeat has expired. *)
StartRound ==
  /\ AtLoop("proc_a", "loop")
  /\ Go("proc_a", "loop", Round)
  /\ UNCHANGED <<quit, rest>>

(* The head of procedure_a's loop: check_quit. *)
GoOnUnlessShutdown ==
  /\ Gets("proc_a", {"check_quit"})
  /\ IF shutdown THEN Go("proc_a", "ended", <<>>) ELSE Advance("proc_a")
  /\ UNCHANGED <<quit, rest>>

(* next() of the request receiver. *)
QuitB ==
  /\ AtLoop("proc_b", "loop") /\ "requests" \in quit
  /\ quit' = quit \ {"requests"}
  /\ Go("proc_b", "ended", <<>>)
  /\ UNCHANGED rest

RequestB ==
  /\ AtLoop("proc_b", "loop")
  /\ Go("proc_b", "loop", Answer)
  /\ UNCHANGED <<quit, rest>>

(* The application: poll_next and send_transaction. *)
CallMethod ==
  /\ AtLoop("main", "loop")
  /\ Go("main", "poll", <<Use("core", "R")>>) \/ Go("main", "loop", <<Use("core", "W")>>)
  /\ UNCHANGED <<quit, rest>>

(* The stream has ended, nothing is final yet, or turn after turn.         *)
PollNext ==
  /\ AtLoop("main", "poll")
  /\ \/ \E steps \in {<<>>, SetWaker, NoMoreFrames, ReadEvent \o SetWaker} :
          Go("main", "loop", steps)
     \/ Go("main", "poll", ReadEvent)
  /\ UNCHANGED <<quit, rest>>

(* Bound: shutdown is called once. *)
CallShutdown ==
  /\ AtLoop("main", "loop") /\ ~ called
  /\ called' = TRUE
  /\ Go("main", "loop", QuitAll)
  /\ UNCHANGED <<held, poisoned, quit, shutdown, half, took_half>>

CallDrop ==
  /\ AtLoop("main", "loop")
  /\ Go("main", "ended", Drop)
  /\ UNCHANGED <<quit, rest>>

-----------------------------------------------------------------------------
(* What a thread does by itself, given that nothing fails. *)
Step(t) ==
  \/ FindPoison(t) \/ TakeLock(t) \/ DecideFinal(t) \/ GiveBack(t)
  \/ SendMessage(t) \/ JoinThread(t)
  \/ t = "proc_a" /\ GoOnUnlessShutdown

ThreadsNext ==
  \/ \E t \in Thread : Step(t) \/ FailPut(t)
  \/ ListenerLoop \/ ListenerQuit \/ ListenerReply
  \/ StartRound \/ QuitB \/ RequestB
  \/ CallMethod \/ PollNext \/ CallShutdown \/ CallDrop

(* A thread that may go on does so, and gets a lock that is free again and *)
(* again; procedure_a's heartbeat expires; a receiver sees its quit        *)
(* message.  No message, no failure and no call ever has to come.          *)
ThreadsFairness ==
  /\ \A t \in Thread : SF_tvars(Step(t))
  /\ WF_tvars(ListenerLoop) /\ WF_tvars(StartRound)
  /\ WF_tvars(ListenerQuit) /\ SF_tvars(QuitB)

ThreadsSpec == ThreadsInit /\ [][ThreadsNext]_tvars /\ ThreadsFairness

-----------------------------------------------------------------------------
(* t waits for u: for its guard, behind it in the queue of a lock that     *)
(* lets writers go first, or for its end.                                  *)
WaitsFor(t, u) ==
  \/ Wants(t) /\ Excludes(u, t)
  \/ Wants(t) /\ Wants(u) /\ t # u
       /\ Head(todo[t]).lock = Head(todo[u]).lock
       /\ Head(todo[t]).mode = "R" /\ Head(todo[u]).mode = "W"
  \/ Does(t, {"join"}) /\ Head(todo[t]).thread = u

(* No threads wait for each other in a circle, and none for itself,        *)
(* although guards of conf and store are taken under core, conf is held    *)
(* while a reply is sent and while a waker runs, and drop joins threads    *)
(* that need the locks (lib.rs:180, 392-401, 523-559; core.rs:201-303).    *)
NoWaitingCircle ==
  \A group \in SUBSET Thread \ {{}} :
    \E t \in group : \A u \in group : ~ WaitsFor(t, u)

(* An event whose insertion failed half way, in the store but not in its   *)
(* frame, is never sent to another node: procedure_b takes core after it   *)
(* has collected the events, and finds it poisoned (core.rs:248-257;       *)
(* lib.rs:371-388).                                                        *)
HalfDoneContained == Does("proc_b", {"send"}) => ~ took_half

(* After shutdown() the three threads come to an end (the comment at       *)
(* lib.rs:501), whatever each was doing and even if one of them panics.    *)
ShutdownEndsThreads == called ~> \A t \in Spawned : Stopped(t)

(* drop comes to an end: it joins the listener before procedure_a, which   *)
(* the listener has to tell, and never waits for a thread that waits for   *)
(* it (lib.rs:523-559).                                                    *)
DropReturns == (at["main"] = "ended") ~> Stopped("main")
=============================================================================
