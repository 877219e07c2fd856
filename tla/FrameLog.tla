------------------------------ MODULE FrameLog ------------------------------
(***************************************************************************)
(* What the consensus promises to its consumers: there is one sequence of  *)
(* decided frames, it only ever grows at its end, and every node knows a   *)
(* prefix of it that only ever grows.  How the frames are found is not     *)
(* said here; module DAGcore implements this specification.                *)
(***************************************************************************)
EXTENDS Naturals, Sequences, SequencesExt

CONSTANT Nodes

VARIABLES
  decided,   \* the sequence of decided frames, each a sequence of events
  known      \* known[n]: the frames node n has finalised

logVars == <<decided, known>>

LogInit ==
  /\ decided = <<>>
  /\ known = [n \in Nodes |-> <<>>]

(* A frame has events, and none that an earlier frame has. *)
NewFrames(old, new) ==
  /\ IsPrefix(old, new)
  /\ \A i \in (Len(old) + 1) .. Len(new) :
       /\ new[i] # <<>>
       /\ \A j \in 1 .. (i - 1) : Range(new[i]) \cap Range(new[j]) = {}

(* Node n finalises one frame or more, known to others already or not. *)
Finalise(n) ==
  /\ NewFrames(decided, decided')
  /\ known' = [known EXCEPT ![n] = known'[n]]
  /\ known'[n] # known[n]
  /\ IsPrefix(known[n], known'[n])
  /\ IsPrefix(known'[n], decided')
  /\ decided' # decided => known'[n] = decided'

LogNext == \E n \in Nodes : Finalise(n)

LogSpec == LogInit /\ [][LogNext]_logVars
=============================================================================
