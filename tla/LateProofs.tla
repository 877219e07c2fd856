---------------------------- MODULE LateProofs ----------------------------
(***************************************************************************)
(* What module Late leaves of the agreement of the nodes, for every number *)
(* of peers, every bound on the heights and any number of late answers.    *)
(*                                                                         *)
(* The argument.  Of the stores it is that of FrameProofs: a second record *)
(* of an event stays for good, so a node that is undisturbed has never     *)
(* been handed an event twice, and it has inserted every event as in       *)
(* module DAGcore.  Left to show is that every event goes to insert_event  *)
(* over stored parents, and a new one on top of its creator's chain: the   *)
(* heights must not suffer from late answers.                              *)
(***************************************************************************)
EXTENDS Late, FrameProofs

LateInv ==
  /\ StoresInv
  /\ lamport_time \in [Peers -> Nat]
  /\ height \in [Peers -> [Peers -> Nat]]
  /\ \A n \in Peers : HeightsOK(n)

LEMMA LateInitInv == LateInit => LateInv
<1>1. Init => StoresInv
  BY StoresInit
<1>2. Init => IInv
  BY InitInv
<1>. QED  BY <1>1, <1>2 DEF LateInit, LateInv, IInv

(* What a step does: the invariant holds again, and an undisturbed node    *)
(* keeps its final frames.                                                 *)
LateStepOK == LateInv' /\ \A m \in Peers : Single(frame'[m]) => FinalKept(m)

(* procedure_a's event is the next of its chain (lib.rs:246-305).          *)
LEMMA CreateLate ==
  ASSUME LateInv, NEW n \in Peers, NEW p \in Partners(n), CreateEvent(n, p)
  PROVE  LateStepOK
<1>. DEFINE k == height[n][n]
            e == <<n, k + 1>>
            sp == <<n, k>>
            op == <<p, height[n][p]>>
            content == [self_parent |-> sp, other_parent |-> op,
                        lamport_timestamp |-> lamport_time[n] + 1,
                        frame |-> CompleteFrame(dag, sp, op),
                        roots |-> CompleteRoots(dag, e, sp, op)]
<1>1. p \in Peers
  BY PartnersArePeers
<1>2. /\ k \in Nat /\ lamport_time[n] + 1 \in Nat
      /\ sp \in DOMAIN event[n] /\ op \in DOMAIN event[n] /\ DOMAIN event[n] \subseteq DOMAIN dag
      /\ DagOK(dag) /\ StoresInv
  BY <1>1 DEF LateInv, StoresInv, HeightsOK, StoreTyped
<1>3. e \notin DOMAIN dag
  BY <1>2 DEF LateInv, HeightsOK
<1>4. /\ dag' = insert(dag, e, content)
      /\ height' = [height EXCEPT ![n][n] = k + 1]
      /\ lamport_time' = [lamport_time EXCEPT ![n] = @ + 1]
      /\ insert_event(n, e, insert(dag, e, content))
  <2>1. (k + 1) - 1 = k
    BY <1>2
  <2>. QED  BY <2>1 DEF CreateEvent, NewEvent
<1>5. DagOK(dag') /\ Extends(dag', dag)
  <2>1. sp \in DOMAIN dag /\ op \in DOMAIN dag
    BY <1>2
  <2>. QED  BY <1>2, <1>3, <1>4, <2>1, DagGrows
<1>6. /\ DOMAIN dag' = DOMAIN dag \cup {e}
      /\ dag'[e].self_parent = sp /\ dag'[e].other_parent = op
  BY <1>4 DEF insert
<1>7. insert_event(n, e, dag')
  BY <1>4
<1>8. /\ StoresInv'
      /\ \A m \in Peers : Single(frame'[m]) => FinalKept(m)
      /\ DOMAIN event'[n] = DOMAIN event[n] \cup {e}
      /\ \A m \in Peers : m # n => event'[m] = event[m]
  <2>1. /\ e \in DOMAIN dag'
        /\ dag'[e].self_parent \in DOMAIN event[n] /\ dag'[e].other_parent \in DOMAIN event[n]
    BY <1>2, <1>6
  <2>. HIDE DEF e, sp, op
  <2>. QED  BY <1>2, <1>5, <1>7, <2>1, StoresStep
<1>9. lamport_time' \in [Peers -> Nat] /\ height' \in [Peers -> [Peers -> Nat]]
  BY <1>2, <1>4 DEF LateInv
<1>10. ASSUME NEW m \in Peers PROVE HeightsOK(m)'
  <2>1. \A q \in Peers : height'[m][q] = IF m = n /\ q = n THEN k + 1 ELSE height[m][q]
    BY <1>4 DEF LateInv
  <2>2. HeightsOK(m) /\ DOMAIN event[m] \subseteq DOMAIN event'[m]
    BY <1>8 DEF LateInv
  <2>3. e \in DOMAIN event'[n]
    BY <1>8
  <2>4. \A q \in Peers : <<q, height'[m][q]>> \in DOMAIN event'[m]
    BY <2>1, <2>2, <2>3 DEF HeightsOK
  <2>5. \A h \in Nat : <<m, h>> \in DOMAIN dag' => h <= height'[m][m]
    BY <1>2, <1>6, <2>1, <2>2 DEF HeightsOK
  <2>. QED  BY <2>4, <2>5 DEF HeightsOK
<1>. QED  BY <1>8, <1>9, <1>10 DEF LateStepOK, LateInv

(* The listener's event, stored before or not (lib.rs:122-151).            *)
LEMMA ReceiveLate ==
  ASSUME LateInv, NEW n \in Peers, NEW e \in DOMAIN dag, ReceiveEvent(n, e)
  PROVE  LateStepOK
<1>1. /\ dag[e].self_parent \in DOMAIN event[n] /\ dag[e].other_parent \in DOMAIN event[n]
      /\ height' = [height EXCEPT ![n][Creator(e)] = IF @ < e[2] THEN e[2] ELSE @]
      /\ insert_event(n, e, dag)
      /\ dag' = dag /\ lamport_time' = lamport_time
  BY DEF ReceiveEvent, Receivable
<1>2. DagOK(dag') /\ Extends(dag', dag)
  BY <1>1 DEF LateInv, StoresInv, Extends
<1>3. insert_event(n, e, dag') /\ e \in DOMAIN dag'
      /\ dag'[e].self_parent \in DOMAIN event[n] /\ dag'[e].other_parent \in DOMAIN event[n]
  BY <1>1
<1>4. /\ StoresInv'
      /\ \A m \in Peers : Single(frame'[m]) => FinalKept(m)
      /\ DOMAIN event'[n] = DOMAIN event[n] \cup {e}
      /\ \A m \in Peers : m # n => event'[m] = event[m]
  BY <1>2, <1>3, StoresStep DEF LateInv
<1>5. PICK c \in Peers, h \in Nat : e = <<c, h>> /\ Creator(e) = c
  BY DEF LateInv, StoresInv, DagOK, Events, Creator
<1>6. height' \in [Peers -> [Peers -> Nat]]
  BY <1>1, <1>5 DEF LateInv
<1>7. ASSUME NEW m \in Peers PROVE HeightsOK(m)'
  <2>1. /\ \A q \in Peers : \/ height'[m][q] = height[m][q]
                            \/ m = n /\ q = c /\ height'[m][q] = h
        /\ \A q \in Peers : height'[m][q] >= height[m][q]
    BY <1>1, <1>5 DEF LateInv
  <2>2. HeightsOK(m) /\ DOMAIN event[m] \subseteq DOMAIN event'[m]
    BY <1>4 DEF LateInv
  <2>3. \A q \in Peers : <<q, height'[m][q]>> \in DOMAIN event'[m]
    BY <1>4, <1>5, <2>1, <2>2 DEF HeightsOK
  <2>4. height[m][m] \in Nat /\ height'[m][m] \in Nat
    BY <1>6 DEF LateInv
  <2>5. \A j \in Nat : <<m, j>> \in DOMAIN dag' => j <= height'[m][m]
    BY <1>1, <2>1, <2>2, <2>4 DEF HeightsOK
  <2>. QED  BY <2>3, <2>5 DEF HeightsOK
<1>8. lamport_time' \in [Peers -> Nat]
  BY <1>1 DEF LateInv
<1>. QED  BY <1>4, <1>6, <1>7, <1>8 DEF LateStepOK, LateInv

(* A step that leaves the stores and the DAG alone.                        *)
LEMMA IdleLate ==
  ASSUME LateInv, UNCHANGED <<dag, event, flag_table, frame, last_finalised_frame, height>>,
         lamport_time' \in [Peers -> Nat]
  PROVE  LateStepOK
<1>1. StoresInv' /\ \A n \in Peers : FinalKept(n)
  BY StoresSame DEF LateInv
<1>2. \A n \in Peers : HeightsOK(n)'
  BY DEF LateInv, HeightsOK
<1>. QED  BY <1>1, <1>2 DEF LateStepOK, LateInv

LEMMA LateStep ==
  ASSUME LateInv, [LateNext]_lateVars
  PROVE  LateStepOK
<1>1. CASE UNCHANGED lateVars
  <2>1. lamport_time' \in [Peers -> Nat]
    BY <1>1 DEF lateVars, vars, LateInv
  <2>. QED  BY <1>1, <2>1, IdleLate DEF lateVars, vars
<1>2. ASSUME NEW n \in Peers, NEW p \in Partners(n), CreateEvent(n, p)
      PROVE  LateStepOK
  BY <1>2, CreateLate
<1>3. ASSUME NEW n \in Peers, UpdateLamportTime(n)
      PROVE  LateStepOK
  <2>1. PICK m \in Peers \ {n} : \E time \in (lamport_time[n] + 1) .. lamport_time[m] :
          /\ lamport_time' = [lamport_time EXCEPT ![n] = time]
          /\ UNCHANGED <<dag, event, flag_table, frame, last_finalised_frame, height>>
    BY <1>3 DEF UpdateLamportTime
  <2>2. PICK time \in (lamport_time[n] + 1) .. lamport_time[m] :
          /\ lamport_time' = [lamport_time EXCEPT ![n] = time]
          /\ UNCHANGED <<dag, event, flag_table, frame, last_finalised_frame, height>>
    BY <2>1
  <2>3. lamport_time[n] \in Nat
    BY DEF LateInv
  <2>4. time \in Nat
    BY <2>3
  <2>5. lamport_time' \in [Peers -> Nat]
    BY <2>2, <2>4 DEF LateInv
  <2>. QED  BY <2>2, <2>5, IdleLate
<1>4. ASSUME NEW n \in Peers, NEW e \in DOMAIN dag, ReceiveEvent(n, e)
      PROVE  LateStepOK
  BY <1>4, ReceiveLate
<1>5. ASSUME NEW n \in Peers, NEW e \in DOMAIN event[n], ReceiveEvent(n, e)
      PROVE  LateStepOK
  <2>1. e \in DOMAIN dag
    BY DEF LateInv, StoresInv, StoreTyped
  <2>. QED  BY <1>5, <2>1, ReceiveLate
<1>6. ASSUME Next PROVE LateStepOK
  BY <1>2, <1>3, <1>4, <1>6 DEF Next
<1>7. ASSUME NEW n \in Peers, NEW e \in DOMAIN event[n] \ Leaves, ReceiveAgain(n, e)
      PROVE  LateStepOK
  BY <1>5, <1>7 DEF ReceiveAgain
<1>. QED  BY <1>1, <1>6, <1>7 DEF LateNext

(* Every store has its types whatever is inserted again, one with a single *)
(* record of each event is faithful to the DAG, and heights name stored    *)
(* events (core.rs:183-308, lib.rs:122-151, 246-305).                      *)
THEOREM LateInvariance == LateSpec => []LateInv
<1>1. LateInv /\ [LateNext]_lateVars => LateInv'
  BY LateStep DEF LateStepOK
<1>. QED  BY <1>1, LateInitInv, PTL DEF LateSpec

LEMMA LateStores == LateInv => StoresInv
BY DEF LateInv

(* An undisturbed node has the frame numbers that complete tables give,    *)
(* whatever its peers have inserted twice (core.rs:197-227, 235-243).      *)
THEOREM UndisturbedNumbersHolds == LateSpec => []UndisturbedNumbers
BY LateInvariance, LateStores, StoresNumbers, PTL

(* Two undisturbed nodes have the same in every frame both have finalised  *)
(* (core.rs:277-295, frame.rs:39-54).                                      *)
THEOREM UndisturbedAgreeHolds == LateSpec => []UndisturbedAgree
BY LateInvariance, LateStores, StoresAgree, PTL

(* A final frame of an undisturbed node has every event of its number that *)
(* any node has formed, sorted (core.rs:277-295).                          *)
THEOREM UndisturbedCompleteHolds == LateSpec => []UndisturbedComplete
BY LateInvariance, LateStores, StoresComplete, PTL

(* An undisturbed node has finalised as far as its events decide           *)
(* (core.rs:260-278).                                                      *)
THEOREM UndisturbedExactHolds == LateSpec => []UndisturbedExact
BY LateInvariance, LateStores, StoresExact, PTL

(* A flag table names stored events only, also after a second insertion    *)
(* (store.rs:64-72).                                                       *)
THEOREM LateRootsStored == LateSpec => []RootsStored
BY LateInvariance, LateStores, StoresRoots, PTL

(* A step that leaves a node undisturbed leaves its final frames alone     *)
(* (core.rs:277-306).                                                      *)
THEOREM UndisturbedStableHolds == LateSpec => UndisturbedStable
<1>1. LateInv /\ [LateNext]_lateVars =>
        [\A n \in Peers : Undisturbed(n)' =>
           /\ last_finalised_frame'[n] >= last_finalised_frame[n]
           /\ \A f \in 0 .. last_finalised_frame[n] : frame'[n][f] = frame[n][f]]_vars
  <2>. SUFFICES ASSUME LateInv, [LateNext]_lateVars, NEW n \in Peers, Undisturbed(n)'
                PROVE  /\ last_finalised_frame'[n] >= last_finalised_frame[n]
                       /\ \A f \in 0 .. last_finalised_frame[n] : frame'[n][f] = frame[n][f]
    OBVIOUS
  <2>1. Single(frame'[n])
    BY DEF Undisturbed, Single
  <2>2. FinalKept(n)
    BY <2>1, LateStep DEF LateStepOK
  <2>. QED  BY <2>2 DEF FinalKept
<1>. QED  BY <1>1, LateInvariance, PTL DEF LateSpec, UndisturbedStable
=============================================================================
