------------------------ MODULE CyclicBarrier_proofs ------------------------
(***************************************************************************)
(* CyclicBarrier.tla, proved for every finite set of participants and      *)
(* every number of rounds: the counter counts, a round cannot overtake     *)
(* another, nobody sleeps through the change of the flag, and every step   *)
(* is one of AbstractBarrier or a stutter.                                 *)
(***************************************************************************)
EXTENDS CyclicBarrier, FiniteSetTheorems, TLAPS

Inside == {p \in Participants : pc[p] \in {"opening", "between"}}

(* A thread is inside a call of Arrive exactly when it has begun one more  *)
(* than it has returned from.                                              *)
CallsCounted == \A p \in Participants :
    arrived[p] = returned[p] + (IF pc[p] = "out" THEN 0 ELSE 1)

(* The number of the last round p has seen opened. *)
LastRound(p) == IF ~isOpen /\ pc[p] = "opening" THEN returned[p] ELSE arrived[p]

(* All participants agree on it: arrivals alone never open a round. *)
SameRound == \A p, q \in Participants : LastRound(p) = LastRound(q)

IInv ==
    /\ TypeOK
    /\ OneRoundAtATime
    /\ NobodySleepsThrough
    /\ CallsCounted
    /\ SameRound

----------------------------------------------------------------------------
(* The counter *)

LEMMA InsideFinite ==
    /\ participants \in Nat
    /\ IsFiniteSet(Inside)
    /\ Cardinality(Inside) \in 0..participants
<1>1. Inside \in SUBSET Participants
  BY DEF Inside
<1> QED BY <1>1, BarrierAssumption, FS_Subset, FS_CardinalityType DEF participants

(* A thread that arrives is counted, and when the counter has become       *)
(* participants_ every other thread was inside.                            *)
LEMMA ArrivalCounted ==
    ASSUME TypeOK, NEW p \in Participants, pc[p] = "out",
           Inside' = Inside \cup {p}
    PROVE  /\ Cardinality(Inside') = Cardinality(Inside) + 1
           /\ Cardinality(Inside) + 1 \in 0..participants
           /\ Cardinality(Inside) + 1 = participants =>
                \A q \in Participants \ {p} : q \in Inside
<1>1. p \notin Inside
  BY DEF Inside
<1>2. Cardinality(Inside') = Cardinality(Inside) + 1
  BY <1>1, InsideFinite, FS_AddElement
<1>3. Inside \cup {p} \in SUBSET Participants
  BY DEF Inside
<1>4. Cardinality(Inside \cup {p}) <= participants
  BY <1>3, BarrierAssumption, FS_Subset DEF participants
<1>5. ASSUME Cardinality(Inside) + 1 = participants
      PROVE  Inside \cup {p} = Participants
  BY <1>2, <1>3, <1>5, BarrierAssumption, FS_Subset DEF participants
<1> QED BY <1>2, <1>4, <1>5, InsideFinite

(* A thread that departs is no longer counted, and when the counter has    *)
(* become 0 it was the only one inside.                                    *)
LEMMA DepartureCounted ==
    ASSUME NEW p \in Participants, pc[p] = "between", Inside' = Inside \ {p}
    PROVE  /\ Cardinality(Inside') = Cardinality(Inside) - 1
           /\ Cardinality(Inside) - 1 \in 0..participants
           /\ Cardinality(Inside) - 1 = 0 => Inside' = {}
<1>1. p \in Inside
  BY DEF Inside
<1>2. /\ IsFiniteSet(Inside')
      /\ Cardinality(Inside') = Cardinality(Inside) - 1
  BY <1>1, InsideFinite, FS_RemoveElement
<1>3. Cardinality(Inside') \in Nat
  BY <1>2, FS_CardinalityType
<1>4. Cardinality(Inside') = 0 => Inside' = {}
  BY <1>2, FS_EmptySet
<1> QED BY <1>2, <1>3, <1>4, InsideFinite

----------------------------------------------------------------------------
(* The invariant *)

LEMMA InitIInv == Init => IInv
<1> SUFFICES ASSUME Init PROVE IInv
  OBVIOUS
<1>1. Inside = {}
  BY DEF Init, Inside
<1>2. counter = Cardinality(Inside)
  BY <1>1, FS_EmptySet DEF Init
<1>3. counter \in 0..participants
  BY InsideFinite DEF Init
<1>4. TypeOK
  <2>1. /\ pc \in [Participants -> Steps]
        /\ arrived \in [Participants -> 0..Rounds]
        /\ returned \in [Participants -> 0..Rounds]
    BY BarrierAssumption DEF Init, Steps
  <2> QED BY <1>3, <2>1 DEF Init, TypeOK
<1> QED
  BY <1>2, <1>4 DEF Init, IInv, OneRoundAtATime, NobodySleepsThrough,
     CallsCounted, SameRound, LastRound, Inside

(* The last thread to arrive finds everybody else waiting for the opening. *)
LEMMA ArrivesLastKeeps ==
    ASSUME IInv, NEW p \in Participants, ArrivesLast(p) PROVE IInv'
<1> USE DEF IInv, ArrivesLast, CallsArrive, Goto
<1>1. Inside' = Inside \cup {p}
  BY DEF Inside, TypeOK
<1>2. counter = Cardinality(Inside)
  BY DEF Inside, OneRoundAtATime
<1>3. /\ Cardinality(Inside') = Cardinality(Inside) + 1
      /\ Cardinality(Inside) + 1 \in 0..participants
      /\ \A q \in Participants \ {p} : q \in Inside
  BY <1>1, <1>2, ArrivalCounted
<1>4. ~isOpen /\ \A q \in Participants \ {p} : pc[q] = "opening"
  BY <1>3 DEF OneRoundAtATime, Inside
<1>5. /\ pc' \in [Participants -> Steps]
      /\ arrived' \in [Participants -> 0..Rounds]
  BY BarrierAssumption DEF TypeOK, Steps
<1>6. TypeOK'
  BY <1>2, <1>3, <1>5, InsideFinite DEF TypeOK, NobodySleepsThrough
<1>7. OneRoundAtATime'
  BY <1>2, <1>3, <1>4 DEF OneRoundAtATime, TypeOK, Inside
<1>8. NobodySleepsThrough'
  BY <1>4 DEF NobodySleepsThrough
<1>9. CallsCounted'
  BY DEF CallsCounted, TypeOK
<1>10. SameRound'
  <2>1. \A q \in Participants \ {p} : arrived[q] = arrived[p] + 1
    BY <1>4 DEF SameRound, LastRound, CallsCounted, TypeOK
  <2> QED BY <2>1 DEF SameRound, LastRound, TypeOK
<1> QED BY <1>6, <1>7, <1>8, <1>9, <1>10

(* Any other arrival joins those who wait: the barrier is closed, for      *)
(* while it is open nobody is out.                                         *)
LEMMA ArrivesAndWaitsKeeps ==
    ASSUME IInv, NEW p \in Participants, ArrivesAndWaits(p) PROVE IInv'
<1> USE DEF IInv, CallsArrive, Goto
<1>1. /\ ~isOpen /\ pc[p] = "out"
      /\ pc' = [pc EXCEPT ![p] = "opening"]
      /\ openWaiters' = openWaiters \cup {p}
      /\ counter' = counter + 1
      /\ arrived' = [arrived EXCEPT ![p] = @ + 1]
      /\ arrived[p] < Rounds
      /\ UNCHANGED <<isOpen, closeWaiters, returned>>
  BY DEF ArrivesAndWaits, OneRoundAtATime
<1>2. Inside' = Inside \cup {p}
  BY <1>1 DEF Inside, TypeOK
<1>3. counter = Cardinality(Inside)
  BY DEF Inside, OneRoundAtATime
<1>4. /\ Cardinality(Inside') = Cardinality(Inside) + 1
      /\ Cardinality(Inside) + 1 \in 0..participants
  BY <1>1, <1>2, ArrivalCounted
<1>5. /\ pc' \in [Participants -> Steps]
      /\ arrived' \in [Participants -> 0..Rounds]
  BY <1>1, BarrierAssumption DEF TypeOK, Steps
<1>6. TypeOK'
  <2>1. openWaiters' \subseteq {q \in Participants : pc'[q] = "opening"}
    BY <1>1 DEF TypeOK
  <2>2. closeWaiters' \subseteq {q \in Participants : pc'[q] = "closing"}
    BY <1>1 DEF TypeOK
  <2>3. counter' \in 0..participants
    BY <1>1, <1>3, <1>4
  <2>4. isOpen' \in BOOLEAN /\ returned' \in [Participants -> 0..Rounds]
    BY <1>1 DEF TypeOK
  <2> QED BY <1>5, <2>1, <2>2, <2>3, <2>4 DEF TypeOK
<1>7. OneRoundAtATime'
  BY <1>1, <1>3, <1>4 DEF OneRoundAtATime, TypeOK, Inside
<1>8. NobodySleepsThrough'
  BY <1>1 DEF NobodySleepsThrough
<1>9. CallsCounted'
  BY <1>1 DEF CallsCounted, TypeOK
<1>10. SameRound'
  <2>1. ASSUME NEW q \in Participants PROVE LastRound(q)' = LastRound(q)
    BY <1>1, <1>9 DEF LastRound, CallsCounted, TypeOK
  <2> QED BY <2>1 DEF SameRound
<1> QED BY <1>6, <1>7, <1>8, <1>9, <1>10

(* A thread that passes from one wait to the next stays inside. *)
LEMMA SeesOpenKeeps ==
    ASSUME IInv, NEW p \in Participants, SeesOpen(p) PROVE IInv'
<1> USE DEF IInv, SeesOpen, Goto
<1>1. Inside' = Inside
  BY DEF Inside, TypeOK
<1>2. TypeOK'
  BY DEF TypeOK, Steps
<1>3. OneRoundAtATime'
  BY <1>1 DEF OneRoundAtATime, TypeOK, Inside
<1>4. NobodySleepsThrough'
  BY DEF NobodySleepsThrough
<1>5. CallsCounted'
  BY DEF CallsCounted, TypeOK
<1>6. SameRound'
  <2>1. ASSUME NEW q \in Participants PROVE LastRound(q)' = LastRound(q)
    BY DEF LastRound, TypeOK
  <2> QED BY <2>1 DEF SameRound
<1> QED BY <1>2, <1>3, <1>4, <1>5, <1>6

(* The last thread to depart leaves nobody inside. *)
LEMMA DepartsLastKeeps ==
    ASSUME IInv, NEW p \in Participants, DepartsLast(p) PROVE IInv'
<1> USE DEF IInv, DepartsLast, Returns, Goto
<1>1. isOpen
  BY DEF OneRoundAtATime
<1>2. Inside' = Inside \ {p}
  BY DEF Inside, TypeOK
<1>3. counter = Cardinality(Inside)
  BY DEF Inside, OneRoundAtATime
<1>4. /\ Cardinality(Inside') = Cardinality(Inside) - 1
      /\ Cardinality(Inside) - 1 \in 0..participants
      /\ Inside' = {}
  BY <1>2, <1>3, DepartureCounted
<1>5. returned[p] + 1 = arrived[p]
  BY DEF CallsCounted, TypeOK
<1>6. /\ pc' \in [Participants -> Steps]
      /\ returned' \in [Participants -> 0..Rounds]
  BY <1>5, BarrierAssumption DEF TypeOK, Steps
<1>7. TypeOK'
  BY <1>1, <1>3, <1>4, <1>6 DEF TypeOK, NobodySleepsThrough
<1>8. OneRoundAtATime'
  BY <1>3, <1>4 DEF OneRoundAtATime, Inside
<1>9. NobodySleepsThrough'
  BY DEF NobodySleepsThrough
<1>10. CallsCounted'
  BY <1>5 DEF CallsCounted, TypeOK
<1>11. SameRound'
  BY <1>1, <1>4 DEF SameRound, LastRound, Inside
<1> QED BY <1>7, <1>8, <1>9, <1>10, <1>11

(* Any other departure waits for the closing: the barrier is open. *)
LEMMA DepartsAndWaitsKeeps ==
    ASSUME IInv, NEW p \in Participants, DepartsAndWaits(p) PROVE IInv'
<1> USE DEF IInv, Goto
<1>1. /\ isOpen /\ isOpen' /\ pc[p] = "between"
      /\ pc' = [pc EXCEPT ![p] = "closing"]
      /\ closeWaiters' = closeWaiters \cup {p}
      /\ counter' = counter - 1
      /\ UNCHANGED <<openWaiters, arrived, returned>>
  BY DEF DepartsAndWaits, OneRoundAtATime
<1>2. Inside' = Inside \ {p}
  BY <1>1 DEF Inside, TypeOK
<1>3. counter = Cardinality(Inside)
  BY DEF Inside, OneRoundAtATime
<1>4. /\ Cardinality(Inside') = Cardinality(Inside) - 1
      /\ Cardinality(Inside) - 1 \in 0..participants
  BY <1>1, <1>2, DepartureCounted
<1>5. pc' \in [Participants -> Steps]
  BY <1>1 DEF TypeOK, Steps
<1>6. TypeOK'
  BY <1>1, <1>3, <1>4, <1>5 DEF TypeOK
<1>7. OneRoundAtATime'
  BY <1>1, <1>3, <1>4 DEF OneRoundAtATime, TypeOK, Inside
<1>8. NobodySleepsThrough'
  BY <1>1 DEF NobodySleepsThrough
<1>9. CallsCounted'
  BY <1>1 DEF CallsCounted, TypeOK
<1>10. SameRound'
  BY <1>1 DEF SameRound, LastRound
<1> QED BY <1>6, <1>7, <1>8, <1>9, <1>10

(* A thread that sees the flag down returns. *)
LEMMA SeesClosedKeeps ==
    ASSUME IInv, NEW p \in Participants, SeesClosed(p) PROVE IInv'
<1> USE DEF IInv, SeesClosed, Returns, Goto
<1>1. Inside' = Inside
  BY DEF Inside, TypeOK
<1>2. returned[p] + 1 = arrived[p]
  BY DEF CallsCounted, TypeOK
<1>3. /\ pc' \in [Participants -> Steps]
      /\ returned' \in [Participants -> 0..Rounds]
  BY <1>2, BarrierAssumption DEF TypeOK, Steps
<1>4. TypeOK'
  BY <1>3 DEF TypeOK
<1>5. OneRoundAtATime'
  BY <1>1 DEF OneRoundAtATime, TypeOK, Inside
<1>6. NobodySleepsThrough'
  BY DEF NobodySleepsThrough
<1>7. CallsCounted'
  BY <1>2 DEF CallsCounted, TypeOK
<1>8. SameRound'
  <2>1. ASSUME NEW q \in Participants PROVE LastRound(q)' = LastRound(q)
    BY DEF LastRound, TypeOK
  <2> QED BY <2>1 DEF SameRound
<1> QED BY <1>4, <1>5, <1>6, <1>7, <1>8

(* Every step keeps the invariant. *)
LEMMA NextIInv == IInv /\ [Next]_vars => IInv'
<1> SUFFICES ASSUME IInv, [Next]_vars PROVE IInv'
  OBVIOUS
<1>1. ASSUME NEW p \in Participants, Begin(p) PROVE IInv'
  BY <1>1, ArrivesLastKeeps, ArrivesAndWaitsKeeps DEF Begin
<1>2. ASSUME NEW p \in Participants, Continue(p) PROVE IInv'
  BY <1>2, SeesOpenKeeps, DepartsLastKeeps, DepartsAndWaitsKeeps, SeesClosedKeeps
     DEF Continue
<1>3. ASSUME NEW p \in Participants, SpuriousWakeup(p) PROVE IInv'
  BY <1>3 DEF SpuriousWakeup, IInv, TypeOK, OneRoundAtATime,
     NobodySleepsThrough, CallsCounted, SameRound, LastRound
<1>4. CASE UNCHANGED vars
  BY <1>4 DEF vars, IInv, TypeOK, OneRoundAtATime, NobodySleepsThrough,
     CallsCounted, SameRound, LastRound
<1> QED BY <1>1, <1>2, <1>3, <1>4 DEF Next

LEMMA Invariance == Spec => []IInv
BY InitIInv, NextIInv, PTL DEF Spec

----------------------------------------------------------------------------
(* For any number of participants the counter never leaves 0..participants_, *)
(* though it is an unsigned decremented without a check, and only threads  *)
(* inside a wait are in the condition variables (cyclic_barrier.hpp:34-56). *)
THEOREM TypeCorrect == Spec => []TypeOK
BY Invariance, PTL DEF IInv

(* A fast thread never starts the next round among threads still in this   *)
(* one (cyclic_barrier.hpp:34-56).                                         *)
THEOREM NoOvertaking == Spec => []OneRoundAtATime
BY Invariance, PTL DEF IInv

(* No wakeup is lost: whoever sleeps, sleeps for a value that the flag     *)
(* does not have (cyclic_barrier.hpp:34-56).                               *)
THEOREM NoLostWakeup == Spec => []NobodySleepsThrough
BY Invariance, PTL DEF IInv

(* The safety part of ImplementsBarrier: the steps at which Arrive is      *)
(* called and returns are those of the abstract barrier, so nobody returns *)
(* from his k-th Arrive before everybody has called it k times             *)
(* (cyclic_barrier.hpp:27).                                                *)
THEOREM RefinesBarrier == Spec => Barrier!Spec
<1>1. Init => Barrier!Init
  BY DEF Init, Barrier!Init
<1>2. IInv /\ [Next]_vars => [Barrier!Next]_(Barrier!vars)
  <2> SUFFICES ASSUME IInv, Next PROVE Barrier!Next \/ UNCHANGED Barrier!vars
    BY DEF vars, Barrier!vars
  <2> USE DEF IInv
  <2>1. ASSUME NEW p \in Participants, Begin(p) PROVE Barrier!Arrive(p)
    BY <2>1 DEF Begin, ArrivesLast, ArrivesAndWaits, CallsArrive, CallsCounted,
       Barrier!Arrive, TypeOK
  <2>2. ASSUME NEW p \in Participants, Returns(p), pc[p] # "out",
               isOpen \/ pc[p] = "closing"
        PROVE  Barrier!Return(p)
    <3>1. returned[p] + 1 = arrived[p] /\ LastRound(p) = arrived[p]
      BY <2>2 DEF CallsCounted, LastRound, TypeOK
    <3>2. ASSUME NEW q \in Participants PROVE returned[p] < arrived[q]
      <4>1. LastRound(q) = returned[p] + 1 /\ LastRound(q) <= arrived[q]
        BY <3>1 DEF SameRound, LastRound, CallsCounted, TypeOK
      <4> QED BY <4>1 DEF TypeOK
    <3> QED BY <2>2, <3>1, <3>2 DEF Returns, Barrier!Return, TypeOK
  <2>3. ASSUME NEW p \in Participants, Continue(p)
        PROVE  Barrier!Return(p) \/ UNCHANGED Barrier!vars
    BY <2>2, <2>3 DEF Continue, SeesOpen, DepartsLast, DepartsAndWaits,
       SeesClosed, OneRoundAtATime, Barrier!vars
  <2>4. ASSUME NEW p \in Participants, SpuriousWakeup(p)
        PROVE  UNCHANGED Barrier!vars
    BY <2>4 DEF SpuriousWakeup, Barrier!vars
  <2> QED BY <2>1, <2>3, <2>4 DEF Next, Barrier!Next
<1> QED BY <1>1, <1>2, Invariance, PTL DEF Spec, Barrier!Spec
=============================================================================
