---------------------------- MODULE Mutex_proofs ----------------------------
(***************************************************************************)
(* What Mutex.tla checks for four threads, proved for every set of         *)
(* threads.  The proofs go through one inductive invariant: the type, that *)
(* a sleeping thread stands at its futex call, mutual exclusion with the   *)
(* flag telling whether the mutex is held, and that no wakeup is lost.     *)
(***************************************************************************)
EXTENDS Mutex, TLAPS

ParkedStayParked == \A t \in parked : pc[t] = "park"

ExclusionInv == TypeOK /\ ParkedStayParked /\ MutualExclusion

IInv == ExclusionInv /\ NoLostWakeup

(* Who holds the mutex decides whether the flag is 0, and nobody shares it: *)
(* the form of MutualExclusion the provers use.                             *)
LEMMA HoldersUnique ==
    ASSUME ExclusionInv, NEW t \in Threads, pc[t] \in {"cs", "store"}
    PROVE  /\ flag # 0
           /\ \A u \in Threads : pc[u] \in {"cs", "store"} => u = t
BY DEF ExclusionInv, MutualExclusion, Holders

(* The initial state satisfies the invariant: nobody is in Lock or Unlock. *)
LEMMA InitIInv == Init => IInv
BY DEF Init, IInv, ExclusionInv, TypeOK, Steps, ParkedStayParked,
       MutualExclusion, Holders, NoLostWakeup

(* Every step keeps the type, the place of sleepers and mutual exclusion.  *)
LEMMA ExclusionStep == ExclusionInv /\ [Next]_vars => ExclusionInv'
<1> SUFFICES ASSUME ExclusionInv, [Next]_vars
             PROVE  ExclusionInv'
  OBVIOUS
<1> USE DEF ExclusionInv, TypeOK, Steps, ParkedStayParked, MutualExclusion, Holders
<1>1. ASSUME NEW t \in Threads, CmpXchgTakes(t) PROVE ExclusionInv'
  BY <1>1 DEF CmpXchgTakes, Goto
<1>2. ASSUME NEW t \in Threads, CmpXchgFails(t) PROVE ExclusionInv'
  BY <1>2 DEF CmpXchgFails, Goto
<1>3. ASSUME NEW t \in Threads, Exchange(t) PROVE ExclusionInv'
  <2>1. CASE flag = 0
    BY <1>3, <2>1 DEF Exchange, Goto
  <2>2. CASE flag # 0
    BY <1>3, <2>2 DEF Exchange, Goto
  <2> QED BY <2>1, <2>2
<1>4. ASSUME NEW t \in Threads, WaitLoad(t) PROVE ExclusionInv'
  BY <1>4 DEF WaitLoad, Goto
<1>5. ASSUME NEW t \in Threads, Park(t) PROVE ExclusionInv'
  BY <1>5 DEF Park, Goto
<1>6. ASSUME NEW t \in Threads, SpuriousWake(t) PROVE ExclusionInv'
  BY <1>6 DEF SpuriousWake, Goto
<1>7. ASSUME NEW t \in Threads, FetchSub(t) PROVE ExclusionInv'
  <2>1. CASE flag = 1
    BY <1>7, <2>1, HoldersUnique DEF FetchSub, Goto
  <2>2. CASE flag = 2
    BY <1>7, <2>2, HoldersUnique DEF FetchSub, Goto
  <2> QED BY <1>7, <2>1, <2>2, HoldersUnique DEF FetchSub
<1>8. ASSUME NEW t \in Threads, StoreZero(t) PROVE ExclusionInv'
  BY <1>8, HoldersUnique DEF StoreZero, Goto
<1>9. ASSUME NEW t \in Threads, NotifyNobody(t) PROVE ExclusionInv'
  BY <1>9 DEF NotifyNobody, Goto
<1>10. ASSUME NEW t \in Threads, NotifyOne(t) PROVE ExclusionInv'
  BY <1>10 DEF NotifyOne
<1>11. CASE UNCHANGED vars
  BY <1>11 DEF vars
<1> QED
  BY <1>1, <1>2, <1>3, <1>4, <1>5, <1>6, <1>7, <1>8, <1>9, <1>10, <1>11
  DEF Next, LockStep, UnlockStep

(* Every step keeps somebody responsible for the threads that sleep. *)
LEMMA WakeupStep == IInv /\ [Next]_vars => NoLostWakeup'
<1> SUFFICES ASSUME IInv, [Next]_vars, parked' # {}
             PROVE  NoLostWakeup'
  BY DEF NoLostWakeup
<1> USE DEF IInv, ExclusionInv, TypeOK, Steps, ParkedStayParked, NoLostWakeup
<1>1. ASSUME NEW t \in Threads, CmpXchgTakes(t) PROVE NoLostWakeup'
  BY <1>1 DEF CmpXchgTakes, Goto
<1>2. ASSUME NEW t \in Threads, CmpXchgFails(t) PROVE NoLostWakeup'
  BY <1>2 DEF CmpXchgFails, Goto
<1>3. ASSUME NEW t \in Threads, Exchange(t) PROVE NoLostWakeup'
  BY <1>3 DEF Exchange, Goto
<1>4. ASSUME NEW t \in Threads, WaitLoad(t) PROVE NoLostWakeup'
  BY <1>4 DEF WaitLoad, Goto
<1>5. ASSUME NEW t \in Threads, Park(t) PROVE NoLostWakeup'
  BY <1>5 DEF Park, Goto
<1>6. ASSUME NEW t \in Threads, SpuriousWake(t) PROVE NoLostWakeup'
  BY <1>6 DEF SpuriousWake, Goto
<1>7. ASSUME NEW t \in Threads, FetchSub(t) PROVE NoLostWakeup'
  BY <1>7, HoldersUnique DEF FetchSub, Goto
<1>8. ASSUME NEW t \in Threads, StoreZero(t) PROVE NoLostWakeup'
  BY <1>8 DEF StoreZero, Goto
<1>9. ASSUME NEW t \in Threads, NotifyNobody(t) PROVE NoLostWakeup'
  BY <1>9 DEF NotifyNobody
<1>10. ASSUME NEW t \in Threads, NotifyOne(t) PROVE NoLostWakeup'
  BY <1>10 DEF NotifyOne
<1>11. CASE UNCHANGED vars
  BY <1>11 DEF vars
<1> QED
  BY <1>1, <1>2, <1>3, <1>4, <1>5, <1>6, <1>7, <1>8, <1>9, <1>10, <1>11
  DEF Next, LockStep, UnlockStep

(* The invariant holds in every reachable state. *)
THEOREM Invariance == Spec => []IInv
<1>1. IInv /\ [Next]_vars => IInv'
  BY ExclusionStep, WakeupStep DEF IInv
<1> QED BY InitIInv, <1>1, PTL DEF Spec

(* A step of the mutex is a step of the abstract lock or leaves it alone.  *)
LEMMA LockSteps == IInv /\ [Next]_vars => [Lock!Next]_Phase
<1> SUFFICES ASSUME IInv, [Next]_vars
             PROVE  Lock!Next \/ UNCHANGED Phase
  OBVIOUS
<1> USE DEF IInv, ExclusionInv, TypeOK, Steps, ParkedStayParked
<1>1. ASSUME NEW t \in Threads, CmpXchgTakes(t) PROVE Lock!RequestAndGrant(t)
  <2>1. Lock!Owners = {}
    BY <1>1 DEF CmpXchgTakes, MutualExclusion, Holders, Lock!Owners, Phase
  <2> QED BY <1>1, <2>1 DEF CmpXchgTakes, Goto, Lock!RequestAndGrant, Phase
<1>2. ASSUME NEW t \in Threads, CmpXchgFails(t) PROVE Lock!Request(t)
  BY <1>2 DEF CmpXchgFails, Goto, Lock!Request, Phase
<1>3. ASSUME NEW t \in Threads, Exchange(t), flag = 0 PROVE Lock!Grant(t)
  <2>1. Lock!Owners = {}
    BY <1>3 DEF MutualExclusion, Holders, Lock!Owners, Phase
  <2> QED BY <1>3, <2>1 DEF Exchange, Goto, Lock!Grant, Phase
<1>4. ASSUME NEW t \in Threads, Exchange(t), flag # 0 PROVE UNCHANGED Phase
  BY <1>4 DEF Exchange, Goto, Phase
<1>5. ASSUME NEW t \in Threads, WaitLoad(t) \/ Park(t) \/ SpuriousWake(t)
      PROVE  UNCHANGED Phase
  BY <1>5 DEF WaitLoad, Park, SpuriousWake, Goto, Phase
<1>6. ASSUME NEW t \in Threads, FetchSub(t) PROVE Lock!Release(t)
  BY <1>6 DEF FetchSub, Goto, Lock!Release, Phase
<1>7. ASSUME NEW t \in Threads, StoreZero(t) \/ NotifyNobody(t)
      PROVE  UNCHANGED Phase
  BY <1>7 DEF StoreZero, NotifyNobody, Goto, Phase
<1>8. ASSUME NEW t \in Threads, NotifyOne(t) PROVE UNCHANGED Phase
  BY <1>8 DEF NotifyOne, Phase
<1>9. CASE UNCHANGED vars
  BY <1>9 DEF vars, Phase
<1> QED
  BY <1>1, <1>2, <1>3, <1>4, <1>5, <1>6, <1>7, <1>8, <1>9
  DEF Next, LockStep, UnlockStep, Lock!Next

(* The initial states of the mutex are initial states of the abstract lock. *)
LEMMA LockInit == Init => Lock!Init
BY DEF Init, Lock!Init, Phase

(* mutex.hpp implements the abstract lock: its safety part, ImplementsLock  *)
(* without the fairness.                                                    *)
THEOREM Refinement == Spec => Lock!Spec
BY LockInit, LockSteps, Invariance, PTL DEF Spec, Lock!Spec

(* mutex.hpp: the flag never leaves the three values of the protocol. *)
THEOREM TypeCorrect == Spec => []TypeOK
BY Invariance, PTL DEF IInv, ExclusionInv

(* mutex.hpp: no two threads are between Lock and Unlock. *)
THEOREM Exclusion == Spec => []MutualExclusion
BY Invariance, PTL DEF IInv, ExclusionInv

(* mutex.hpp: a parked thread always has somebody who will wake it. *)
THEOREM WakeupNotLost == Spec => []NoLostWakeup
BY Invariance, PTL DEF IInv
=============================================================================
