------------------------------- MODULE Mutex --------------------------------
(***************************************************************************)
(* stdlike::Mutex of tasks/mutex/mutex/mutex.hpp, the three-state futex    *)
(* mutex: flag is 0 (free), 1 (held) or 2 (held, and somebody may be       *)
(* parked).  Every step of a thread is one access of the flag or one futex *)
(* call; the kernel's futex queue is the set "parked".                     *)
(***************************************************************************)
EXTENDS Naturals

CONSTANT Threads

VARIABLES
    flag,       \* twist::stdlike::atomic<uint32_t> flag
    parked,     \* threads asleep in the kernel on the address of flag
    pc          \* where each thread stands in Lock or Unlock

vars == <<flag, parked, pc>>

Steps == {"idle", "exchange", "wait", "park", "cs", "store", "notify"}

(* The flag is one of the three values of the protocol, only threads park, *)
(* and every thread stands at a known place of Lock or Unlock.             *)
TypeOK ==
    /\ flag \in 0..2
    /\ parked \subseteq Threads
    /\ pc \in [Threads -> Steps]

Init ==
    /\ flag = 0
    /\ parked = {}
    /\ pc = [t \in Threads |-> "idle"]

Goto(t, step) == pc' = [pc EXCEPT ![t] = step]

----------------------------------------------------------------------------
(* Lock *)

(* compare_exchange_strong(0, 1): the uncontended way in. *)
CmpXchgTakes(t) ==
    /\ pc[t] = "idle"
    /\ flag = 0
    /\ flag' = 1
    /\ Goto(t, "cs")
    /\ UNCHANGED parked

(* The compare-exchange fails; what it read decides whether the flag still *)
(* has to be raised to 2 before the first wait.                            *)
CmpXchgFails(t) ==
    /\ pc[t] = "idle"
    /\ flag # 0
    /\ Goto(t, IF flag = 2 THEN "wait" ELSE "exchange")
    /\ UNCHANGED <<flag, parked>>

(* Mutants of Exchange.  The first forgets, when it takes the lock, that   *)
(* others may be parked; the second lets in whoever does not read a 2.     *)
ExchangeForgetsOthers(t) ==
    /\ pc[t] = "exchange"
    /\ flag' = IF flag = 0 THEN 1 ELSE 2
    /\ Goto(t, IF flag = 0 THEN "cs" ELSE "wait")
    /\ UNCHANGED parked

ExchangeEntersOnOne(t) ==
    /\ pc[t] = "exchange"
    /\ flag' = 2
    /\ Goto(t, IF flag # 2 THEN "cs" ELSE "wait")
    /\ UNCHANGED parked

(* counter = flag.exchange(2): the lock is taken if the counter is 0. *)
Exchange(t) ==
    /\ pc[t] = "exchange"
    /\ flag' = 2
    /\ Goto(t, IF flag = 0 THEN "cs" ELSE "wait")
    /\ UNCHANGED parked

(* flag.wait(2) loads the flag and returns when it is not 2 ... *)
WaitLoad(t) ==
    /\ pc[t] = "wait"
    /\ Goto(t, IF flag = 2 THEN "park" ELSE "exchange")
    /\ UNCHANGED <<flag, parked>>

(* Mutant of Park: WaitQueue::Park of wait_queue.hpp, which sleeps whatever *)
(* the flag has become.                                                     *)
ParkUnchecked(t) ==
    /\ pc[t] = "park"
    /\ t \notin parked
    /\ parked' = parked \cup {t}
    /\ UNCHANGED <<flag, pc>>

(* ... else calls FutexWait(2), which sleeps only if the flag is still 2.  *)
Park(t) ==
    /\ pc[t] = "park"
    /\ t \notin parked
    /\ IF flag = 2
         THEN parked' = parked \cup {t} /\ UNCHANGED pc
         ELSE Goto(t, "wait") /\ UNCHANGED parked
    /\ UNCHANGED flag

(* The futex call may also return without a wake (a signal). *)
SpuriousWake(t) ==
    /\ t \in parked
    /\ parked' = parked \ {t}
    /\ Goto(t, "wait")
    /\ UNCHANGED flag

----------------------------------------------------------------------------
(* Unlock *)

(* flag.fetch_sub(1): a 1 becomes 0 and Unlock is over; a 2 becomes 1, and *)
(* the thread still has to free the lock and wake somebody.                *)
FetchSub(t) ==
    /\ pc[t] = "cs"
    /\ flag' = flag - 1
    /\ Goto(t, IF flag = 1 THEN "idle" ELSE "store")
    /\ UNCHANGED parked

StoreZero(t) ==
    /\ pc[t] = "store"
    /\ flag' = 0
    /\ Goto(t, "notify")
    /\ UNCHANGED parked

(* flag.notify_one() wakes one parked thread, if there is any. *)
NotifyNobody(t) ==
    /\ pc[t] = "notify"
    /\ parked = {}
    /\ Goto(t, "idle")
    /\ UNCHANGED <<flag, parked>>

NotifyOne(t) ==
    /\ pc[t] = "notify"
    /\ \E u \in parked :
         /\ parked' = parked \ {u}
         /\ pc' = [pc EXCEPT ![t] = "idle", ![u] = "wait"]
    /\ UNCHANGED flag

----------------------------------------------------------------------------
LockStep(t) == CmpXchgFails(t) \/ Exchange(t) \/ WaitLoad(t) \/ Park(t)

UnlockStep(t) == FetchSub(t) \/ StoreZero(t) \/ NotifyNobody(t) \/ NotifyOne(t)

Next == \E t \in Threads :
            CmpXchgTakes(t) \/ LockStep(t) \/ SpuriousWake(t) \/ UnlockStep(t)

Spec == Init /\ [][Next]_vars

(* A thread inside Lock or Unlock keeps running and leaves its critical    *)
(* section; nobody is obliged to call Lock, and no wake is spurious by     *)
(* right.                                                                  *)
Fairness == \A t \in Threads :
    /\ WF_vars(pc[t] # "idle" /\ LockStep(t))
    /\ WF_vars(UnlockStep(t))

FairSpec == Spec /\ Fairness

----------------------------------------------------------------------------
(* Holders: threads between the access that took the lock and the access   *)
(* that frees it.                                                          *)
Holders == {t \in Threads : pc[t] \in {"cs", "store"}}

(* At most one thread holds the mutex, and the flag tells whether one      *)
(* does: the transient 1 that fetch_sub leaves behind (mutex.hpp:33)       *)
(* cannot let a second thread in.                                          *)
MutualExclusion ==
    /\ \A t, u \in Holders : t = u
    /\ flag = 0 <=> Holders = {}

(* A thread is never left asleep: while somebody is parked, either the     *)
(* flag is 2 (so that the next Unlock wakes), or an Unlock is on its way   *)
(* to its notify_one, or a thread that will raise the flag to 2 again is   *)
(* awake in Lock.  mutex.hpp:21-28 and :33-35 keep this up together.       *)
NoLostWakeup ==
    parked # {} =>
        \/ flag = 2
        \/ \E t \in Threads : pc[t] \in {"store", "notify", "exchange"}
        \/ \E t \in Threads \ parked : pc[t] \in {"wait", "park"}

(* The mutex implements the abstract lock: a thread owns it from the       *)
(* access that takes it to its fetch_sub, and a free mutex with a waiting  *)
(* thread is eventually taken (mutex/mutex/readme.md:67-71).               *)
Phase == [t \in Threads |->
            IF pc[t] = "cs" THEN "owner"
            ELSE IF pc[t] \in {"exchange", "wait", "park"} THEN "waiting"
            ELSE "idle"]

Lock == INSTANCE AbstractLock WITH st <- Phase

ImplementsLock == Lock!FairSpec
=============================================================================
