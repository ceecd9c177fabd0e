--------------------------- MODULE AtomicSpinLock ---------------------------
(***************************************************************************)
(* The SpinLock of mm/atomic/tests/stress/spinlock.cpp over                *)
(* stdlike::Atomic, whose Exchange is two instructions: the thread loads   *)
(* the lock (pc "lock"), stores 1 (pc "swap") and then looks at what it    *)
(* has loaded, which is in register.                                       *)
(***************************************************************************)
EXTENDS CriticalSection, Atomic

VARIABLE overlapped     \* history: an Exchange read 0 during another one

(* From its load until its store is in memory an Exchange is under way. *)
Exchanging(t) ==
    \/ pc[t] = "swap"
    \/ \E i \in 1..Len(buffer[t]) :
           buffer[t][i] = [cell |-> locked, value |-> 1]

ExchangeLoads(t) ==
    /\ Transition(t, "lock", "swap")
    /\ register' = [register EXCEPT ![t] = ExchangeLoad(t, locked)]
    /\ overlapped' = (overlapped \/ /\ register'[t] = 0
                                    /\ \E u \in Threads \ {t} : Exchanging(u))
    /\ UNCHANGED <<memoryVars, sections>>

(* Mutant of ExchangeStores: the exchange is only a load. *)
ExchangeStoresNot(t) ==
    /\ Transition(t, "swap", IF register[t] = 1 THEN "lock" ELSE "read")
    /\ UNCHANGED <<memoryVars, register, sections, overlapped>>

(* while (locked_.Exchange(1) == 1) *)
ExchangeStores(t) ==
    /\ Transition(t, "swap", IF register[t] = 1 THEN "lock" ELSE "read")
    /\ ExchangeStore(t, locked, 1)
    /\ UNCHANGED <<register, sections, overlapped>>

(* locked_.Store(0, MemoryOrder::Release) *)
StoresRelease(t) ==
    /\ Leave(t)
    /\ AtomicStore(t, locked, 0, "Release")
    /\ UNCHANGED overlapped

AtomicLockStep(t) == ExchangeLoads(t) \/ ExchangeStores(t) \/ StoresRelease(t)
=============================================================================
