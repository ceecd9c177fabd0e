---------------------------- MODULE TASSpinLock -----------------------------
(***************************************************************************)
(* solutions::TASSpinLock of mutex/spinlock/spinlock.hpp over the assembly *)
(* of mutex/spinlock/atomic_ops.S: AtomicLoad and AtomicStore are plain    *)
(* moves, AtomicExchange is xchgq.                                         *)
(***************************************************************************)
EXTENDS CriticalSection

(* TryLock gives up when it reads a 1 and calls Lock otherwise. *)
TryLock(t) ==
    /\ Transition(t, "idle", "lock") /\ sections[t] < Rounds
    /\ Load(t, locked) # 1
    /\ UNCHANGED <<memoryVars, register, sections>>

(* while (AtomicExchange(&locked_, 1) != 0), one turn. *)
Exchange(t) ==
    /\ Transition(t, "lock", IF Load(t, locked) = 0 THEN "read" ELSE "lock")
    /\ LockedStore(t, locked, 1)
    /\ UNCHANGED <<register, sections>>

(* Mutant of Unlock: the release is left out. *)
UnlockForgotten(t) == Leave(t) /\ UNCHANGED memoryVars

(* AtomicStore(&locked_, 0) *)
Unlock(t) == Leave(t) /\ Store(t, locked, 0)

TASStep(t) == Exchange(t) \/ Unlock(t)

----------------------------------------------------------------------------
(* The TASSpinLock of coroutine/mtf/support, over std::atomic<bool>: after *)
(* a failed exchange it spins on the load, and it releases with a          *)
(* sequentially consistent store, which drains the store buffer.           *)

(* while (atomic_.exchange(true)) *)
ExchangesTrue(t) ==
    /\ Transition(t, "lock", IF Load(t, locked) = 0 THEN "read" ELSE "spin")
    /\ LockedStore(t, locked, 1)
    /\ UNCHANGED <<register, sections>>

(* while (atomic_.load()), one turn. *)
SpinsOnLoad(t) ==
    /\ Transition(t, "spin", IF Load(t, locked) = 1 THEN "spin" ELSE "lock")
    /\ UNCHANGED <<memoryVars, register, sections>>

StoresFalse(t) == Leave(t) /\ LockedStore(t, locked, 0)

SupportStep(t) == ExchangesTrue(t) \/ SpinsOnLoad(t) \/ StoresFalse(t)
=============================================================================
