----------------------------- MODULE TrickyLock -----------------------------
(***************************************************************************)
(* TrickyLock of mutex/livelock/tricky_lock.hpp: the lock counts the       *)
(* threads at it, and one that was not alone steps back and tries again.   *)
(* thread_count_ is the cell locked; fetch_add and fetch_sub are locked    *)
(* instructions and act on memory.                                         *)
(***************************************************************************)
EXTENDS CriticalSection

(* while (thread_count_.fetch_add(1) > 0) *)
FetchAdd(t) ==
    /\ Transition(t, "lock", IF Load(t, locked) > 0 THEN "stepBack" ELSE "read")
    /\ LockedStore(t, locked, Load(t, locked) + 1)
    /\ UNCHANGED <<register, sections>>

(* Mutant of StepBack: the thread stays in the count (up to a bound). *)
StepBackForgotten(t) ==
    /\ Transition(t, "stepBack", "lock")
    /\ memory[locked] < 2 * Cardinality(Threads)
    /\ UNCHANGED <<memoryVars, register, sections>>

(* thread_count_.fetch_sub(1), and the loop's next turn. *)
StepBack(t) ==
    /\ Transition(t, "stepBack", "lock")
    /\ LockedStore(t, locked, Load(t, locked) - 1)
    /\ UNCHANGED <<register, sections>>

FetchSub(t) == Leave(t) /\ LockedStore(t, locked, Load(t, locked) - 1)

TrickyStep(t) == FetchAdd(t) \/ StepBack(t) \/ FetchSub(t)
=============================================================================
