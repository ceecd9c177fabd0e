------------------------------ MODULE Mutexed -------------------------------
(***************************************************************************)
(* util::Mutexed of intro/mutexed/mutexed.hpp: an object whose only access *)
(* is a UniqueRef, which holds the mutex as long as it lives.  The object  *)
(* is the cell data, as the Counter of tests/unit.cpp; the mutex, external *)
(* to the code, is the cell locked, taken and released by locked           *)
(* instructions.                                                           *)
(***************************************************************************)
EXTENDS CriticalSection

(* Lock: the reference is made, and its lock_guard takes the mutex. *)
MakesRef(t) ==
    /\ Transition(t, "lock", "read")
    /\ Load(t, locked) = 0
    /\ LockedStore(t, locked, 1)
    /\ UNCHANGED <<register, sections>>

(* operator* returns a copy: what is done to it does not reach the object. *)
TakesCopy(t) ==
    /\ Transition(t, "read", "drop")
    /\ register' = [register EXCEPT ![t] = Load(t, data)]
    /\ UNCHANGED <<memoryVars, sections>>

(* operator-> leads to the object itself. *)
UsesArrow(t) == ReadData(t) \/ WriteData(t)

(* The reference is destroyed, and with it the lock_guard. *)
DropsRef(t) ==
    /\ \/ Leave(t)
       \/ Transition(t, "drop", "idle") /\ UNCHANGED <<register, sections>>
    /\ LockedStore(t, locked, 0)

RefStep(t) == MakesRef(t) \/ TakesCopy(t) \/ UsesArrow(t) \/ DropsRef(t)
=============================================================================
