--------------------------- MODULE PetersonMutex ----------------------------
(***************************************************************************)
(* PetersonMutex of mm/atomic/tests/stress/peterson_mutex.cpp over         *)
(* stdlike::Atomic, whose operators are SeqCst by default; owner_ is a     *)
(* plain variable.  Lock is called by two threads over and over:           *)
(* Threads = {0, 1}, Cells = {"wants0", "wants1", "victim", "owner"}.      *)
(***************************************************************************)
EXTENDS Atomic

VARIABLE pc         \* where each thread stands

vars == <<memoryVars, pc>>

Wants(t) == IF t = 0 THEN "wants0" ELSE "wants1"
Other(t) == 1 - t

Init == MemoryInit /\ pc = [t \in Threads |-> "idle"]

Goto(t, from, to) == pc[t] = from /\ pc' = [pc EXCEPT ![t] = to]

WantsIn(t) == Goto(t, "idle", "yield") /\ Assign(t, Wants(t), 1)

BecomesVictim(t) == Goto(t, "yield", "checkOther") /\ Assign(t, "victim", t)

(* wants_[1 - me] == 1 && victim_ == me, load by load. *)
ChecksOther(t) ==
    /\ Goto(t, "checkOther", IF Value(t, Wants(Other(t))) = 1 THEN "checkVictim" ELSE "own")
    /\ UNCHANGED memoryVars

ChecksVictim(t) ==
    /\ Goto(t, "checkVictim", IF Value(t, "victim") = t THEN "checkOther" ELSE "own")
    /\ UNCHANGED memoryVars

SetsOwner(t) == Goto(t, "own", "section") /\ Store(t, "owner", t)

Unlocks(t) == Goto(t, "section", "idle") /\ Assign(t, Wants(Load(t, "owner")), 0)

Drain(t) == Flush(t) /\ UNCHANGED pc

Next == \E t \in Threads :
    \/ WantsIn(t) \/ BecomesVictim(t) \/ ChecksOther(t) \/ ChecksVictim(t)
    \/ SetsOwner(t) \/ Unlocks(t) \/ Drain(t)

Spec == Init /\ [][Next]_vars

----------------------------------------------------------------------------
(* One thread in the critical section: what the test MutualExlusion checks *)
(* with its Plate (peterson_mutex.cpp:52-76).                              *)
MutualExclusion == ~ \A t \in Threads : pc[t] = "section"
=============================================================================
