-------------------------- MODULE CriticalSection ---------------------------
(***************************************************************************)
(* What the stress tests of the locks do under them: each thread calls     *)
(* Lock, reads a plain counter, writes it back plus one and calls Unlock.  *)
(* The memory is that of X86TSO.tla; SpinLocks.tla adds the locks.         *)
(***************************************************************************)
EXTENDS X86TSO, FiniteSetsExt

CONSTANTS
    locked, data,   \* the cells: the lock's own, and the counter under it
    Rounds          \* a bound on the critical sections of each thread

ASSUME CriticalSectionAssumption ==
    /\ Cells = {locked, data} /\ locked # data
    /\ IsFiniteSet(Threads) /\ Rounds \in Nat

VARIABLES
    pc,             \* where each thread stands
    register,       \* the value each thread has loaded last
    sections        \* history: counter updates of the sections left by each

vars == <<memoryVars, pc, register, sections>>

(* The sections left so far, each the thread's and numbered. *)
SectionsLeft == UNION {{t} \X (1..sections[t]) : t \in Threads}

Total == Cardinality(SectionsLeft)

Contending == {"lock", "swap", "spin", "stepBack"}

InSection(t) == pc[t] \in {"read", "write", "unlock", "drop"}

SectionsInit ==
    /\ MemoryInit
    /\ pc = [t \in Threads |-> "idle"]
    /\ register = [t \in Threads |-> 0]
    /\ sections = [t \in Threads |-> 0]

Transition(t, from, to) == pc[t] = from /\ pc' = [pc EXCEPT ![t] = to]

CallLock(t) ==
    /\ Transition(t, "idle", "lock")
    /\ sections[t] < Rounds
    /\ UNCHANGED <<memoryVars, register, sections>>

(* The critical section: the counter is read, then written plus one. *)
ReadData(t) ==
    /\ Transition(t, "read", "write")
    /\ register' = [register EXCEPT ![t] = Load(t, data)]
    /\ UNCHANGED <<memoryVars, sections>>

WriteData(t) ==
    /\ Transition(t, "write", "unlock")
    /\ Store(t, data, register[t] + 1)
    /\ UNCHANGED <<register, sections>>

(* The control part of Unlock: the thread's section is over. *)
Leave(t) ==
    /\ Transition(t, "unlock", "idle")
    /\ sections' = [sections EXCEPT ![t] = @ + 1]
    /\ UNCHANGED register

Drain(t) == Flush(t) /\ UNCHANGED <<pc, register, sections>>
=============================================================================
