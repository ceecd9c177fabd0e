----------------------------- MODULE SpinLocks ------------------------------
(***************************************************************************)
(* The locks of the repository that spin, each run on the memory of        *)
(* X86TSO.tla by the same threads.  The variable lock says which one the   *)
(* program of a behaviour uses:                                            *)
(*   "tas"      solutions::TASSpinLock of mutex/spinlock                   *)
(*   "support"  TASSpinLock of coroutine/mtf/support                       *)
(*   "tricky"   TrickyLock of mutex/livelock                               *)
(*   "mutexed"  util::Mutexed of intro/mutexed                             *)
(*   "atomic"   the SpinLock of the tests of mm/atomic                     *)
(***************************************************************************)
EXTENDS TASSpinLock, TrickyLock, Mutexed, AtomicSpinLock

VARIABLE lock

lockVars == <<vars, lock, overlapped>>

(* The lock's cell holds what the programs store in it, and no buffer is   *)
(* longer than BufferSize.                                                 *)
TypeOK ==
    /\ lock \in {"tas", "support", "tricky", "mutexed", "atomic"}
    /\ memory \in [Cells -> Nat]
    /\ memory[locked] \in 0..(IF lock = "tricky" THEN Cardinality(Threads) ELSE 1)
    /\ buffer \in [Threads -> Seq([cell : Cells, value : Nat])]
    /\ \A t \in Threads : Len(buffer[t]) <= BufferSize
    /\ pc \in [Threads -> Contending \cup {"idle", "read", "write", "unlock", "drop"}]
    /\ register \in [Threads -> Nat]
    /\ sections \in [Threads -> 0..Rounds]
    /\ overlapped \in BOOLEAN

Init ==
    /\ SectionsInit
    /\ lock \in {"tas", "support", "tricky", "mutexed", "atomic"}
    /\ overlapped = FALSE

LockStep(t) ==
    \/ lock = "tas" /\ TASStep(t) /\ UNCHANGED overlapped
    \/ lock = "support" /\ SupportStep(t) /\ UNCHANGED overlapped
    \/ lock = "tricky" /\ TrickyStep(t) /\ UNCHANGED overlapped
    \/ lock = "mutexed" /\ RefStep(t) /\ UNCHANGED overlapped
    \/ lock = "atomic" /\ AtomicLockStep(t)

(* What a thread does once it has called Lock. *)
Continue(t) ==
    /\ \/ LockStep(t)
       \/ lock # "mutexed" /\ (ReadData(t) \/ WriteData(t)) /\ UNCHANGED overlapped
    /\ UNCHANGED lock

(* A bound: once two exchanges have overlapped no thread calls Lock again. *)
Calls(t) ==
    /\ ~overlapped
    /\ CallLock(t) \/ (lock = "tas" /\ TryLock(t))
    /\ UNCHANGED <<lock, overlapped>>

Drains(t) == Drain(t) /\ UNCHANGED <<lock, overlapped>>

Next == \E t \in Threads : Calls(t) \/ Continue(t) \/ Drains(t)

Spec == Init /\ [][Next]_lockVars

(* Threads inside Lock or the critical section run, and stores reach       *)
(* memory; nobody has to call Lock.                                        *)
FairSpec == Spec /\ \A t \in Threads :
    WF_lockVars(Continue(t)) /\ WF_lockVars(Drains(t))

----------------------------------------------------------------------------
(* One thread in the critical section, although a release may be a plain   *)
(* store that lingers in the store buffer (spinlock.hpp:31-33), or the     *)
(* count of threads is above 1 most of the time (tricky_lock.hpp:11-12).   *)
(* The lock over the exchange of two instructions is excepted.             *)
MutualExclusion ==
    lock # "atomic" =>
        \A t, u \in Threads : InSection(t) /\ InSection(u) => t = u

(* A critical section sees the effect of every earlier one: the release    *)
(* never overtakes the stores made under the lock (spinlock.hpp:31-33),    *)
(* and a Mutexed object is what the updates through the arrow made of it   *)
(* (mutexed.hpp:25-34).                                                    *)
SectionsSeeEachOther ==
    lock # "atomic" =>
        \A t \in Threads : pc[t] \in {"write", "unlock"} => register[t] = Total

(* The spin lock of mm/atomic keeps threads out of each other's critical   *)
(* section as long as no Exchange loads a 0 while another one is between   *)
(* its load and the moment its store is in memory (atomic_ops.S:49-52).    *)
ExclusionFailsOnlyByOverlap ==
    lock = "atomic" /\ ~overlapped =>
        \A t, u \in Threads : InSection(t) /\ InSection(u) => t = u

(* Progress: while threads contend, some thread enters the critical        *)
(* section (mutex/livelock/readme.md:9 demands it of a spinlock).  The     *)
(* TrickyLock does not have it, nor the lock over the two-instruction      *)
(* exchange, whose store of 1 may arrive after the release.                *)
SomebodyEnters ==
    /\ lock \in {"tas", "support", "mutexed"}
    /\ \E t \in Threads : pc[t] \in Contending
    ~> \E t \in Threads : InSection(t)

(* What the TrickyLock still promises: a thread that contends alone gets   *)
(* in, for those who stepped back have left the count                      *)
(* (tricky_lock.hpp:11-13).                                                *)
SoloEnters ==
    \A t \in Threads :
        (lock # "atomic" /\ <>[](\A u \in Threads \ {t} : pc[u] = "idle"))
            => []<>(pc[t] \notin Contending)
=============================================================================
