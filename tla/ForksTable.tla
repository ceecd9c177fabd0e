----------------------------- MODULE ForksTable -----------------------------
(***************************************************************************)
(* The forks of mutex/try-lock/tests/stress.cpp: philosophers whose forks  *)
(* are TicketLocks.  Everybody locks the left fork and tries the right     *)
(* one, which is what TicketLock::TryLock has to be good for.              *)
(***************************************************************************)
EXTENDS TicketLock, FiniteSets

CONSTANT Seats

ASSUME TableAssumption ==
    /\ Seats \in Nat \ {0, 1}
    /\ Threads = 0..(Seats - 1) /\ Locks = Threads
    /\ TicketRange \in Nat /\ TicketRange > 2

VARIABLE pc         \* where each philosopher stands

vars == <<lockVars, pc>>

Left(p) == p
Right(p) == (p + 1) % Seats

(* "takes": TryLock has seen a free lock and is about to call Lock. *)
Steps == {"think", "waitsLeft", "tries", "compares", "takes", "waitsRight",
          "gaveUp", "triesAgain", "comparesAgain", "tookTwice",
          "eats", "hasLeft", "hasRight"}

Waiting(p) == \/ pc[p] = "waitsLeft" /\ ~HasTurn(p, Left(p))
              \/ pc[p] = "waitsRight" /\ ~HasTurn(p, Right(p))

HasBoth(p) == pc[p] \in {"triesAgain", "comparesAgain", "tookTwice", "eats"}

Holds(p, fork) ==
    \/ fork = Left(p) /\ pc[p] \in {"tries", "compares", "takes", "waitsRight",
                                    "gaveUp", "hasLeft"}
    \/ fork = Right(p) /\ pc[p] = "hasRight"
    \/ fork \in {Left(p), Right(p)} /\ HasBoth(p)

InQueue(p, fork) ==
    \/ fork = Left(p) /\ pc[p] = "waitsLeft"
    \/ fork = Right(p) /\ pc[p] = "waitsRight"

(* Every ticket out is one philosopher's, who holds the fork or queues for *)
(* it: failed attempts leave none behind, and none is called twice.        *)
TypeOK ==
    /\ LockTypeOK
    /\ pc \in [Threads -> Steps]
    /\ \A f \in Locks :
         (next_free_ticket[f] + TicketRange - owner_ticket[f]) % TicketRange
             = Cardinality({p \in Threads : Holds(p, f) \/ InQueue(p, f)})

Init == LockInit /\ pc = [p \in Threads |-> "think"]

Goto(p, from, to) == pc[p] = from /\ pc' = [pc EXCEPT ![p] = to]

(* left_fork_.Lock(), the fetch_add and the end of the spinning. *)
LocksLeft(p) == Goto(p, "think", "waitsLeft") /\ TakeTicket(p, Left(p))

GetsLeft(p) ==
    /\ HasTurn(p, Left(p))
    /\ Goto(p, "waitsLeft", "tries")
    /\ Return(p)

(* right_fork_.TryLock() *)
Tries(p) == Goto(p, "tries", "compares") /\ LoadOne(p, Right(p))

(* Mutant of SeesBusy: TryLock takes its ticket before it looks. *)
SeesBusyKeepsTicket(p) ==
    /\ ~LooksFree(p, Right(p))
    /\ Goto(p, "compares", "gaveUp")
    /\ TakeTicket(p, Right(p))

SeesBusy(p) ==
    /\ ~LooksFree(p, Right(p))
    /\ Goto(p, "compares", "gaveUp")
    /\ Return(p)

SeesFree(p) ==
    /\ LooksFree(p, Right(p))
    /\ Goto(p, "compares", "takes")
    /\ UNCHANGED lockVars

(* Mutant of TriesLock: TryLock returns true at once. *)
TriesLockNotAtAll(p) == Goto(p, "takes", "triesAgain") /\ UNCHANGED lockVars

(* Lock inside TryLock. *)
TriesLock(p) == Goto(p, "takes", "waitsRight") /\ TakeTicket(p, Right(p))

GetsRight(p) ==
    /\ HasTurn(p, Right(p))
    /\ Goto(p, "waitsRight", "triesAgain")
    /\ Return(p)

(* ASSERT_FALSE(right_fork_.TryLock()) *)
TriesAgain(p) == Goto(p, "triesAgain", "comparesAgain") /\ LoadOne(p, Right(p))

AssertsFalse(p) ==
    /\ Goto(p, "comparesAgain", IF LooksFree(p, Right(p)) THEN "tookTwice" ELSE "eats")
    /\ Return(p)

(* left_fork_.Unlock() after a failed TryLock; the loop starts over. *)
GivesUp(p) == Goto(p, "gaveUp", "think") /\ Unlock(Left(p))

(* ReleaseForks tosses a coin for the order. *)
ReleasesOne(p) ==
    \/ Goto(p, "eats", "hasRight") /\ Unlock(Left(p))
    \/ Goto(p, "eats", "hasLeft") /\ Unlock(Right(p))

ReleasesLast(p) ==
    \/ Goto(p, "hasLeft", "think") /\ Unlock(Left(p))
    \/ Goto(p, "hasRight", "think") /\ Unlock(Right(p))

Continue(p) ==
    \/ GetsLeft(p) \/ Tries(p) \/ SeesBusy(p) \/ SeesFree(p)
    \/ TriesLock(p) \/ GetsRight(p) \/ TriesAgain(p) \/ AssertsFalse(p)
    \/ GivesUp(p) \/ ReleasesOne(p) \/ ReleasesLast(p)

Next == \E p \in Threads : LocksLeft(p) \/ Continue(p)

Spec == Init /\ [][Next]_vars

(* A philosopher that has begun to take its forks keeps running. *)
FairSpec == Spec /\ \A p \in Threads : WF_vars(Continue(p))

----------------------------------------------------------------------------
(* A fork is handed out once, by whichever of Lock and TryLock: it has one *)
(* holder, and a TryLock of its holder fails whatever the neighbours do    *)
(* between the two loads (try-lock/readme.md:10-12, and the ASSERT_FALSE   *)
(* of tests/stress.cpp:138).                                               *)
ForksExclusive ==
    /\ \A p, q \in Threads, f \in Locks : Holds(p, f) /\ Holds(q, f) => p = q
    /\ \A p \in Threads : pc[p] # "tookTwice"

(* Failed attempts leave nobody waiting forever (try-lock/readme.md:16).   *)
WaitersServed == \A p \in Threads : Waiting(p) ~> ~Waiting(p)

(* TryLock takes a free lock or returns false, without waiting             *)
(* (try-lock/readme.md:7-8).                                               *)
TryLockNeverWaits ==
    \A p \in Threads : pc[p] = "waitsRight" => HasTurn(p, Right(p))
=============================================================================
