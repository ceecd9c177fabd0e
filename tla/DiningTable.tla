---------------------------- MODULE DiningTable -----------------------------
(***************************************************************************)
(* The dining philosophers of intro/dining: forks that are mutexes,        *)
(* plates that two neighbours access, and seat 0 that takes its forks in   *)
(* the other order.  The mutexes are external and not fair: any waiting    *)
(* philosopher may get a fork that becomes free.                           *)
(***************************************************************************)
EXTENDS Naturals

CONSTANT TableSizes     \* the tables that are laid, by their seats

ASSUME TableSizesAssumption == TableSizes \subseteq Nat \ {0, 1}

VARIABLES
    num_seats,      \* the seats of this table
    forks,          \* who holds each fork: a seat, or num_seats for nobody
    step            \* where each philosopher stands

diningVars == <<num_seats, forks, step>>

Seated == 0..(num_seats - 1)

ToRight(seat) == (seat + 1) % num_seats
LeftFork(seat) == seat
RightFork(seat) == ToRight(seat)

DiningInit ==
    /\ num_seats \in TableSizes
    /\ forks = [f \in Seated |-> num_seats]
    /\ step = [p \in Seated |-> "think"]

(* The plate a philosopher accesses, his own first and then the one to his *)
(* right; num_seats while he accesses none.                                *)
AccessedPlate(p) ==
    CASE step[p] = "ownPlate" -> p
      [] step[p] = "rightPlate" -> ToRight(p)
      [] OTHER -> num_seats

Moves(p, from, to) ==
    /\ p \in Seated /\ step[p] = from
    /\ step' = [step EXCEPT ![p] = to]
    /\ UNCHANGED num_seats

LocksFork(p, f) == forks[f] = num_seats /\ forks' = [forks EXCEPT ![f] = p]

UnlocksFork(f) == forks' = [forks EXCEPT ![f] = num_seats]

(* Mutant of FirstFork: seat 0 is like the others. *)
FirstForkAlways(p) == RightFork(p)

(* AcquireForks: seat 0 begins on the left, the others on the right. *)
FirstFork(p) == IF p = 0 THEN LeftFork(p) ELSE RightFork(p)
SecondFork(p) == IF p = 0 THEN RightFork(p) ELSE LeftFork(p)

GetsHungry(p) == Moves(p, "think", "first") /\ UNCHANGED forks

LocksFirst(p) == Moves(p, "first", "second") /\ LocksFork(p, FirstFork(p))

(* Mutant of LocksSecond: the result of a try_lock is not looked at. *)
TriesSecond(p) ==
    /\ Moves(p, "second", "ownPlate")
    /\ LocksFork(p, SecondFork(p)) \/ UNCHANGED forks

LocksSecond(p) == Moves(p, "second", "ownPlate") /\ LocksFork(p, SecondFork(p))

(* Eat *)
AccessesRight(p) == Moves(p, "ownPlate", "rightPlate") /\ UNCHANGED forks
StopsEating(p) == Moves(p, "rightPlate", "full") /\ UNCHANGED forks

(* ReleaseForks *)
UnlocksRight(p) == Moves(p, "full", "leftOnly") /\ UnlocksFork(RightFork(p))
UnlocksLeft(p) == Moves(p, "leftOnly", "think") /\ UnlocksFork(LeftFork(p))

DiningContinue(p) ==
    \/ LocksFirst(p) \/ LocksSecond(p) \/ AccessesRight(p) \/ StopsEating(p)
    \/ UnlocksRight(p) \/ UnlocksLeft(p)

DiningNext == \E p \in Seated : GetsHungry(p) \/ DiningContinue(p)

DiningSpec == DiningInit /\ [][DiningNext]_diningVars

(* A philosopher whose next step is possible all the time takes it; nobody *)
(* is promised a fork, and nobody has to get hungry.                       *)
DiningFairness ==
    \A p \in UNION {0..(n - 1) : n \in TableSizes} : WF_diningVars(DiningContinue(p))

----------------------------------------------------------------------------
(* A plate has one philosopher at a time, although each accesses his       *)
(* neighbour's too: the data race Eat tries to provoke                     *)
(* (dining/philosopher.cpp:32-35).                                         *)
PlatesExclusive ==
    \A p, q \in Seated :
        p # q /\ AccessedPlate(p) # num_seats => AccessedPlate(p) # AccessedPlate(q)

(* Hungry philosophers never block each other for good: somebody eats,     *)
(* thanks to the odd order of seat 0 (dining/philosopher.cpp:22-30).       *)
SomebodyEats ==
    (\E p \in Seated : step[p] \in {"first", "second"})
        ~> (\E p \in Seated : step[p] = "ownPlate")
=============================================================================
