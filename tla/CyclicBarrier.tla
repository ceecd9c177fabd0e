--------------------------- MODULE CyclicBarrier ----------------------------
(***************************************************************************)
(* solutions::CyclicBarrier of condvar/barrier/cyclic_barrier.hpp.  Arrive *)
(* is DerivedPhase followed by DepartedPhase; each takes mutex_ and either *)
(* is the last one and opens (closes) the barrier, or waits in a condition *)
(* variable for the flag.  A phase up to its wait is one step, and so is   *)
(* the evaluation of the predicate after a wakeup.                         *)
(***************************************************************************)
EXTENDS Naturals, FiniteSets

CONSTANTS
    Participants,   \* the threads that share the barrier
    Rounds          \* a bound on the calls of Arrive per thread

ASSUME BarrierAssumption == IsFiniteSet(Participants) /\ Rounds \in Nat

participants == Cardinality(Participants)       \* participants_

VARIABLES
    counter,        \* counter_
    isOpen,         \* is_open_flag
    openWaiters,    \* threads waiting in is_open_
    closeWaiters,   \* threads waiting in is_close_
    pc,             \* where each thread stands in Arrive
    arrived,        \* history: calls of Arrive begun ...
    returned        \* ... and returned from, per thread

vars == <<counter, isOpen, openWaiters, closeWaiters, pc, arrived, returned>>

Steps == {"out", "opening", "between", "closing"}

(* The counter stays between 0 and participants_, although it is a size_t  *)
(* decremented without a check, and only threads inside a wait are in the  *)
(* condition variables.                                                    *)
TypeOK ==
    /\ counter \in 0..participants
    /\ isOpen \in BOOLEAN
    /\ pc \in [Participants -> Steps]
    /\ openWaiters \subseteq {p \in Participants : pc[p] = "opening"}
    /\ closeWaiters \subseteq {p \in Participants : pc[p] = "closing"}
    /\ arrived \in [Participants -> 0..Rounds]
    /\ returned \in [Participants -> 0..Rounds]

Init ==
    /\ counter = 0
    /\ isOpen = FALSE
    /\ openWaiters = {}
    /\ closeWaiters = {}
    /\ pc = [p \in Participants |-> "out"]
    /\ arrived = [p \in Participants |-> 0]
    /\ returned = [p \in Participants |-> 0]

Goto(p, step) == pc' = [pc EXCEPT ![p] = step]

CallsArrive(p) ==
    /\ pc[p] = "out"
    /\ arrived[p] < Rounds
    /\ arrived' = [arrived EXCEPT ![p] = @ + 1]
    /\ UNCHANGED returned

Returns(p) ==
    /\ Goto(p, "out")
    /\ returned' = [returned EXCEPT ![p] = @ + 1]
    /\ UNCHANGED arrived

----------------------------------------------------------------------------
(* DerivedPhase *)

(* Mutant of ArrivesLast: it wakes a single thread. *)
ArrivesLastWakesOne(p) ==
    /\ CallsArrive(p)
    /\ counter + 1 = participants
    /\ counter' = counter + 1
    /\ isOpen' = TRUE
    /\ openWaiters' \in {openWaiters \ {q} : q \in openWaiters}
    /\ Goto(p, "between")
    /\ UNCHANGED closeWaiters

(* ++counter_ == participants_: open the barrier and wake everybody. *)
ArrivesLast(p) ==
    /\ CallsArrive(p)
    /\ counter + 1 = participants
    /\ counter' = counter + 1
    /\ isOpen' = TRUE
    /\ openWaiters' = {}
    /\ Goto(p, "between")
    /\ UNCHANGED closeWaiters

(* Anybody else waits, unless the flag is up already. *)
ArrivesAndWaits(p) ==
    /\ CallsArrive(p)
    /\ counter + 1 # participants
    /\ counter' = counter + 1
    /\ IF isOpen THEN Goto(p, "between") /\ UNCHANGED openWaiters
                 ELSE Goto(p, "opening") /\ openWaiters' = openWaiters \cup {p}
    /\ UNCHANGED <<isOpen, closeWaiters>>

(* A woken thread evaluates the predicate of is_open_.wait again. *)
SeesOpen(p) ==
    /\ pc[p] = "opening" /\ p \notin openWaiters
    /\ IF isOpen THEN Goto(p, "between") /\ UNCHANGED openWaiters
                 ELSE openWaiters' = openWaiters \cup {p} /\ UNCHANGED pc
    /\ UNCHANGED <<counter, isOpen, closeWaiters, arrived, returned>>

----------------------------------------------------------------------------
(* DepartedPhase *)

(* Mutants of DepartsLast: one leaves the barrier open, one closes it when *)
(* the first thread departs.                                               *)
DepartsLastLeavesOpen(p) ==
    /\ pc[p] = "between"
    /\ counter - 1 = 0
    /\ counter' = counter - 1
    /\ isOpen' = isOpen
    /\ closeWaiters' = {}
    /\ Returns(p)
    /\ UNCHANGED openWaiters

DepartsFirstCloses(p) ==
    /\ pc[p] = "between"
    /\ counter' = counter - 1
    /\ isOpen' = FALSE
    /\ closeWaiters' = {}
    /\ Returns(p)
    /\ UNCHANGED openWaiters

(* --counter_ == 0: close the barrier and wake everybody. *)
DepartsLast(p) ==
    /\ pc[p] = "between"
    /\ counter - 1 = 0
    /\ counter' = counter - 1
    /\ isOpen' = FALSE
    /\ closeWaiters' = {}
    /\ Returns(p)
    /\ UNCHANGED openWaiters

DepartsAndWaits(p) ==
    /\ pc[p] = "between"
    /\ counter - 1 # 0
    /\ counter' = counter - 1
    /\ IF isOpen
         THEN /\ Goto(p, "closing")
              /\ closeWaiters' = closeWaiters \cup {p}
              /\ UNCHANGED <<arrived, returned>>
         ELSE Returns(p) /\ UNCHANGED closeWaiters
    /\ UNCHANGED <<isOpen, openWaiters>>

SeesClosed(p) ==
    /\ pc[p] = "closing" /\ p \notin closeWaiters
    /\ IF isOpen
         THEN /\ closeWaiters' = closeWaiters \cup {p}
              /\ UNCHANGED <<pc, arrived, returned>>
         ELSE Returns(p) /\ UNCHANGED closeWaiters
    /\ UNCHANGED <<counter, isOpen, openWaiters>>

(* Either wait may return without a notification. *)
SpuriousWakeup(p) ==
    /\ p \in openWaiters \cup closeWaiters
    /\ openWaiters' = openWaiters \ {p}
    /\ closeWaiters' = closeWaiters \ {p}
    /\ UNCHANGED <<counter, isOpen, pc, arrived, returned>>

----------------------------------------------------------------------------
Begin(p) == ArrivesLast(p) \/ ArrivesAndWaits(p)

Continue(p) == SeesOpen(p) \/ DepartsLast(p) \/ DepartsAndWaits(p) \/ SeesClosed(p)

Next == \E p \in Participants : Begin(p) \/ Continue(p) \/ SpuriousWakeup(p)

Spec == Init /\ [][Next]_vars

(* A thread inside Arrive that is awake goes on; nobody has to call Arrive. *)
FairSpec == Spec /\ \A p \in Participants : WF_vars(Continue(p))

----------------------------------------------------------------------------
(* The counter is the number of threads on their way to the opening, and   *)
(* while the barrier is open everybody is inside this one round: a fast    *)
(* thread cannot start the next round among threads still in this one      *)
(* (cyclic_barrier.hpp:34-56).                                             *)
OneRoundAtATime ==
    /\ counter = Cardinality({p \in Participants : pc[p] \in {"opening", "between"}})
    /\ isOpen => \A p \in Participants : pc[p] # "out"
    /\ \A p \in Participants : pc[p] = "between" => isOpen

(* Nobody sleeps through its round: once the flag has the value a thread   *)
(* waits for, the thread has been woken.                                   *)
NobodySleepsThrough ==
    /\ isOpen => openWaiters = {}
    /\ ~isOpen => closeWaiters = {}

(* The barrier implements the abstract one, liveness included              *)
(* (cyclic_barrier.hpp:27, condvar/barrier/readme.md).                     *)
Barrier == INSTANCE AbstractBarrier

ImplementsBarrier == Barrier!FairSpec
=============================================================================
