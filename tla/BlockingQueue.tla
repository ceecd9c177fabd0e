--------------------------- MODULE BlockingQueue ----------------------------
(***************************************************************************)
(* solutions::BlockingQueue of condvar/semaphore/blocking_queue.hpp: a     *)
(* bounded queue out of three semaphores.  The threads are those of its    *)
(* stress test, producers that Put and consumers that Take without end.    *)
(***************************************************************************)
EXTENDS Semaphore, Sequences, FiniteSets

CONSTANTS Producers, Consumers, Values, NoValue, Capacity

ASSUME QueueAssumption ==
    /\ IsFiniteSet(Producers) /\ IsFiniteSet(Consumers)
    /\ Producers \cap Consumers = {}
    /\ NoValue \notin Values
    /\ Capacity \in Nat \ {0}
    /\ Semaphores = {"mutex", "is_empty", "is_full"}

VARIABLES
    buffer,         \* buffer_
    pc,             \* where each thread stands in Put or Take
    value           \* the value a Put brings, the result of a Take

vars == <<semVars, buffer, pc, value>>
Threads == Producers \cup Consumers

(* The places in Put and Take, named after the call that comes next. *)
Places == {"idle", "slot", "lock", "buffer", "unlock", "signal", "return"}

(* Types; no semaphore ever holds more permits than the code gave it.      *)
TypeOK ==
    /\ counter \in [Semaphores -> 0..Capacity] /\ counter["mutex"] <= 1
    /\ waiting \in [Semaphores -> SUBSET Threads]
    /\ buffer \in Seq(Values)
    /\ pc \in [Threads -> Places]
    /\ value \in [Threads -> Values \cup {NoValue}]

Init ==
    /\ SemInit([s \in Semaphores |-> CASE s = "mutex" -> 1
                                       [] s = "is_empty" -> 0
                                       [] s = "is_full" -> Capacity])
    /\ buffer = <<>>
    /\ pc = [t \in Threads |-> "idle"]
    /\ value = [t \in Threads |-> NoValue]

Goto(t, from, to) == pc[t] = from /\ pc' = [pc EXCEPT ![t] = to]

(* Acquire of semaphore s by t at a place, going on to the next place. *)
Acquires(t, s, from, to) ==
    \/ Goto(t, from, to) /\ AcquireTakes(s, t)
    \/ pc[t] = from /\ AcquireWaits(s, t) /\ UNCHANGED pc

Releases(t, s, from, to) == Goto(t, from, to) /\ Release(s)

----------------------------------------------------------------------------
(* Put *)

PutCalled(p) ==
    /\ Goto(p, "idle", "slot")
    /\ \E v \in Values : value' = [value EXCEPT ![p] = v]
    /\ UNCHANGED <<semVars, buffer>>

PutAcquiresSlot(p) == Acquires(p, "is_full", "slot", "lock") /\ UNCHANGED <<buffer, value>>

PutLocks(p) == Acquires(p, "mutex", "lock", "buffer") /\ UNCHANGED <<buffer, value>>

PutInserts(p) ==
    /\ Goto(p, "buffer", "unlock")
    /\ buffer' = Append(buffer, value[p])
    /\ value' = [value EXCEPT ![p] = NoValue]
    /\ UNCHANGED semVars

PutUnlocks(p) == Releases(p, "mutex", "unlock", "signal") /\ UNCHANGED <<buffer, value>>

PutSignals(p) == Releases(p, "is_empty", "signal", "idle") /\ UNCHANGED <<buffer, value>>

----------------------------------------------------------------------------
(* Take *)

TakeCalled(c) == Goto(c, "idle", "slot") /\ UNCHANGED <<semVars, buffer, value>>

TakeAcquiresItem(c) == Acquires(c, "is_empty", "slot", "lock") /\ UNCHANGED <<buffer, value>>

TakeLocks(c) == Acquires(c, "mutex", "lock", "buffer") /\ UNCHANGED <<buffer, value>>

(* Mutant of TakeRemoves: pop_front is forgotten. *)
TakePeeks(c) ==
    /\ Goto(c, "buffer", "unlock")
    /\ value' = [value EXCEPT ![c] = Head(buffer)]
    /\ UNCHANGED <<semVars, buffer>>

(* front() and pop_front(): a buffer without items would be undefined. *)
TakeRemoves(c) ==
    /\ Goto(c, "buffer", "unlock")
    /\ value' = [value EXCEPT ![c] = Head(buffer)]
    /\ buffer' = Tail(buffer)
    /\ UNCHANGED semVars

TakeUnlocks(c) == Releases(c, "mutex", "unlock", "signal") /\ UNCHANGED <<buffer, value>>

TakeSignals(c) == Releases(c, "is_full", "signal", "return") /\ UNCHANGED <<buffer, value>>

TakeReturns(c) ==
    /\ Goto(c, "return", "idle")
    /\ value' = [value EXCEPT ![c] = NoValue]
    /\ UNCHANGED <<semVars, buffer>>

----------------------------------------------------------------------------
Put(p) == \/ PutAcquiresSlot(p) \/ PutLocks(p) \/ PutInserts(p)
          \/ PutUnlocks(p) \/ PutSignals(p)

Take(c) == \/ TakeAcquiresItem(c) \/ TakeLocks(c) \/ TakeRemoves(c)
           \/ TakeUnlocks(c) \/ TakeSignals(c) \/ TakeReturns(c)

Wakes(t) ==
    /\ \E s \in Semaphores : SpuriousWakeup(s, t)
    /\ UNCHANGED <<buffer, pc, value>>

Next ==
    \/ \E p \in Producers : PutCalled(p) \/ Put(p)
    \/ \E c \in Consumers : TakeCalled(c) \/ Take(c)
    \/ \E t \in Threads : Wakes(t)

Spec == Init /\ [][Next]_vars

(* Threads inside a call run; nobody has to call, or to wake up unasked.   *)
FairSpec ==
    /\ Spec
    /\ \A p \in Producers : WF_vars(Put(p))
    /\ \A c \in Consumers : WF_vars(Take(c))

----------------------------------------------------------------------------
At(T, places) == Cardinality({t \in T : pc[t] \in places})

(* Permits are conserved (blocking_queue.hpp:24-47): every slot is free,   *)
(* held by a call or filled, every item is announced or about to be, and   *)
(* the mutex is held by one thread.  So the buffer never overflows and     *)
(* front() always finds an item.                                           *)
PermitsConserved ==
    /\ counter["is_full"] + Len(buffer) + At(Producers, {"lock", "buffer"})
         + At(Consumers, {"unlock", "signal"}) = Capacity
    /\ counter["is_empty"] + At(Producers, {"unlock", "signal"})
         + At(Consumers, {"lock", "buffer"}) = Len(buffer)
    /\ counter["mutex"] + At(Threads, {"buffer", "unlock"}) = 1

(* Nobody sleeps beside a permit (semaphore.hpp:35-40): while a thread     *)
(* waits for a semaphore, each of its permits has an awake thread that is  *)
(* about to acquire it.                                                    *)
Acquiring(s) ==
    IF s = "mutex" THEN {t \in Threads : pc[t] = "lock"}
    ELSE {t \in (IF s = "is_full" THEN Producers ELSE Consumers) : pc[t] = "slot"}

NobodyOversleeps ==
    \A s \in Semaphores :
        waiting[s] # {} => counter[s] <= Cardinality(Acquiring(s) \ waiting[s])

(* The queue implements the abstract one, its progress included: Put takes *)
(* effect when it inserts, Take when it removes (blocking_queue.hpp:22-36).*)
Served(t) ==
    IF t \in Producers THEN {"unlock", "signal"} ELSE {"unlock", "signal", "return"}

Queue == INSTANCE BoundedQueue WITH
    items <- buffer,
    mode <- [t \in Threads |-> IF pc[t] = "idle" THEN "idle"
                               ELSE IF pc[t] \in Served(t) THEN "served" ELSE "waiting"]

ImplementsQueue == Queue!FairSpec
=============================================================================
