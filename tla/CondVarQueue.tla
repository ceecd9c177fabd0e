---------------------------- MODULE CondVarQueue ----------------------------
(***************************************************************************)
(* The bounded queue of condvar/condvar/tests/stress.cpp, a monitor of one *)
(* mutex and two CondVars, under the producers and consumers of its test.  *)
(* It notifies with and without the mutex held.  A thread that holds the   *)
(* mutex does the accesses the mutex protects in one step.                 *)
(***************************************************************************)
EXTENDS CondVar, Sequences, FiniteSets

CONSTANTS Producers, Consumers, Values, NoValue, Capacity, Nobody

ASSUME CondVarQueueAssumption ==
    /\ IsFiniteSet(Producers) /\ IsFiniteSet(Consumers)
    /\ Producers \cap Consumers = {} /\ Waiters = Producers \cup Consumers
    /\ NoValue \notin Values /\ Nobody \notin Waiters
    /\ Capacity \in Nat \ {0}
    /\ CondVars = {"not_full", "not_empty"}
    /\ CounterRange \in Nat \ {0, 1} /\ Unseen \notin Nat

VARIABLES
    buffer,         \* buffer_
    holder,         \* who holds mutex_
    pc,             \* where each thread stands in Put or Take
    value           \* the value a Put brings, the result of a Take

vars == <<condVars, buffer, holder, pc, value>>

(* call: at the loop condition, mutex_ not held yet; unlock and sleep:     *)
(* inside Wait; add and wake: inside NotifyOne.                            *)
Places == {"idle", "call", "unlock", "sleep", "add", "wake", "leave", "return"}

(* Types, the capacity, and: who is parked stands at the loop condition,   *)
(* in the CondVar of its side, and who waits holds no mutex.               *)
TypeOK ==
    /\ CondVarTypeOK
    /\ buffer \in Seq(Values) /\ Len(buffer) <= Capacity
    /\ holder \in Waiters \cup {Nobody}
    /\ pc \in [Waiters -> Places]
    /\ value \in [Waiters -> Values \cup {NoValue}]
    /\ parked["not_full"] \subseteq {p \in Producers : pc[p] = "call"}
    /\ parked["not_empty"] \subseteq {c \in Consumers : pc[c] = "call"}
    /\ \A t \in Waiters : pc[t] \in {"call", "sleep", "return"} => holder # t

Init ==
    /\ CondVarInit
    /\ buffer = <<>>
    /\ holder = Nobody
    /\ pc = [t \in Waiters |-> "idle"]
    /\ value = [t \in Waiters |-> NoValue]

Goto(t, from, to) == pc[t] = from /\ pc' = [pc EXCEPT ![t] = to]

(* t locks mutex_ and evaluates the condition of its loop on cv. *)
Enters(t, cv, to) == holder = Nobody /\ t \notin parked[cv] /\ Goto(t, "call", to)

WaitsOn(t) == IF t \in Producers THEN "not_full" ELSE "not_empty"
Notifies(t) == IF t \in Producers THEN "not_empty" ELSE "not_full"

----------------------------------------------------------------------------
(* Put *)

PutCalled(p) ==
    /\ Goto(p, "idle", "call")
    /\ \E v \in Values : value' = [value EXCEPT ![p] = v]
    /\ UNCHANGED <<condVars, buffer, holder>>

PutWaits(p) ==
    /\ Len(buffer) = Capacity
    /\ Enters(p, "not_full", "unlock")
    /\ holder' = p
    /\ Load("not_full", p)
    /\ UNCHANGED <<buffer, value>>

(* Put inserts, and may release the mutex before it notifies. *)
PutInserts(p) ==
    /\ Len(buffer) # Capacity
    /\ Enters(p, "not_full", "add")
    /\ buffer' = Append(buffer, value[p])
    /\ value' = [value EXCEPT ![p] = NoValue]
    /\ holder' \in {p, Nobody}
    /\ UNCHANGED condVars

PutLeaves(p) ==
    /\ Goto(p, "leave", "idle")
    /\ holder' = IF holder = p THEN Nobody ELSE holder
    /\ UNCHANGED <<condVars, buffer, value>>

----------------------------------------------------------------------------
(* Take *)

TakeCalled(c) == Goto(c, "idle", "call") /\ UNCHANGED <<condVars, buffer, holder, value>>

TakeWaits(c) ==
    /\ buffer = <<>>
    /\ Enters(c, "not_empty", "unlock")
    /\ holder' = c
    /\ Load("not_empty", c)
    /\ UNCHANGED <<buffer, value>>

TakeFinds(c) ==
    /\ buffer # <<>>
    /\ Enters(c, "not_empty", "add")
    /\ holder' = c
    /\ UNCHANGED <<condVars, buffer, value>>

(* TakeLocked, after the notification, and the release of the mutex. *)
TakeRemoves(c) ==
    /\ Goto(c, "leave", "return")
    /\ value' = [value EXCEPT ![c] = Head(buffer)]
    /\ buffer' = Tail(buffer)
    /\ holder' = Nobody
    /\ UNCHANGED condVars

TakeReturns(c) ==
    /\ Goto(c, "return", "idle")
    /\ value' = [value EXCEPT ![c] = NoValue]
    /\ UNCHANGED <<condVars, buffer, holder>>

----------------------------------------------------------------------------
(* Wait and NotifyOne *)

Unlocks(t) ==
    /\ Goto(t, "unlock", "sleep")
    /\ holder' = Nobody
    /\ UNCHANGED <<condVars, buffer, value>>

Sleeps(t) ==
    /\ Goto(t, "sleep", "call")
    /\ FutexWait(WaitsOn(t), t)
    /\ UNCHANGED <<buffer, holder, value>>

Adds(t) ==
    /\ Goto(t, "add", "wake")
    /\ FetchAdd(Notifies(t))
    /\ UNCHANGED <<buffer, holder, value>>

Wakes(t) ==
    /\ Goto(t, "wake", "leave")
    /\ FutexWakeOne(Notifies(t))
    /\ UNCHANGED <<buffer, holder, value>>

Returns(t) ==
    /\ SpuriousReturn(WaitsOn(t), t)
    /\ UNCHANGED <<buffer, holder, pc, value>>

----------------------------------------------------------------------------
Put(p) == PutWaits(p) \/ PutInserts(p) \/ PutLeaves(p)

Take(c) == TakeWaits(c) \/ TakeFinds(c) \/ TakeRemoves(c) \/ TakeReturns(c)

Continue(t) ==
    \/ t \in Producers /\ Put(t)
    \/ t \in Consumers /\ Take(t)
    \/ Unlocks(t) \/ Sleeps(t) \/ Adds(t) \/ Wakes(t)

Next ==
    \/ \E p \in Producers : PutCalled(p)
    \/ \E c \in Consumers : TakeCalled(c)
    \/ \E t \in Waiters : Continue(t) \/ Returns(t)

Spec == Init /\ [][Next]_vars

(* Threads inside a call run, and mutex_ starves nobody: a thread that     *)
(* finds it free again and again takes it (spurious wakeups alone could    *)
(* keep it busy forever).  Nobody has to call, or to wake up unasked.      *)
FairSpec == Spec /\ \A t \in Waiters : SF_vars(Continue(t))

----------------------------------------------------------------------------
(* Nobody sleeps beside work (condvar.hpp:14-24, readme.md:20-25): while a *)
(* thread is parked, each item (each free slot) has a thread of the other  *)
(* side that is about to notify, or one of its own that is awake: at the   *)
(* loop condition, in a Wait that will not park, or done waiting.          *)
Awake(t) ==
    \/ pc[t] = "call" /\ t \notin parked[WaitsOn(t)]
    \/ pc[t] \in {"unlock", "sleep"} /\ seen[WaitsOn(t)][t] # futex[WaitsOn(t)]

NobodyOversleeps ==
    LET Count(T) == Cardinality(T)
    IN  /\ parked["not_empty"] # {} =>
             Len(buffer) <= Count({p \in Producers : pc[p] \in {"add", "wake"}})
                              + Count({c \in Consumers : Awake(c) \/ pc[c] \in {"add", "wake", "leave"}})
        /\ parked["not_full"] # {} =>
             Capacity - Len(buffer) <= Count({p \in Producers : Awake(p)})

(* The queue implements the abstract one, its progress included            *)
(* (stress.cpp:90-122): no notification that matters is lost.              *)
Served(t) == IF t \in Producers THEN {"add", "wake", "leave"} ELSE {"return"}

Queue == INSTANCE BoundedQueue WITH
    items <- buffer,
    mode <- [t \in Waiters |-> IF pc[t] = "idle" THEN "idle"
                               ELSE IF pc[t] \in Served(t) THEN "served" ELSE "waiting"]

ImplementsQueue == Queue!FairSpec
=============================================================================
