---------------------------- MODULE BoundedQueue ----------------------------
(***************************************************************************)
(* What a bounded blocking queue promises: items leave in the order they   *)
(* came, each once; no more than Capacity are inside; a Put that waits     *)
(* while there is room is not the reason that nothing happens, nor is a    *)
(* Take while there is an item.  BlockingQueue.tla and CondVarQueue.tla    *)
(* implement this specification.                                           *)
(***************************************************************************)
EXTENDS Naturals, Sequences

CONSTANTS Producers, Consumers, Values, NoValue, Capacity

VARIABLES
    items,          \* the queue, oldest first
    mode,           \* each thread: idle, waiting inside its call, served
    value           \* what a Put brings, what a Take returns

vars == <<items, mode, value>>
Threads == Producers \cup Consumers

Init ==
    /\ items = <<>>
    /\ mode = [t \in Threads |-> "idle"]
    /\ value = [t \in Threads |-> NoValue]

CallPut(p) ==
    /\ mode[p] = "idle"
    /\ mode' = [mode EXCEPT ![p] = "waiting"]
    /\ \E v \in Values : value' = [value EXCEPT ![p] = v]
    /\ UNCHANGED items

CallTake(c) ==
    /\ mode[c] = "idle"
    /\ mode' = [mode EXCEPT ![c] = "waiting"]
    /\ UNCHANGED <<items, value>>

Accept(p) ==
    /\ mode[p] = "waiting" /\ Len(items) < Capacity
    /\ items' = Append(items, value[p])
    /\ mode' = [mode EXCEPT ![p] = "served"]
    /\ value' = [value EXCEPT ![p] = NoValue]

Deliver(c) ==
    /\ mode[c] = "waiting" /\ items # <<>>
    /\ value' = [value EXCEPT ![c] = Head(items)]
    /\ items' = Tail(items)
    /\ mode' = [mode EXCEPT ![c] = "served"]

Return(t) ==
    /\ mode[t] = "served"
    /\ mode' = [mode EXCEPT ![t] = "idle"]
    /\ value' = [value EXCEPT ![t] = NoValue]
    /\ UNCHANGED items

Next ==
    \/ \E p \in Producers : CallPut(p) \/ Accept(p)
    \/ \E c \in Consumers : CallTake(c) \/ Deliver(c)
    \/ \E t \in Threads : Return(t)

Spec == Init /\ [][Next]_vars

FairSpec ==
    /\ Spec
    /\ WF_vars(\E p \in Producers : Accept(p))
    /\ WF_vars(\E c \in Consumers : Deliver(c))
    /\ \A t \in Threads : WF_vars(Return(t))
=============================================================================
