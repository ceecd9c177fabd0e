----------------------------- MODULE TicketLock -----------------------------
(***************************************************************************)
(* solutions::TicketLock of mutex/try-lock/ticket_lock.hpp: a queue of     *)
(* tickets, and a TryLock that looks first and then calls Lock.  The       *)
(* operators are steps of the methods; ForksTable.tla composes them with   *)
(* the threads that call them.                                             *)
(***************************************************************************)
EXTENDS Naturals

CONSTANTS
    Threads, Locks,
    TicketRange     \* Ticket is a size_t: it wraps at this value

VARIABLES
    next_free_ticket, owner_ticket, \* the two counters of each lock
    ticket,         \* this_thread_ticket of each thread inside Lock
    seen            \* the counter TryLock has loaded, and its value

lockVars == <<next_free_ticket, owner_ticket, ticket, seen>>

Tickets == 0..(TicketRange - 1)
Counters == {"next_free", "owner"}
Nothing == [counter |-> "owner", value |-> 0]

LockTypeOK ==
    /\ next_free_ticket \in [Locks -> Tickets]
    /\ owner_ticket \in [Locks -> Tickets]
    /\ ticket \in [Threads -> Tickets]
    /\ seen \in [Threads -> [counter : Counters, value : Tickets]]

LockInit ==
    /\ next_free_ticket = [l \in Locks |-> 0]
    /\ owner_ticket = [l \in Locks |-> 0]
    /\ ticket = [t \in Threads |-> 0]
    /\ seen = [t \in Threads |-> Nothing]

(* fetch_add(1) *)
Succ(n) == (n + 1) % TicketRange

TakeTicket(t, l) ==
    /\ ticket' = [ticket EXCEPT ![t] = next_free_ticket[l]]
    /\ next_free_ticket' = [next_free_ticket EXCEPT ![l] = Succ(@)]
    /\ seen' = [seen EXCEPT ![t] = Nothing]
    /\ UNCHANGED owner_ticket

(* The condition that ends Lock's spinning. *)
HasTurn(t, l) == ticket[t] = owner_ticket[l]

(* Lock and TryLock return; their locals are gone. *)
Return(t) ==
    /\ ticket' = [ticket EXCEPT ![t] = 0]
    /\ seen' = [seen EXCEPT ![t] = Nothing]
    /\ UNCHANGED <<next_free_ticket, owner_ticket>>

Value(counter, l) ==
    IF counter = "owner" THEN owner_ticket[l] ELSE next_free_ticket[l]

(* The two loads of TryLock, in the order the compiler chose: C++ leaves   *)
(* the order of the operands of == open.                                   *)
LoadOne(t, l) ==
    /\ \E c \in Counters : seen' = [seen EXCEPT ![t] = [counter |-> c, value |-> Value(c, l)]]
    /\ UNCHANGED <<next_free_ticket, owner_ticket, ticket>>

(* The other load and the comparison. *)
LooksFree(t, l) ==
    \E other \in Counters \ {seen[t].counter} : Value(other, l) = seen[t].value

Unlock(l) ==
    /\ owner_ticket' = [owner_ticket EXCEPT ![l] = Succ(@)]
    /\ UNCHANGED <<next_free_ticket, ticket, seen>>
=============================================================================
