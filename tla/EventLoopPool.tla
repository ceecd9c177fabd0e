--------------------------- MODULE EventLoopPool ----------------------------
(***************************************************************************)
(* mtf::tp::StaticThreadPool of coroutine/mtf/thread_pool: threads that    *)
(* run one asio::io_context.  asio::post queues a handler for any thread;  *)
(* asio::defer keeps it with the thread that runs the present handler and  *)
(* queues it when that handler has returned.  The io_context counts the    *)
(* work outstanding, the work guard included, and stops when there is none.*)
(***************************************************************************)
EXTENDS Naturals, Sequences, FiniteSets

CONSTANT Workers

(* A pool without threads would return from Join and leave its handlers.   *)
ASSUME EventLoopAssumption == IsFiniteSet(Workers) /\ Workers # {}

VARIABLES
    ready,          \* handlers any thread may run
    deferred,       \* per thread: handlers deferred by its present handler
    outstanding,    \* handlers queued or running, plus the work guard
    stopped,        \* the io_context has run out of work
    owner,          \* the thread that joins: open, joining, joined
    terminated      \* std::terminate has been called

poolVars == <<ready, deferred, outstanding, stopped, owner, terminated>>

PoolInit ==
    /\ ready = <<>>
    /\ deferred = [w \in Workers |-> <<>>]
    /\ outstanding = 1
    /\ stopped = FALSE
    /\ owner = "open"
    /\ terminated = FALSE

(* Submit: asio::post *)
Submit(x) ==
    /\ ready' = Append(ready, x)
    /\ outstanding' = outstanding + 1
    /\ UNCHANGED <<deferred, stopped, owner, terminated>>

(* Mutant of SubmitContinuation: post in place of defer. *)
SubmitContinuationPosts(w, x) == w \in Workers /\ Submit(x)

(* SubmitContinuation on a thread of the pool: asio::defer *)
SubmitContinuation(w, x) ==
    /\ deferred' = [deferred EXCEPT ![w] = Append(@, x)]
    /\ UNCHANGED <<ready, outstanding, stopped, owner, terminated>>

(* A thread in io_context::run takes the oldest handler. *)
TakeHandler ==
    /\ ~stopped /\ ready # <<>>
    /\ ready' = Tail(ready)
    /\ UNCHANGED <<deferred, outstanding, stopped, owner, terminated>>

(* The handler has returned: what it deferred is queued, its work is over. *)
FinishHandler(w) ==
    /\ ready' = ready \o deferred[w]
    /\ deferred' = [deferred EXCEPT ![w] = <<>>]
    /\ outstanding' = outstanding + Len(deferred[w]) - 1
    /\ stopped' = (outstanding' = 0)
    /\ UNCHANGED <<owner, terminated>>

(* An exception that leaves a handler leaves io_context::run and the       *)
(* function of the thread.                                                 *)
HandlerThrows ==
    /\ terminated' = TRUE
    /\ UNCHANGED <<ready, deferred, outstanding, stopped, owner>>

(* Mutants of JoinResetsGuard: Join stops the event loop; Join forgets the *)
(* work guard.                                                             *)
JoinStopsLoop ==
    /\ owner = "open"
    /\ owner' = "joining"
    /\ outstanding' = outstanding - 1
    /\ stopped' = TRUE
    /\ UNCHANGED <<ready, deferred, terminated>>

JoinKeepsGuard ==
    /\ owner = "open"
    /\ owner' = "joining"
    /\ UNCHANGED <<ready, deferred, outstanding, stopped, terminated>>

(* Join: work_guard_.reset() *)
JoinResetsGuard ==
    /\ owner = "open"
    /\ owner' = "joining"
    /\ outstanding' = outstanding - 1
    /\ stopped' = (outstanding' = 0)
    /\ UNCHANGED <<ready, deferred, terminated>>

(* ... and worker.join() of every worker, all of them gone. *)
JoinReturns ==
    /\ owner = "joining"
    /\ owner' = "joined"
    /\ UNCHANGED <<ready, deferred, outstanding, stopped, terminated>>

----------------------------------------------------------------------------
(* Join returns, however late tasks submit others, unless one throws       *)
(* (static_thread_pool.hpp:33-36).                                         *)
JoinEnds == owner = "joining" ~> owner = "joined" \/ terminated
=============================================================================
