----------------------- MODULE UnboundedBlockingQueue -----------------------
(***************************************************************************)
(* tp::UnboundedBlockingQueue of condvar/thread-pool/tp/blocking_queue.hpp.*)
(* Every method holds mutex_ from its first to its last access of the      *)
(* fields, so a method that does not wait is one step; the condition       *)
(* variable is_empty_ is the set of threads waiting in it, and a woken     *)
(* thread evaluates the loop condition again under the mutex.              *)
(* StaticThreadPool.tla composes these operations with the pool's state.   *)
(***************************************************************************)
EXTENDS Naturals, Sequences

CONSTANT Takers         \* the threads that call Take

VARIABLES
    queue,              \* queue_
    isClosed,           \* is_closed_
    waiting             \* the threads waiting in is_empty_

queueVars == <<queue, isClosed, waiting>>

QueueInit ==
    /\ queue = <<>>
    /\ isClosed = FALSE
    /\ waiting = {}

(* is_empty_.notify_one(): one waiting thread, whichever, wakes up. *)
NotifyOne ==
    \/ waiting = {} /\ UNCHANGED waiting
    \/ \E c \in waiting : waiting' = waiting \ {c}

(* Mutant of PutAccepted: wake a taker only when the queue was empty. *)
PutNotifiesIfEmpty(x) ==
    /\ ~isClosed
    /\ queue' = Append(queue, x)
    /\ IF queue = <<>> THEN NotifyOne ELSE UNCHANGED waiting
    /\ UNCHANGED isClosed

(* Put on an open queue pushes and wakes one taker; it returns true. *)
PutAccepted(x) ==
    /\ ~isClosed
    /\ queue' = Append(queue, x)
    /\ NotifyOne
    /\ UNCHANGED isClosed

(* Put on a closed queue drops the value and returns false. *)
PutRefused == isClosed /\ UNCHANGED queueVars

(* Take waits while the queue is open and empty ... *)
TakeWaits(c) ==
    /\ c \notin waiting
    /\ ~isClosed /\ queue = <<>>
    /\ waiting' = waiting \cup {c}
    /\ UNCHANGED <<queue, isClosed>>

(* ... returns the oldest item of a queue that has one, closed or not ...  *)
TakeReturns(c) ==
    /\ c \notin waiting
    /\ queue # <<>>
    /\ queue' = Tail(queue)
    /\ UNCHANGED <<isClosed, waiting>>

(* ... and nullopt once the queue is closed and empty. *)
TakeReturnsNothing(c) ==
    /\ c \notin waiting
    /\ isClosed /\ queue = <<>>
    /\ UNCHANGED queueVars

(* wait may return without a notification (std::condition_variable). *)
SpuriousWakeup(c) ==
    /\ c \in waiting
    /\ waiting' = waiting \ {c}
    /\ UNCHANGED <<queue, isClosed>>

(* Mutants of CloseImpl: one wakes a single taker, one never clears. *)
CloseImplWakesOne(clear) ==
    /\ isClosed' = TRUE
    /\ queue' = IF clear THEN <<>> ELSE queue
    /\ NotifyOne

CloseImplKeepsItems(clear) ==
    /\ isClosed' = TRUE
    /\ waiting' = {}
    /\ UNCHANGED queue

CloseImpl(clear) ==
    /\ isClosed' = TRUE
    /\ queue' = IF clear THEN <<>> ELSE queue
    /\ waiting' = {}

Close == CloseImpl(FALSE)

Cancel == CloseImpl(TRUE)
=============================================================================
