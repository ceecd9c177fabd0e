----------------------------- MODULE Semaphore ------------------------------
(***************************************************************************)
(* solutions::Semaphore of condvar/semaphore/semaphore.hpp, for a set of   *)
(* semaphores.  Acquire and Release hold mutex_ throughout, so each is one *)
(* step except where Acquire waits; the condition variable awailable_ is   *)
(* the set of the threads waiting in it, and a woken thread evaluates the  *)
(* loop condition again.  BlockingQueue.tla composes three semaphores.     *)
(***************************************************************************)
EXTENDS Naturals

CONSTANT Semaphores

VARIABLES
    counter,        \* counter_ of each semaphore
    waiting         \* the threads waiting in its awailable_

semVars == <<counter, waiting>>

SemInit(initial) ==
    /\ counter = initial
    /\ waiting = [s \in Semaphores |-> {}]

(* Acquire takes a permit, or waits while there is none. *)
AcquireTakes(s, t) ==
    /\ t \notin waiting[s] /\ counter[s] > 0
    /\ counter' = [counter EXCEPT ![s] = @ - 1]
    /\ UNCHANGED waiting

AcquireWaits(s, t) ==
    /\ t \notin waiting[s] /\ counter[s] = 0
    /\ waiting' = [waiting EXCEPT ![s] = @ \cup {t}]
    /\ UNCHANGED counter

SpuriousWakeup(s, t) ==
    /\ t \in waiting[s]
    /\ waiting' = [waiting EXCEPT ![s] = @ \ {t}]
    /\ UNCHANGED counter

(* awailable_.notify_one(): one waiting thread, whichever, wakes up. *)
NotifyOne(s) ==
    \/ waiting[s] = {} /\ UNCHANGED waiting
    \/ \E t \in waiting[s] : waiting' = [waiting EXCEPT ![s] = @ \ {t}]

(* Mutants of Release: notify only when the counter was 0; never notify.   *)
ReleaseNotifiesFirst(s) ==
    /\ counter' = [counter EXCEPT ![s] = @ + 1]
    /\ IF counter[s] = 0 THEN NotifyOne(s) ELSE UNCHANGED waiting

ReleaseSilently(s) ==
    /\ counter' = [counter EXCEPT ![s] = @ + 1]
    /\ UNCHANGED waiting

(* The test ++counter_ > 0 in Release is true unless the counter wraps.    *)
Release(s) ==
    /\ counter' = [counter EXCEPT ![s] = @ + 1]
    /\ NotifyOne(s)
=============================================================================
