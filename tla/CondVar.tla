------------------------------ MODULE CondVar -------------------------------
(***************************************************************************)
(* stdlike::CondVar of condvar/condvar/condvar.hpp, for a set of them: a   *)
(* counter of notifications that is also the futex its waiters park on.    *)
(* One step is one access of the counter or one futex call.                *)
(* CondVarQueue.tla composes two condition variables with a mutex, and     *)
(* Robot.tla one.                                                          *)
(***************************************************************************)
EXTENDS Naturals

CONSTANTS
    CondVars,
    Waiters,        \* the threads that call Wait
    CounterRange,   \* the counter wraps here: 2^32 in the code
    Unseen          \* not a counter value

VARIABLES
    futex,          \* futex_ of each condition variable
    seen,           \* old_signal_count of each thread inside Wait
    parked          \* the threads parked on each futex

condVars == <<futex, seen, parked>>

CondVarTypeOK ==
    /\ futex \in [CondVars -> 0..CounterRange - 1]
    /\ seen \in [CondVars -> [Waiters -> 0..CounterRange - 1 \cup {Unseen}]]
    /\ parked \in [CondVars -> SUBSET Waiters]

CondVarInit ==
    /\ futex = [cv \in CondVars |-> 0]
    /\ seen = [cv \in CondVars |-> [t \in Waiters |-> Unseen]]
    /\ parked = [cv \in CondVars |-> {}]

(* Wait: the load of the counter, before the mutex is released ... *)
Load(cv, t) ==
    /\ seen' = [seen EXCEPT ![cv][t] = futex[cv]]
    /\ UNCHANGED <<futex, parked>>

(* Mutant of FutexWait: the kernel does not compare. *)
FutexWaitUnchecked(cv, t) ==
    /\ parked' = [parked EXCEPT ![cv] = @ \cup {t}]
    /\ seen' = [seen EXCEPT ![cv][t] = Unseen]
    /\ UNCHANGED futex

(* ... and FutexWait(old_signal_count), after it. *)
FutexWait(cv, t) ==
    /\ parked' = IF futex[cv] = seen[cv][t]
                   THEN [parked EXCEPT ![cv] = @ \cup {t}] ELSE parked
    /\ seen' = [seen EXCEPT ![cv][t] = Unseen]
    /\ UNCHANGED futex

SpuriousReturn(cv, t) ==
    /\ t \in parked[cv]
    /\ parked' = [parked EXCEPT ![cv] = @ \ {t}]
    /\ UNCHANGED <<futex, seen>>

(* The bound on notifications: fewer than CounterRange of them between the *)
(* load and the futex call of one Wait.                                    *)
Laps(cv) == \E t \in Waiters : seen[cv][t] = (futex[cv] + 1) % CounterRange

(* Mutant of FetchAdd: NotifyOne only wakes. *)
AddForgotten(cv) == cv \in CondVars /\ UNCHANGED condVars

(* NotifyOne: futex_.fetch_add(1) ... *)
FetchAdd(cv) ==
    /\ ~Laps(cv)
    /\ futex' = [futex EXCEPT ![cv] = (@ + 1) % CounterRange]
    /\ UNCHANGED <<seen, parked>>

(* ... and FutexWakeOne(): one parked thread, whichever. *)
FutexWakeOne(cv) ==
    /\ \/ parked[cv] = {} /\ UNCHANGED parked
       \/ \E t \in parked[cv] : parked' = [parked EXCEPT ![cv] = @ \ {t}]
    /\ UNCHANGED <<futex, seen>>

(* Mutant of FutexWakeAll: it wakes nobody. *)
FutexWakeNobody(cv) == cv \in CondVars /\ UNCHANGED condVars

(* NotifyAll: the same fetch_add, and FutexWakeAll(). *)
FutexWakeAll(cv) ==
    /\ parked' = [parked EXCEPT ![cv] = {}]
    /\ UNCHANGED <<futex, seen>>
=============================================================================
