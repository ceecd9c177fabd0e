--------------------------- MODULE CountingTasks ----------------------------
(***************************************************************************)
(* tp::CountingTasks of condvar/thread-pool/tp/helpers.hpp, a counter of   *)
(* unfinished tasks that threads wait on.  Nothing in the task uses it;    *)
(* here some threads begin and end tasks, and others wait for none to be   *)
(* left.  Every method holds mutex_, so each is one step except where      *)
(* WaitForNoTasks waits; the condition variable is the set of its waiters. *)
(***************************************************************************)
EXTENDS Integers, FiniteSets

CONSTANTS
    Runners, Awaiters,  \* the threads that run tasks, and that wait
    MaxRunning          \* a bound on the unfinished tasks of each runner

ASSUME CountingAssumption == IsFiniteSet(Runners) /\ MaxRunning \in Nat

VARIABLES
    tasks_counter,
    no_tasks,           \* the threads waiting in no_tasks_
    running,            \* history: the unfinished tasks of each runner
    inside              \* the threads inside WaitForNoTasks

countingVars == <<tasks_counter, no_tasks, running, inside>>

CountingInit ==
    /\ tasks_counter = 0 /\ no_tasks = {}
    /\ running = [r \in Runners |-> 0] /\ inside = {}

Increase(r) ==
    /\ running[r] < MaxRunning
    /\ running' = [running EXCEPT ![r] = @ + 1]
    /\ tasks_counter' = tasks_counter + 1
    /\ UNCHANGED <<no_tasks, inside>>

(* Mutant of DecreaseAndCheck: notify_one in place of notify_all. *)
DecreaseAndCheckOne(r) ==
    /\ running[r] > 0
    /\ running' = [running EXCEPT ![r] = @ - 1]
    /\ tasks_counter' = tasks_counter - 1
    /\ IF tasks_counter' = 0 /\ no_tasks # {}
       THEN \E t \in no_tasks : no_tasks' = no_tasks \ {t} ELSE UNCHANGED no_tasks
    /\ UNCHANGED inside

DecreaseAndCheck(r) ==
    /\ running[r] > 0
    /\ running' = [running EXCEPT ![r] = @ - 1]
    /\ tasks_counter' = tasks_counter - 1
    /\ no_tasks' = IF tasks_counter' = 0 THEN {} ELSE no_tasks
    /\ UNCHANGED inside

WaitCalled(t) ==
    /\ t \notin inside
    /\ inside' = inside \cup {t}
    /\ UNCHANGED <<tasks_counter, no_tasks, running>>

(* while (tasks_counter_ != 0), evaluated under the mutex. *)
WaitForNoTasks(t) ==
    /\ t \in inside \ no_tasks
    /\ \/ tasks_counter # 0 /\ no_tasks' = no_tasks \cup {t} /\ UNCHANGED inside
       \/ tasks_counter = 0 /\ inside' = inside \ {t} /\ UNCHANGED no_tasks
    /\ UNCHANGED <<tasks_counter, running>>

AwakesUnasked(t) ==
    /\ t \in no_tasks /\ no_tasks' = no_tasks \ {t}
    /\ UNCHANGED <<tasks_counter, running, inside>>

CountingNext ==
    \/ \E r \in Runners : Increase(r) \/ DecreaseAndCheck(r)
    \/ \E t \in Awaiters : WaitCalled(t) \/ WaitForNoTasks(t) \/ AwakesUnasked(t)

CountingSpec == CountingInit /\ [][CountingNext]_countingVars

----------------------------------------------------------------------------
(* Whoever waits for no tasks waits for a task: a thread asleep in         *)
(* WaitForNoTasks has a runner whose DecreaseAndCheck will wake it, however *)
(* the tasks of several runners and the calls of several waiters interleave *)
(* (helpers.hpp:19-32).                                                    *)
SleepersHaveATask == no_tasks # {} => \E r \in Runners : running[r] > 0
=============================================================================
