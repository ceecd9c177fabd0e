------------------------------ MODULE TaskLoop ------------------------------
(***************************************************************************)
(* The thread pool of fibers/mutex and fibers/channel, which those tasks   *)
(* use as it is: tasks submitted from outside and by tasks, and Join.      *)
(* Other threads than the one that joins submit as well, also too late.    *)
(***************************************************************************)
EXTENDS EventLoopPool, FiniteSets

CONSTANTS Tasks, NoTask

ASSUME TaskLoopAssumption == NoTask \notin Tasks \cup {"gone"} /\ "gone" \notin Tasks

VARIABLES
    task,       \* each worker's task, NoTask in the event loop, or "gone"
    submitted,  \* the tasks that have been submitted
    done,       \* the tasks that have run
    promised    \* history: those submitted before Join, or by a task

loopVars == <<poolVars, task, submitted, done, promised>>

TaskLoopInit ==
    /\ PoolInit
    /\ task = [w \in Workers |-> NoTask]
    /\ submitted = {} /\ done = {} /\ promised = {}

New(t) == t \in Tasks \ submitted /\ submitted' = submitted \cup {t}

(* Submit, on a thread outside the pool, before Join or meanwhile. *)
SubmitsOutside(t) ==
    /\ owner # "joined"
    /\ New(t) /\ Submit(t)
    /\ promised' = IF owner = "open" THEN promised \cup {t} ELSE promised
    /\ UNCHANGED <<task, done>>

(* Current()->Submit or Current()->SubmitContinuation, in a task *)
SubmitsInside(w, t) ==
    /\ task[w] \in Tasks
    /\ New(t) /\ (Submit(t) \/ SubmitContinuation(w, t))
    /\ promised' = promised \cup {t}
    /\ UNCHANGED <<task, done>>

TaskTaken(w) ==
    /\ task[w] = NoTask
    /\ TakeHandler
    /\ task' = [task EXCEPT ![w] = Head(ready)]
    /\ UNCHANGED <<submitted, done, promised>>

TaskReturns(w) ==
    /\ task[w] \in Tasks
    /\ done' = done \cup {task[w]}
    /\ task' = [task EXCEPT ![w] = NoTask]
    /\ FinishHandler(w)
    /\ UNCHANGED <<submitted, promised>>

LoopTaskThrows(w) ==
    /\ task[w] \in Tasks
    /\ HandlerThrows
    /\ UNCHANGED <<task, submitted, done, promised>>

WorkerLeaves(w) ==
    /\ stopped /\ task[w] = NoTask
    /\ task' = [task EXCEPT ![w] = "gone"]
    /\ UNCHANGED <<poolVars, submitted, done, promised>>

LoopJoin == JoinResetsGuard /\ UNCHANGED <<task, submitted, done, promised>>

LoopJoined ==
    /\ \A w \in Workers : task[w] = "gone"
    /\ JoinReturns
    /\ UNCHANGED <<task, submitted, done, promised>>

(* Workers take tasks, tasks end, and Join returns after the workers; the  *)
(* tasks are finitely many.  Nobody has to submit, to throw or to join.    *)
TaskLoopGoesOn ==
    /\ ~terminated
    /\ \/ LoopJoined
       \/ \E w \in Workers : TaskTaken(w) \/ TaskReturns(w) \/ WorkerLeaves(w)

TaskLoopNext ==
    \/ TaskLoopGoesOn
    \/ /\ ~terminated
       /\ \/ LoopJoin
          \/ \E w \in Workers : LoopTaskThrows(w)
          \/ \E t \in Tasks : SubmitsOutside(t) \/ \E w \in Workers : SubmitsInside(w, t)

TaskLoopSpec == TaskLoopInit /\ [][TaskLoopNext]_loopVars

----------------------------------------------------------------------------
(* When Join has returned, every task submitted before it was called, and  *)
(* every task that a task submitted, has run, however late.  A task that   *)
(* another thread submits while Join runs may run or not, and takes        *)
(* nothing from this promise (static_thread_pool.hpp:33-36).               *)
PromisedTasksRun == owner = "joined" => promised \subseteq done
=============================================================================
