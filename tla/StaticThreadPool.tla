-------------------------- MODULE StaticThreadPool --------------------------
(***************************************************************************)
(* tp::StaticThreadPool of condvar/thread-pool/tp/static_thread_pool.cpp,  *)
(* composed with its task queue.  The actors are the worker threads (which *)
(* also run the tasks' own calls of Submit), the client threads that       *)
(* submit from outside, and the owner, which calls Join or Shutdown once   *)
(* (condvar/thread-pool/readme.md:59-61) and then destroys the pool.       *)
(* Each access of the atomic counter and each queue method is one step.    *)
(***************************************************************************)
EXTENDS UnboundedBlockingQueue, FiniteSets

CONSTANTS
    Clients,    \* threads outside the pool that call Submit
    Tasks,      \* the task objects ever submitted
    NoTask,     \* no task
    Spawns      \* Spawns[s]: the tasks that client or task s may submit

Workers == Takers
Submitters == Clients \cup Tasks

ASSUME PoolAssumption ==
    /\ Workers # {} /\ IsFiniteSet(Workers)
    /\ IsFiniteSet(Tasks)
    /\ NoTask \notin Tasks
    /\ Clients \cap Tasks = {}
    /\ Spawns \in [Submitters -> SUBSET Tasks]

VARIABLES
    counter,    \* planned_work_counter_
    pc,         \* where each worker stands in Work
    current,    \* the task each worker has taken
    pending,    \* the task whose Submit is between ++counter and Put
    owner,      \* where the owner stands in Join, Shutdown or ~StaticThreadPool
    status,     \* history: what has become of each task
    early       \* history: the tasks that Join promises to run

poolVars == <<counter, pc, current, pending, owner, status, early>>
vars == <<queueVars, poolVars>>

WorkerSteps == {"take", "run", "decrement", "notify", "exited"}
JoinSteps == {"check", "futex", "parked", "close", "joining", "joined"}
ShutdownSteps == {"cancel", "awaiting", "reset", "shutdown"}
OwnerSteps == {"open", "destroyed", "aborted"} \cup JoinSteps \cup ShutdownSteps
Statuses == {"new", "counted", "queued", "running", "finished", "done",
             "ignored", "discarded"}

(* The fields have their types; in particular the counter, an uint32_t,    *)
(* never wraps below zero and never exceeds the number of tasks.           *)
TypeOK ==
    /\ queue \in Seq(Tasks)
    /\ isClosed \in BOOLEAN
    /\ waiting \subseteq Workers
    /\ counter \in 0..Cardinality(Tasks)
    /\ pc \in [Workers -> WorkerSteps]
    /\ current \in [Workers -> Tasks \cup {NoTask}]
    /\ pending \in [Submitters -> Tasks \cup {NoTask}]
    /\ owner \in OwnerSteps
    /\ status \in [Tasks -> Statuses]
    /\ early \subseteq Tasks

Init ==
    /\ QueueInit
    /\ counter = 0
    /\ pc = [w \in Workers |-> "take"]
    /\ current = [w \in Workers |-> NoTask]
    /\ pending = [s \in Submitters |-> NoTask]
    /\ owner = "open"
    /\ status = [x \in Tasks |-> "new"]
    /\ early = {}

Mark(x, s) == status' = [status EXCEPT ![x] = s]

----------------------------------------------------------------------------
(* Submit, called by a client, or by a task while a worker runs it *)

MaySubmit(s) ==
    /\ pending[s] = NoTask
    /\ IF s \in Tasks THEN status[s] = "running"
                      ELSE owner \notin {"destroyed", "aborted"}

(* planned_work_counter_++ comes first ... *)
SubmitCounts(s) ==
    /\ MaySubmit(s)
    /\ \E x \in Spawns[s] :
         /\ status[x] = "new"
         /\ counter' = counter + 1
         /\ pending' = [pending EXCEPT ![s] = x]
         /\ Mark(x, "counted")
    /\ UNCHANGED <<queueVars, pc, current, owner, early>>

(* What a task promised to Join submits is promised too. *)
PromiseFrom(s) ==
    early' = IF s \in early THEN early \cup {pending[s]} ELSE early

(* ... then tasks_.Put, whose result Submit ignores. *)
SubmitPuts(s) ==
    /\ pending[s] # NoTask
    /\ \/ PutAccepted(pending[s]) /\ Mark(pending[s], "queued")
       \/ PutRefused /\ Mark(pending[s], "ignored")
    /\ pending' = [pending EXCEPT ![s] = NoTask]
    /\ PromiseFrom(s)
    /\ UNCHANGED <<counter, pc, current, owner>>

----------------------------------------------------------------------------
(* Work *)

WorkerTakes(w) ==
    /\ pc[w] = "take"
    /\ TakeReturns(w)
    /\ pc' = [pc EXCEPT ![w] = "run"]
    /\ current' = [current EXCEPT ![w] = Head(queue)]
    /\ Mark(Head(queue), "running")
    /\ UNCHANGED <<counter, pending, owner, early>>

WorkerWaits(w) ==
    /\ pc[w] = "take"
    /\ TakeWaits(w)
    /\ UNCHANGED poolVars

WorkerExits(w) ==
    /\ pc[w] = "take"
    /\ TakeReturnsNothing(w)
    /\ pc' = [pc EXCEPT ![w] = "exited"]
    /\ UNCHANGED <<counter, current, pending, owner, status, early>>

WorkerWakesSpuriously(w) == SpuriousWakeup(w) /\ UNCHANGED poolVars

(* Mutant of TaskEnds: a task that throws skips the decrement. *)
TaskThrowsPastDecrement(w) ==
    /\ pc[w] = "run"
    /\ pending[current[w]] = NoTask
    /\ pc' = [pc EXCEPT ![w] = "take"]
    /\ current' = [current EXCEPT ![w] = NoTask]
    /\ Mark(current[w], "done")
    /\ UNCHANGED <<queueVars, counter, pending, owner, early>>

(* ExecuteHere returns when the task returns or throws, at any point of    *)
(* its body that is not inside a Submit.                                   *)
TaskEnds(w) ==
    /\ pc[w] = "run"
    /\ pending[current[w]] = NoTask
    /\ pc' = [pc EXCEPT ![w] = "decrement"]
    /\ Mark(current[w], "finished")
    /\ UNCHANGED <<queueVars, counter, current, pending, owner, early>>

(* --planned_work_counter_; the thread that brings it to 0 notifies. *)
WorkerDecrements(w) ==
    /\ pc[w] = "decrement"
    /\ counter' = counter - 1
    /\ pc' = [pc EXCEPT ![w] = IF counter = 1 THEN "notify" ELSE "take"]
    /\ current' = [current EXCEPT ![w] = NoTask]
    /\ Mark(current[w], "done")
    /\ UNCHANGED <<queueVars, pending, owner, early>>

(* planned_work_counter_.notify_one() wakes the owner if it is parked. *)
WorkerNotifies(w) ==
    /\ pc[w] = "notify"
    /\ pc' = [pc EXCEPT ![w] = "take"]
    /\ owner' = IF owner = "parked" THEN "check" ELSE owner
    /\ UNCHANGED <<queueVars, counter, current, pending, status, early>>

----------------------------------------------------------------------------
(* Join *)

OwnerGoes(from, to) ==
    /\ owner = from
    /\ owner' = to

(* Join promises to run every task that is in the queue or further. *)
JoinCalled ==
    /\ OwnerGoes("open", "check")
    /\ early' = {x \in Tasks : status[x] \notin {"new", "counted"}}
    /\ UNCHANGED <<queueVars, counter, pc, current, pending, status>>

(* while (planned_work_counter_ != 0) *)
JoinChecks ==
    /\ OwnerGoes("check", IF counter = 0 THEN "close" ELSE "futex")
    /\ UNCHANGED <<queueVars, counter, pc, current, pending, status, early>>

(* planned_work_counter_.FutexWait(0): the system call parks the thread if *)
(* the counter IS 0 and returns at once if it is not.                      *)
JoinFutexWait ==
    /\ OwnerGoes("futex", IF counter = 0 THEN "parked" ELSE "check")
    /\ UNCHANGED <<queueVars, counter, pc, current, pending, status, early>>

(* Mutant of JoinCloses: Join discards what is queued, as Shutdown does. *)
JoinCancels ==
    /\ OwnerGoes("close", "joining")
    /\ Cancel
    /\ UNCHANGED <<counter, pc, current, pending, status, early>>

JoinCloses ==
    /\ OwnerGoes("close", "joining")
    /\ Close
    /\ UNCHANGED <<counter, pc, current, pending, status, early>>

(* for (auto& worker : workers_) worker.join() *)
AllExited == \A w \in Workers : pc[w] = "exited"

JoinReturns ==
    /\ OwnerGoes("joining", "joined")
    /\ AllExited
    /\ UNCHANGED <<queueVars, counter, pc, current, pending, status, early>>

----------------------------------------------------------------------------
(* Shutdown and the destructor *)

ShutdownCalled ==
    /\ OwnerGoes("open", "cancel")
    /\ UNCHANGED <<queueVars, counter, pc, current, pending, status, early>>

ShutdownCancels ==
    /\ OwnerGoes("cancel", "awaiting")
    /\ Cancel
    /\ status' = [x \in Tasks |->
                    IF status[x] = "queued" THEN "discarded" ELSE status[x]]
    /\ UNCHANGED <<counter, pc, current, pending, early>>

ShutdownAwaits ==
    /\ OwnerGoes("awaiting", "reset")
    /\ AllExited
    /\ UNCHANGED <<queueVars, counter, pc, current, pending, status, early>>

(* Mutant of ShutdownResets: the store is left out. *)
ShutdownKeepsCounter ==
    /\ OwnerGoes("reset", "shutdown")
    /\ UNCHANGED <<queueVars, counter, pc, current, pending, status, early>>

(* planned_work_counter_.store(0) *)
ShutdownResets ==
    /\ OwnerGoes("reset", "shutdown")
    /\ counter' = 0
    /\ UNCHANGED <<queueVars, pc, current, pending, status, early>>

(* The pool is destroyed once nobody is inside Submit; the destructor      *)
(* asserts that the counter is 0.                                          *)
Destroy ==
    /\ owner \in {"joined", "shutdown"}
    /\ \A s \in Submitters : pending[s] = NoTask
    /\ owner' = IF counter = 0 THEN "destroyed" ELSE "aborted"
    /\ UNCHANGED <<queueVars, counter, pc, current, pending, status, early>>

----------------------------------------------------------------------------
Submit(s) == SubmitCounts(s) \/ SubmitPuts(s)

WorkerStep(w) ==
    \/ WorkerTakes(w) \/ WorkerWaits(w) \/ WorkerExits(w)
    \/ TaskEnds(w) \/ WorkerDecrements(w) \/ WorkerNotifies(w)

JoinStep == JoinChecks \/ JoinFutexWait \/ JoinCloses \/ JoinReturns

ShutdownStep == ShutdownCancels \/ ShutdownAwaits \/ ShutdownResets

Next ==
    \/ \E s \in Submitters : Submit(s)
    \/ \E w \in Workers : WorkerStep(w) \/ WorkerWakesSpuriously(w)
    \/ JoinCalled \/ JoinStep
    \/ ShutdownCalled \/ ShutdownStep
    \/ Destroy

Spec == Init /\ [][Next]_vars

(* Threads run: a Submit in progress goes on, a task ends, a worker and    *)
(* the owner inside Join or Shutdown take their next step.  Nobody has to  *)
(* submit, to stop the pool or to destroy it.                              *)
Fairness ==
    /\ \A s \in Submitters : WF_vars(SubmitPuts(s))
    /\ \A w \in Workers : WF_vars(WorkerStep(w))
    /\ WF_vars(JoinStep)
    /\ WF_vars(ShutdownStep)

FairSpec == Spec /\ Fairness

----------------------------------------------------------------------------
(* No worker sleeps while there is more work than awake takers: every item *)
(* that Put pushed has its own woken taker, unless nobody sleeps           *)
(* (blocking_queue.hpp:19-22 and :31-33, over any run of Put and Take).    *)
WorkConserving ==
    waiting # {} =>
        Len(queue) <= Cardinality({w \in Workers \ waiting : pc[w] = "take"})

Counted == {x \in Tasks : status[x] \notin {"new", "done"}}

(* Until Shutdown resets it, the counter is the number of tasks submitted  *)
(* and not yet done, the refused and the discarded ones included           *)
(* (static_thread_pool.cpp:29, :60 and :48).                               *)
CounterAccounting ==
    owner \notin {"shutdown", "destroyed", "aborted"} =>
        counter = Cardinality(Counted)

(* When Join has returned, every task that reached the queue is done, and  *)
(* so is every task promised to Join: those accepted before the call and   *)
(* whatever they submitted in turn, which are never refused                *)
(* (condvar/thread-pool/readme.md:82-104, test SubmitAfterJoin).           *)
JoinCompletes ==
    owner = "joined" =>
        \A x \in Tasks :
            /\ status[x] \in {"new", "counted", "ignored", "done"}
            /\ x \in early => status[x] = "done"

(* Once Shutdown has cancelled the queue no further task starts, also none *)
(* submitted later (condvar/thread-pool/readme.md:108).                    *)
ShutdownDropsQueued ==
    [][ \A x \in Tasks :
          /\ owner \in {"awaiting", "reset", "shutdown"}
          /\ status'[x] = "running"
          => status[x] = "running" ]_vars

(* The destructor's assertion can fail only because of a Submit that came  *)
(* too late and was refused (static_thread_pool.cpp:25, :28-31).           *)
AbortsOnlyAfterRefusal ==
    owner = "aborted" => \E x \in Tasks : status[x] = "ignored"

(* Shutdown returns; Join, once it has seen the counter at 0, returns; and *)
(* before that it can get stuck only in its futex call.                    *)
StopCompletes ==
    /\ owner = "check" ~> owner \in {"parked", "joined"}
    /\ owner = "close" ~> owner = "joined"
    /\ owner = "cancel" ~> owner = "shutdown"

(* Join returns (static_thread_pool.hpp:24-26: "Waits until outstanding    *)
(* work count has reached 0 and joins worker threads").  The code violates *)
(* this: FutexWait(0) sleeps on the very value Join waits for.             *)
JoinAlwaysReturns == owner = "check" ~> owner = "joined"

(* assert(planned_work_counter_ == 0) of the destructor.  The code         *)
(* violates this: a Submit refused by the closed queue stays counted.      *)
DestructorAssert == owner # "aborted"
=============================================================================
