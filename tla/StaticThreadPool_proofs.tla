----------------------- MODULE StaticThreadPool_proofs -----------------------
(***************************************************************************)
(* What StaticThreadPool.tla checks on a small instance, proved for every  *)
(* set of workers, clients and tasks.  The inductive invariant ties the    *)
(* history of every task to the place where it is: the queue, a worker's   *)
(* hands, or a Submit in progress; and the counter to those histories.     *)
(* At the end, the counter of CountingTasks.tla, which counts unfinished   *)
(* tasks as well, and nobody sleeps while it is 0.                         *)
(***************************************************************************)
EXTENDS StaticThreadPool, CountingTasks, FiniteSetTheorems, SequenceTheorems, TLAPS

TypeInv ==
    /\ queue \in Seq(Tasks)
    /\ isClosed \in BOOLEAN
    /\ waiting \subseteq Workers
    /\ counter \in Nat
    /\ pc \in [Workers -> WorkerSteps]
    /\ current \in [Workers -> Tasks \cup {NoTask}]
    /\ pending \in [Submitters -> Tasks \cup {NoTask}]
    /\ owner \in OwnerSteps
    /\ status \in [Tasks -> Statuses]
    /\ early \subseteq Tasks

(* The queue holds the queued tasks, each once. *)
QueueInv ==
    /\ \A i \in 1..Len(queue) : status[queue[i]] = "queued"
    /\ \A i, j \in 1..Len(queue) : queue[i] = queue[j] => i = j
    /\ \A x \in Tasks : status[x] = "queued" =>
         \E i \in 1..Len(queue) : queue[i] = x

(* A task is counted and not yet put exactly while one Submit has it, and  *)
(* a task inside Submit is running.                                        *)
PendingInv ==
    /\ \A s \in Submitters : pending[s] # NoTask => status[pending[s]] = "counted"
    /\ \A s, r \in Submitters :
         pending[s] # NoTask /\ pending[s] = pending[r] => s = r
    /\ \A x \in Tasks : pending[x] # NoTask => status[x] = "running"
    /\ \A x \in Tasks : status[x] = "counted" =>
         \E s \in Submitters : pending[s] = x

(* A worker has a task from Take to the decrement, and nobody else has it. *)
WorkerInv ==
    /\ \A w \in Workers : pc[w] = "run" =>
         current[w] # NoTask /\ status[current[w]] = "running"
    /\ \A w \in Workers : pc[w] = "decrement" =>
         current[w] # NoTask /\ status[current[w]] = "finished"
    /\ \A w \in Workers : pc[w] \notin {"run", "decrement"} => current[w] = NoTask
    /\ \A w, v \in Workers :
         current[w] # NoTask /\ current[w] = current[v] => w = v
    /\ \A x \in Tasks : status[x] \in {"running", "finished"} =>
         \E w \in Workers : current[w] = x

Closed == {"joining", "joined", "awaiting", "reset", "shutdown", "destroyed", "aborted"}
Stopped == {"joined", "reset", "shutdown", "destroyed", "aborted"}

(* The queue is closed by the owner alone; a worker leaves only a closed   *)
(* and empty queue, which stays so; a stopped pool has no worker left.     *)
OwnerInv ==
    /\ isClosed <=> owner \in Closed
    /\ \A w \in Workers : pc[w] = "exited" => isClosed /\ queue = <<>>
    /\ owner \in Stopped => AllExited
    /\ waiting \subseteq {w \in Workers : pc[w] = "take"}
    /\ \A x \in Tasks : status[x] = "ignored" => isClosed
    /\ \A x \in Tasks : status[x] = "discarded" =>
         owner \in {"awaiting", "reset", "shutdown", "destroyed", "aborted"}
    /\ owner \in {"awaiting", "reset", "shutdown"} => queue = <<>>

(* The counter counts the tasks under way; after Shutdown's store, at most *)
(* the late ones.                                                          *)
AfterReset == {"shutdown", "destroyed", "aborted"}
Late == {x \in Tasks : status[x] \in {"counted", "ignored"}}

CountInv ==
    /\ owner \notin AfterReset => counter = Cardinality(Counted)
    /\ owner \in AfterReset => counter <= Cardinality(Counted)
    /\ owner = "shutdown" => counter <= Cardinality(Late)

(* What Join promised is done from the moment it saw the counter at 0. *)
PromiseInv ==
    /\ \A x \in early : status[x] \notin {"new", "counted"}
    /\ owner \in {"close", "joining", "joined"} =>
         \A x \in early : status[x] = "done"

IInv ==
    /\ TypeInv
    /\ QueueInv
    /\ PendingInv
    /\ WorkerInv
    /\ OwnerInv
    /\ CountInv
    /\ PromiseInv
    /\ AbortsOnlyAfterRefusal

(* The initial state: nothing submitted, everybody at the start. *)
LEMMA InitIInv == Init => IInv
<1> SUFFICES ASSUME Init PROVE IInv
  OBVIOUS
<1> USE PoolAssumption DEF Init, QueueInit
<1>1. TypeInv
  <2>1. queue \in Seq(Tasks)
    BY EmptySeq
  <2> QED BY <2>1
    DEF TypeInv, WorkerSteps, OwnerSteps, JoinSteps, ShutdownSteps, Statuses
<1>2. QueueInv /\ PendingInv /\ WorkerInv
  BY DEF QueueInv, PendingInv, WorkerInv, Submitters
<1>3. OwnerInv /\ PromiseInv /\ AbortsOnlyAfterRefusal
  BY DEF OwnerInv, PromiseInv, AbortsOnlyAfterRefusal, Closed, Stopped
<1>4. CountInv
  <2>1. Counted = {}
    BY DEF Counted
  <2> QED BY <2>1, FS_EmptySet DEF CountInv, AfterReset
<1> QED BY <1>1, <1>2, <1>3, <1>4 DEF IInv


(* The tasks under way are finitely many, so they have a number. *)
LEMMA CountedFinite == TypeInv => IsFiniteSet(Counted) /\ Cardinality(Counted) \in Nat
BY PoolAssumption, FS_Subset, FS_CardinalityType DEF Counted

(* A worker about to decrement holds a counted task: the counter is not 0. *)
LEMMA DecrementPositive ==
    ASSUME IInv, NEW w \in Workers, pc[w] = "decrement"
    PROVE  /\ counter = Cardinality(Counted)
           /\ counter > 0
           /\ current[w] \in Counted
<1>1. current[w] \in Tasks /\ status[current[w]] = "finished"
  BY DEF IInv, TypeInv, WorkerInv
<1>2. current[w] \in Counted
  BY <1>1 DEF Counted
<1>3. owner \notin AfterReset
  BY DEF IInv, OwnerInv, AfterReset, Stopped, AllExited
<1>4. Cardinality(Counted) \in Nat /\ Cardinality(Counted) # 0
  BY <1>2, CountedFinite, FS_EmptySet DEF IInv
<1> QED BY <1>2, <1>3, <1>4 DEF IInv, CountInv


(* Every step keeps the types; the counter is decremented only for a task. *)
LEMMA TypeStep == IInv /\ [Next]_vars => TypeInv'
<1> SUFFICES ASSUME IInv, [Next]_vars
             PROVE  TypeInv'
  OBVIOUS
<1> USE DEF IInv, TypeInv, WorkerSteps, OwnerSteps, JoinSteps, ShutdownSteps, Statuses
<1>1. ASSUME NEW s \in Submitters, SubmitCounts(s) PROVE TypeInv'
  <2>1. PICK x \in Spawns[s] :
            /\ counter' = counter + 1
            /\ pending' = [pending EXCEPT ![s] = x]
            /\ status' = [status EXCEPT ![x] = "counted"]
    BY <1>1 DEF SubmitCounts, Mark
  <2>2. x \in Tasks
    BY <2>1, PoolAssumption
  <2> QED BY <1>1, <2>1, <2>2 DEF SubmitCounts, queueVars
<1>2. ASSUME NEW s \in Submitters, SubmitPuts(s) PROVE TypeInv'
  <2>1. pending[s] \in Tasks
    BY <1>2 DEF SubmitPuts
  <2>2. queue' \in Seq(Tasks)
    BY <1>2, <2>1, AppendProperties DEF SubmitPuts, PutAccepted, PutRefused, queueVars
  <2>3. isClosed' \in BOOLEAN /\ waiting' \subseteq Workers
    BY <1>2 DEF SubmitPuts, PutAccepted, PutRefused, NotifyOne, queueVars
  <2>4. early' \subseteq Tasks
    BY <1>2, <2>1 DEF SubmitPuts, PromiseFrom
  <2>5. status' \in [Tasks -> Statuses]
    BY <1>2, <2>1 DEF SubmitPuts, Mark
  <2> QED BY <1>2, <2>2, <2>3, <2>4, <2>5 DEF SubmitPuts
<1>3. ASSUME NEW w \in Workers, WorkerTakes(w) PROVE TypeInv'
  BY <1>3, HeadTailProperties DEF WorkerTakes, TakeReturns, Mark
<1>4. ASSUME NEW w \in Workers, WorkerWaits(w) PROVE TypeInv'
  BY <1>4 DEF WorkerWaits, TakeWaits, poolVars
<1>5. ASSUME NEW w \in Workers, WorkerExits(w) PROVE TypeInv'
  BY <1>5 DEF WorkerExits, TakeReturnsNothing, queueVars
<1>6. ASSUME NEW w \in Workers, TaskEnds(w) PROVE TypeInv'
  BY <1>6 DEF TaskEnds, Mark, queueVars
<1>7. ASSUME NEW w \in Workers, WorkerDecrements(w) PROVE TypeInv'
  <2>1. counter - 1 \in Nat
    <3>1. counter \in Nat /\ counter > 0
      BY <1>7, DecrementPositive DEF WorkerDecrements
    <3> QED BY <3>1
  <2> QED BY <1>7, <2>1 DEF WorkerDecrements, Mark, queueVars
<1>8. ASSUME NEW w \in Workers, WorkerNotifies(w) PROVE TypeInv'
  BY <1>8 DEF WorkerNotifies, queueVars
<1>9. ASSUME NEW w \in Workers, WorkerWakesSpuriously(w) PROVE TypeInv'
  BY <1>9 DEF WorkerWakesSpuriously, SpuriousWakeup, poolVars
<1>10. CASE JoinCalled
  BY <1>10 DEF JoinCalled, OwnerGoes, queueVars
<1>11. CASE JoinChecks
  BY <1>11 DEF JoinChecks, OwnerGoes, queueVars
<1>12. CASE JoinFutexWait
  BY <1>12 DEF JoinFutexWait, OwnerGoes, queueVars
<1>13. CASE JoinCloses
  BY <1>13 DEF JoinCloses, OwnerGoes, Close, CloseImpl
<1>14. CASE JoinReturns
  BY <1>14 DEF JoinReturns, OwnerGoes, AllExited, queueVars
<1>15. CASE ShutdownCalled
  BY <1>15 DEF ShutdownCalled, OwnerGoes, queueVars
<1>16. CASE ShutdownCancels
  BY <1>16 DEF ShutdownCancels, OwnerGoes, Cancel, CloseImpl
<1>17. CASE ShutdownAwaits
  BY <1>17 DEF ShutdownAwaits, OwnerGoes, AllExited, queueVars
<1>18. CASE ShutdownResets
  BY <1>18 DEF ShutdownResets, OwnerGoes, queueVars
<1>19. CASE Destroy
  BY <1>19 DEF Destroy, queueVars
<1>20. CASE UNCHANGED vars
  BY <1>20 DEF vars, queueVars, poolVars
<1> QED
  BY <1>1, <1>2, <1>3, <1>4, <1>5, <1>6, <1>7, <1>8, <1>9, <1>10,
     <1>11, <1>12, <1>13, <1>14, <1>15, <1>16, <1>17, <1>18, <1>19, <1>20
  DEF Next, Submit, WorkerStep, JoinStep, ShutdownStep


(* What SubmitCounts changes. *)
LEMMA SubmitCountsFacts ==
    ASSUME IInv, NEW s \in Submitters, SubmitCounts(s)
    PROVE  \E x \in Tasks :
             /\ status[x] = "new"
             /\ pending[s] = NoTask
             /\ counter' = counter + 1
             /\ pending' = [pending EXCEPT ![s] = x]
             /\ status' = [status EXCEPT ![x] = "counted"]
             /\ s \in Tasks => status[s] = "running"
             /\ UNCHANGED <<queue, isClosed, waiting, pc, current, owner, early>>
BY PoolAssumption DEF SubmitCounts, MaySubmit, Mark, queueVars

(* What SubmitPuts changes when the queue accepts the task ... *)
LEMMA SubmitPutsFacts ==
    ASSUME IInv, NEW s \in Submitters, SubmitPuts(s)
    PROVE  /\ pending[s] \in Tasks /\ status[pending[s]] = "counted"
           /\ pending' = [pending EXCEPT ![s] = NoTask]
           /\ \/ /\ ~isClosed
                 /\ queue' = Append(queue, pending[s])
                 /\ status' = [status EXCEPT ![pending[s]] = "queued"]
              \/ /\ isClosed
                 /\ UNCHANGED <<queue, waiting>>
                 /\ status' = [status EXCEPT ![pending[s]] = "ignored"]
           /\ waiting' \subseteq waiting
           /\ UNCHANGED <<isClosed, counter, pc, current, owner>>
BY DEF IInv, TypeInv, PendingInv, SubmitPuts, PutAccepted, PutRefused, NotifyOne,
       Mark, queueVars


(* What WorkerTakes changes: the oldest queued task goes to the worker. *)
LEMMA WorkerTakesFacts ==
    ASSUME IInv, NEW w \in Workers, WorkerTakes(w)
    PROVE  /\ Len(queue) \in Nat \ {0} /\ Len(queue') = Len(queue) - 1
           /\ \A i \in 1..Len(queue') : queue'[i] = queue[i + 1]
           /\ queue[1] \in Tasks /\ status[queue[1]] = "queued"
           /\ status' = [status EXCEPT ![queue[1]] = "running"]
           /\ pc[w] = "take" /\ pc' = [pc EXCEPT ![w] = "run"]
           /\ w \notin waiting
           /\ current' = [current EXCEPT ![w] = queue[1]]
           /\ UNCHANGED <<isClosed, waiting, counter, pending, owner, early>>
<1>1. queue \in Seq(Tasks) /\ queue # <<>> /\ queue' = Tail(queue)
  BY DEF IInv, TypeInv, WorkerTakes, TakeReturns
<1>2. /\ Len(queue) \in Nat \ {0} /\ Len(queue') = Len(queue) - 1
      /\ \A i \in 1..Len(queue') : queue'[i] = queue[i + 1]
      /\ Head(queue) = queue[1] /\ queue[1] \in Tasks
  BY <1>1, HeadTailProperties, LenProperties, EmptySeq
<1>3. status[queue[1]] = "queued"
  BY <1>2 DEF IInv, QueueInv
<1> QED BY <1>2, <1>3 DEF WorkerTakes, TakeReturns, Mark

(* What TaskEnds and WorkerDecrements change. *)
LEMMA TaskEndsFacts ==
    ASSUME IInv, NEW w \in Workers, TaskEnds(w)
    PROVE  /\ current[w] \in Tasks /\ status[current[w]] = "running"
           /\ pending[current[w]] = NoTask
           /\ pc[w] = "run" /\ pc' = [pc EXCEPT ![w] = "decrement"]
           /\ status' = [status EXCEPT ![current[w]] = "finished"]
           /\ UNCHANGED <<queue, isClosed, waiting, counter, current, pending, owner, early>>
BY DEF IInv, TypeInv, WorkerInv, TaskEnds, Mark, queueVars

LEMMA WorkerDecrementsFacts ==
    ASSUME IInv, NEW w \in Workers, WorkerDecrements(w)
    PROVE  /\ current[w] \in Tasks /\ status[current[w]] = "finished"
           /\ pc[w] = "decrement" /\ counter' = counter - 1
           /\ pc' = [pc EXCEPT ![w] = IF counter = 1 THEN "notify" ELSE "take"]
           /\ current' = [current EXCEPT ![w] = NoTask]
           /\ status' = [status EXCEPT ![current[w]] = "done"]
           /\ UNCHANGED <<queue, isClosed, waiting, pending, owner, early>>
BY DEF IInv, TypeInv, WorkerInv, WorkerDecrements, Mark, queueVars

(* Every step keeps the queued tasks in the queue, each once. *)
LEMMA QueueKept == IInv /\ [Next]_vars => QueueInv'
<1> SUFFICES ASSUME IInv, [Next]_vars
             PROVE  QueueInv'
  OBVIOUS
<1> USE DEF IInv, TypeInv, QueueInv
<1>1. ASSUME NEW s \in Submitters, SubmitCounts(s) PROVE QueueInv'
  BY <1>1, SubmitCountsFacts
<1>2. ASSUME NEW s \in Submitters, SubmitPuts(s) PROVE QueueInv'
  <2> \A i \in 1..Len(queue) : queue[i] \in Tasks /\ queue[i] # pending[s]
    BY <1>2, SubmitPutsFacts, ElementOfSeq
  <2>1. CASE isClosed
    <3>1. queue' = queue /\ status' = [status EXCEPT ![pending[s]] = "ignored"]
      BY <1>2, <2>1, SubmitPutsFacts
    <3> QED BY <1>2, <3>1, SubmitPutsFacts
  <2>2. CASE ~isClosed
    <3>1. queue' = Append(queue, pending[s]) /\ pending[s] \in Tasks
      BY <1>2, <2>2, SubmitPutsFacts
    <3>2. /\ Len(queue) \in Nat /\ Len(queue') = Len(queue) + 1
          /\ \A i \in 1..Len(queue) : queue'[i] = queue[i] /\ queue[i] \in Tasks
          /\ queue'[Len(queue) + 1] = pending[s]
      BY <3>1, AppendProperties, LenProperties, ElementOfSeq
    <3>3. status' = [status EXCEPT ![pending[s]] = "queued"]
      BY <1>2, <2>2, SubmitPutsFacts
    <3>4. \A i \in 1..Len(queue') : status'[queue'[i]] = "queued"
      BY <3>1, <3>2, <3>3
    <3>5. \A i, j \in 1..Len(queue') : queue'[i] = queue'[j] => i = j
      BY <3>2
    <3>6. \A x \in Tasks : status'[x] = "queued" =>
            \E i \in 1..Len(queue') : queue'[i] = x
      <4> SUFFICES ASSUME NEW x \in Tasks, status'[x] = "queued"
                   PROVE  \E i \in 1..Len(queue') : queue'[i] = x
        OBVIOUS
      <4>1. CASE x = pending[s]
        BY <3>2, <4>1
      <4>2. CASE x # pending[s]
        <5>1. PICK k \in 1..Len(queue) : queue[k] = x
          BY <3>3, <4>2
        <5> QED BY <3>2, <5>1
      <4> QED BY <4>1, <4>2
    <3> QED BY <3>4, <3>5, <3>6
  <2> QED BY <2>1, <2>2
<1>3. ASSUME NEW w \in Workers, WorkerTakes(w) PROVE QueueInv'
  <2>1. \A i \in 1..Len(queue') : i + 1 \in 1..Len(queue)
    BY <1>3, WorkerTakesFacts
  <2>2. \A i \in 1..Len(queue') : queue'[i] # queue[1] /\ queue'[i] \in Tasks
    BY <1>3, <2>1, WorkerTakesFacts, ElementOfSeq
  <2>3. \A i \in 1..Len(queue') : status'[queue'[i]] = "queued"
    BY <1>3, <2>1, <2>2, WorkerTakesFacts
  <2>4. \A i, j \in 1..Len(queue') : queue'[i] = queue'[j] => i = j
    BY <1>3, <2>1, WorkerTakesFacts
  <2>5. ASSUME NEW x \in Tasks, status'[x] = "queued"
        PROVE  \E i \in 1..Len(queue') : queue'[i] = x
    <3>1. PICK k \in 1..Len(queue) : queue[k] = x
      BY <1>3, <2>5, WorkerTakesFacts
    <3>2. k # 1 /\ k - 1 \in 1..Len(queue') /\ (k - 1) + 1 = k
      BY <1>3, <2>5, <3>1, WorkerTakesFacts
    <3>3. queue'[k - 1] = queue[(k - 1) + 1]
      BY <1>3, <3>2, WorkerTakesFacts
    <3> QED BY <3>1, <3>2, <3>3
  <2> QED BY <2>3, <2>4, <2>5
<1>4. ASSUME NEW w \in Workers, WorkerWaits(w) PROVE QueueInv'
  BY <1>4 DEF WorkerWaits, TakeWaits, poolVars
<1>5. ASSUME NEW w \in Workers, WorkerExits(w) PROVE QueueInv'
  BY <1>5 DEF WorkerExits, TakeReturnsNothing, queueVars
<1>6. ASSUME NEW w \in Workers, TaskEnds(w) PROVE QueueInv'
  <2>1. \A i \in 1..Len(queue) : queue[i] \in Tasks /\ queue[i] # current[w]
    BY <1>6, TaskEndsFacts, ElementOfSeq
  <2> QED BY <1>6, <2>1, TaskEndsFacts
<1>7. ASSUME NEW w \in Workers, WorkerDecrements(w) PROVE QueueInv'
  <2>1. \A i \in 1..Len(queue) : queue[i] \in Tasks /\ queue[i] # current[w]
    BY <1>7, WorkerDecrementsFacts, ElementOfSeq
  <2> QED BY <1>7, <2>1, WorkerDecrementsFacts
<1>8. ASSUME NEW w \in Workers, WorkerNotifies(w) PROVE QueueInv'
  BY <1>8 DEF WorkerNotifies, queueVars
<1>9. ASSUME NEW w \in Workers, WorkerWakesSpuriously(w) PROVE QueueInv'
  BY <1>9 DEF WorkerWakesSpuriously, SpuriousWakeup, poolVars
<1>10. CASE JoinCalled
  BY <1>10 DEF JoinCalled, OwnerGoes, queueVars
<1>11. CASE JoinChecks
  BY <1>11 DEF JoinChecks, OwnerGoes, queueVars
<1>12. CASE JoinFutexWait
  BY <1>12 DEF JoinFutexWait, OwnerGoes, queueVars
<1>13. CASE JoinCloses
  BY <1>13 DEF JoinCloses, OwnerGoes, Close, CloseImpl
<1>14. CASE JoinReturns
  BY <1>14 DEF JoinReturns, OwnerGoes, AllExited, queueVars
<1>15. CASE ShutdownCalled
  BY <1>15 DEF ShutdownCalled, OwnerGoes, queueVars
<1>16. CASE ShutdownCancels
  BY <1>16 DEF ShutdownCancels, OwnerGoes, Cancel, CloseImpl
<1>17. CASE ShutdownAwaits
  BY <1>17 DEF ShutdownAwaits, OwnerGoes, AllExited, queueVars
<1>18. CASE ShutdownResets
  BY <1>18 DEF ShutdownResets, OwnerGoes, queueVars
<1>19. CASE Destroy
  BY <1>19 DEF Destroy, queueVars
<1>20. CASE UNCHANGED vars
  BY <1>20 DEF vars, queueVars, poolVars
<1> QED
  BY <1>1, <1>2, <1>3, <1>4, <1>5, <1>6, <1>7, <1>8, <1>9, <1>10,
     <1>11, <1>12, <1>13, <1>14, <1>15, <1>16, <1>17, <1>18, <1>19, <1>20
  DEF Next, Submit, WorkerStep, JoinStep, ShutdownStep

(* Every step keeps each counted task with its Submit. *)
LEMMA PendingKept == IInv /\ [Next]_vars => PendingInv'
<1> SUFFICES ASSUME IInv, [Next]_vars
             PROVE  PendingInv'
  OBVIOUS
<1> USE DEF IInv, TypeInv, PendingInv, Submitters
<1>1. ASSUME NEW s \in Submitters, SubmitCounts(s) PROVE PendingInv'
  BY <1>1, SubmitCountsFacts
<1>2. ASSUME NEW s \in Submitters, SubmitPuts(s) PROVE PendingInv'
  <2> DEFINE x == pending[s]
  <2>1. /\ x \in Tasks /\ status[x] = "counted"
        /\ pending' = [pending EXCEPT ![s] = NoTask]
        /\ \/ status' = [status EXCEPT ![x] = "queued"]
           \/ status' = [status EXCEPT ![x] = "ignored"]
    BY <1>2, SubmitPutsFacts
  <2>2. x # NoTask
    BY <1>2 DEF SubmitPuts
  <2>3. \A r \in Submitters : pending'[r] # NoTask =>
          r # s /\ pending'[r] = pending[r] /\ pending[r] # x /\ pending[r] \in Tasks
    BY <2>1, <2>2
  <2>4. \A y \in Tasks : y # x => status'[y] = status[y]
    BY <2>1
  <2>5. \A y \in Tasks : pending'[y] # NoTask => status'[y] = "running"
    BY <2>1, <2>3, <2>4
  <2>6. \A y \in Tasks : status'[y] = "counted" => \E r \in Submitters : pending'[r] = y
    BY <2>1, <2>4
  <2> QED BY <2>3, <2>4, <2>5, <2>6
<1>3. ASSUME NEW w \in Workers, WorkerTakes(w) PROVE PendingInv'
  BY <1>3, WorkerTakesFacts
<1>4. ASSUME NEW w \in Workers, WorkerWaits(w) PROVE PendingInv'
  BY <1>4 DEF WorkerWaits, TakeWaits, poolVars
<1>5. ASSUME NEW w \in Workers, WorkerExits(w) PROVE PendingInv'
  BY <1>5 DEF WorkerExits, TakeReturnsNothing, queueVars
<1>6. ASSUME NEW w \in Workers, TaskEnds(w) PROVE PendingInv'
  BY <1>6, TaskEndsFacts
<1>7. ASSUME NEW w \in Workers, WorkerDecrements(w) PROVE PendingInv'
  BY <1>7, WorkerDecrementsFacts
<1>8. ASSUME NEW w \in Workers, WorkerNotifies(w) PROVE PendingInv'
  BY <1>8 DEF WorkerNotifies, queueVars
<1>9. ASSUME NEW w \in Workers, WorkerWakesSpuriously(w) PROVE PendingInv'
  BY <1>9 DEF WorkerWakesSpuriously, SpuriousWakeup, poolVars
<1>10. CASE JoinCalled
  BY <1>10 DEF JoinCalled, OwnerGoes, queueVars
<1>11. CASE JoinChecks
  BY <1>11 DEF JoinChecks, OwnerGoes, queueVars
<1>12. CASE JoinFutexWait
  BY <1>12 DEF JoinFutexWait, OwnerGoes, queueVars
<1>13. CASE JoinCloses
  BY <1>13 DEF JoinCloses, OwnerGoes, Close, CloseImpl
<1>14. CASE JoinReturns
  BY <1>14 DEF JoinReturns, OwnerGoes, AllExited, queueVars
<1>15. CASE ShutdownCalled
  BY <1>15 DEF ShutdownCalled, OwnerGoes, queueVars
<1>16. CASE ShutdownCancels
  BY <1>16 DEF ShutdownCancels, OwnerGoes, Cancel, CloseImpl
<1>17. CASE ShutdownAwaits
  BY <1>17 DEF ShutdownAwaits, OwnerGoes, AllExited, queueVars
<1>18. CASE ShutdownResets
  BY <1>18 DEF ShutdownResets, OwnerGoes, queueVars
<1>19. CASE Destroy
  BY <1>19 DEF Destroy, queueVars
<1>20. CASE UNCHANGED vars
  BY <1>20 DEF vars, queueVars, poolVars
<1> QED
  BY <1>1, <1>2, <1>3, <1>4, <1>5, <1>6, <1>7, <1>8, <1>9, <1>10,
     <1>11, <1>12, <1>13, <1>14, <1>15, <1>16, <1>17, <1>18, <1>19, <1>20
  DEF Next, Submit, WorkerStep, JoinStep, ShutdownStep

(* Every step keeps each running task with its worker. *)
LEMMA WorkerKept == IInv /\ [Next]_vars => WorkerInv'
<1> SUFFICES ASSUME IInv, [Next]_vars
             PROVE  WorkerInv'
  OBVIOUS
<1> USE DEF IInv, TypeInv, WorkerInv
<1>1. ASSUME NEW s \in Submitters, SubmitCounts(s) PROVE WorkerInv'
  BY <1>1, SubmitCountsFacts
<1>2. ASSUME NEW s \in Submitters, SubmitPuts(s) PROVE WorkerInv'
  BY <1>2, SubmitPutsFacts
<1>3. ASSUME NEW w \in Workers, WorkerTakes(w) PROVE WorkerInv'
  <2> DEFINE x == queue[1]
  <2>1. /\ x \in Tasks /\ status[x] = "queued" /\ x # NoTask
        /\ status' = [status EXCEPT ![x] = "running"]
        /\ pc[w] = "take" /\ pc' = [pc EXCEPT ![w] = "run"]
        /\ current' = [current EXCEPT ![w] = x]
    BY <1>3, WorkerTakesFacts, PoolAssumption
  <2> HIDE DEF x
  <2>2. \A v \in Workers : current[v] # NoTask =>
          current[v] # x /\ current[v] \in Tasks
    BY <2>1
  <2>3. \A v \in Workers : v # w => pc'[v] = pc[v] /\ current'[v] = current[v]
    BY <2>1
  <2>4. pc'[w] = "run" /\ current'[w] = x /\ status'[x] = "running"
    BY <2>1
  <2>5. \A y \in Tasks : y # x => status'[y] = status[y]
    BY <2>1
  <2>6. \A v \in Workers : pc'[v] = "run" =>
          current'[v] # NoTask /\ status'[current'[v]] = "running"
    BY <2>1, <2>2, <2>3, <2>4, <2>5
  <2>7. \A v \in Workers : pc'[v] = "decrement" =>
          current'[v] # NoTask /\ status'[current'[v]] = "finished"
    BY <2>1, <2>2, <2>3, <2>4, <2>5
  <2>8. \A y \in Tasks : status'[y] \in {"running", "finished"} =>
          \E v \in Workers : current'[v] = y
    <3> SUFFICES ASSUME NEW y \in Tasks, status'[y] \in {"running", "finished"}, y # x
                 PROVE  \E v \in Workers : current'[v] = y
      BY <2>4
    <3>1. PICK v \in Workers : current[v] = y
      BY <2>5
    <3>2. v # w
      BY <2>1, <3>1, PoolAssumption
    <3> QED BY <2>3, <3>1, <3>2
  <2>9. \A v, u \in Workers :
          current'[v] # NoTask /\ current'[v] = current'[u] => v = u
    BY <2>2, <2>3, <2>4
  <2>10. \A v \in Workers : pc'[v] \notin {"run", "decrement"} => current'[v] = NoTask
    BY <2>3, <2>4
  <2> QED BY <2>6, <2>7, <2>8, <2>9, <2>10
<1>4. ASSUME NEW w \in Workers, WorkerWaits(w) PROVE WorkerInv'
  BY <1>4 DEF WorkerWaits, TakeWaits, poolVars
<1>5. ASSUME NEW w \in Workers, WorkerExits(w) PROVE WorkerInv'
  BY <1>5 DEF WorkerExits, TakeReturnsNothing, queueVars
<1>6. ASSUME NEW w \in Workers, TaskEnds(w) PROVE WorkerInv'
  BY <1>6, TaskEndsFacts
<1>7. ASSUME NEW w \in Workers, WorkerDecrements(w) PROVE WorkerInv'
  BY <1>7, WorkerDecrementsFacts
<1>8. ASSUME NEW w \in Workers, WorkerNotifies(w) PROVE WorkerInv'
  BY <1>8 DEF WorkerNotifies, queueVars
<1>9. ASSUME NEW w \in Workers, WorkerWakesSpuriously(w) PROVE WorkerInv'
  BY <1>9 DEF WorkerWakesSpuriously, SpuriousWakeup, poolVars
<1>10. CASE JoinCalled
  BY <1>10 DEF JoinCalled, OwnerGoes, queueVars
<1>11. CASE JoinChecks
  BY <1>11 DEF JoinChecks, OwnerGoes, queueVars
<1>12. CASE JoinFutexWait
  BY <1>12 DEF JoinFutexWait, OwnerGoes, queueVars
<1>13. CASE JoinCloses
  BY <1>13 DEF JoinCloses, OwnerGoes, Close, CloseImpl
<1>14. CASE JoinReturns
  BY <1>14 DEF JoinReturns, OwnerGoes, AllExited, queueVars
<1>15. CASE ShutdownCalled
  BY <1>15 DEF ShutdownCalled, OwnerGoes, queueVars
<1>16. CASE ShutdownCancels
  BY <1>16 DEF ShutdownCancels, OwnerGoes, Cancel, CloseImpl
<1>17. CASE ShutdownAwaits
  BY <1>17 DEF ShutdownAwaits, OwnerGoes, AllExited, queueVars
<1>18. CASE ShutdownResets
  BY <1>18 DEF ShutdownResets, OwnerGoes, queueVars
<1>19. CASE Destroy
  BY <1>19 DEF Destroy, queueVars
<1>20. CASE UNCHANGED vars
  BY <1>20 DEF vars, queueVars, poolVars
<1> QED
  BY <1>1, <1>2, <1>3, <1>4, <1>5, <1>6, <1>7, <1>8, <1>9, <1>10,
     <1>11, <1>12, <1>13, <1>14, <1>15, <1>16, <1>17, <1>18, <1>19, <1>20
  DEF Next, Submit, WorkerStep, JoinStep, ShutdownStep

(* Every step keeps the queue closed after the owner closed it, and empty  *)
(* after a worker left it.                                                 *)
LEMMA OwnerKept == IInv /\ [Next]_vars => OwnerInv'
<1> SUFFICES ASSUME IInv, [Next]_vars
             PROVE  OwnerInv'
  OBVIOUS
<1> USE DEF IInv, TypeInv, OwnerInv, Closed, Stopped, AllExited
<1>1. ASSUME NEW s \in Submitters, SubmitCounts(s) PROVE OwnerInv'
  BY <1>1, SubmitCountsFacts
<1>2. ASSUME NEW s \in Submitters, SubmitPuts(s) PROVE OwnerInv'
  BY <1>2, SubmitPutsFacts
<1>3. ASSUME NEW w \in Workers, WorkerTakes(w) PROVE OwnerInv'
  <2>1. queue # <<>>
    BY <1>3, WorkerTakesFacts
  <2> QED BY <1>3, <2>1, WorkerTakesFacts
<1>4. ASSUME NEW w \in Workers, WorkerWaits(w) PROVE OwnerInv'
  BY <1>4 DEF WorkerWaits, TakeWaits, poolVars
<1>5. ASSUME NEW w \in Workers, WorkerExits(w) PROVE OwnerInv'
  BY <1>5 DEF WorkerExits, TakeReturnsNothing, queueVars
<1>6. ASSUME NEW w \in Workers, TaskEnds(w) PROVE OwnerInv'
  BY <1>6, TaskEndsFacts
<1>7. ASSUME NEW w \in Workers, WorkerDecrements(w) PROVE OwnerInv'
  BY <1>7, WorkerDecrementsFacts
<1>8. ASSUME NEW w \in Workers, WorkerNotifies(w) PROVE OwnerInv'
  BY <1>8 DEF WorkerNotifies, queueVars
<1>9. ASSUME NEW w \in Workers, WorkerWakesSpuriously(w) PROVE OwnerInv'
  BY <1>9 DEF WorkerWakesSpuriously, SpuriousWakeup, poolVars
<1>10. CASE JoinCalled
  BY <1>10 DEF JoinCalled, OwnerGoes, queueVars
<1>11. CASE JoinChecks
  BY <1>11 DEF JoinChecks, OwnerGoes, queueVars
<1>12. CASE JoinFutexWait
  BY <1>12 DEF JoinFutexWait, OwnerGoes, queueVars
<1>13. CASE JoinCloses
  BY <1>13 DEF JoinCloses, OwnerGoes, Close, CloseImpl
<1>14. CASE JoinReturns
  BY <1>14 DEF JoinReturns, OwnerGoes, AllExited, queueVars
<1>15. CASE ShutdownCalled
  BY <1>15 DEF ShutdownCalled, OwnerGoes, queueVars
<1>16. CASE ShutdownCancels
  BY <1>16 DEF ShutdownCancels, OwnerGoes, Cancel, CloseImpl
<1>17. CASE ShutdownAwaits
  BY <1>17 DEF ShutdownAwaits, OwnerGoes, AllExited, queueVars
<1>18. CASE ShutdownResets
  BY <1>18 DEF ShutdownResets, OwnerGoes, queueVars
<1>19. CASE Destroy
  BY <1>19 DEF Destroy, queueVars
<1>20. CASE UNCHANGED vars
  BY <1>20 DEF vars, queueVars, poolVars
<1> QED
  BY <1>1, <1>2, <1>3, <1>4, <1>5, <1>6, <1>7, <1>8, <1>9, <1>10,
     <1>11, <1>12, <1>13, <1>14, <1>15, <1>16, <1>17, <1>18, <1>19, <1>20
  DEF Next, Submit, WorkerStep, JoinStep, ShutdownStep


(* Moving one task between statuses changes the number of counted tasks by *)
(* what the two statuses say.                                              *)
LEMMA CountedGrows ==
    ASSUME TypeInv, NEW x \in Tasks, status[x] = "new", NEW v \in Statuses \ {"new", "done"},
           status' = [status EXCEPT ![x] = v]
    PROVE  Cardinality(Counted') = Cardinality(Counted) + 1
<1>1. Counted' = Counted \cup {x} /\ x \notin Counted
  BY DEF Counted, TypeInv, Statuses
<1> QED BY <1>1, CountedFinite, FS_AddElement

LEMMA CountedShrinks ==
    ASSUME TypeInv, NEW x \in Tasks, status[x] = "finished",
           status' = [status EXCEPT ![x] = "done"]
    PROVE  Cardinality(Counted') = Cardinality(Counted) - 1
<1>1. Counted' = Counted \ {x} /\ x \in Counted
  BY DEF Counted, TypeInv, Statuses
<1> QED BY <1>1, CountedFinite, FS_RemoveElement

LEMMA CountedStays ==
    ASSUME TypeInv, NEW x \in Tasks, status[x] \notin {"new", "done"},
           NEW v \in Statuses \ {"new", "done"}, status' = [status EXCEPT ![x] = v]
    PROVE  Counted' = Counted
BY DEF Counted, TypeInv, Statuses

(* The late tasks, which a reset counter still counts. *)
LEMMA LateFinite == IsFiniteSet(Late) /\ Cardinality(Late) \in Nat
BY PoolAssumption, FS_Subset, FS_CardinalityType DEF Late

LEMMA LateGrows ==
    ASSUME TypeInv, NEW x \in Tasks, status[x] = "new",
           status' = [status EXCEPT ![x] = "counted"]
    PROVE  Cardinality(Late') = Cardinality(Late) + 1
<1>1. Late' = Late \cup {x} /\ x \notin Late /\ Late \subseteq Tasks
  BY DEF Late, TypeInv, Statuses
<1> QED BY <1>1, PoolAssumption, FS_Subset, FS_AddElement


(* Steps that leave the histories alone and do not cross Shutdown's store. *)
LEMMA CountUntouched ==
    ASSUME IInv, status' = status, counter' = counter,
           owner' = owner \/ {owner, owner'} \cap AfterReset = {}
    PROVE  CountInv'
<1>1. Counted' = Counted /\ Late' = Late
  BY DEF Counted, Late
<1> QED BY <1>1 DEF IInv, CountInv, AfterReset

(* With all workers gone no task is queued or in a worker's hands. *)
LEMMA StoppedStatuses ==
    ASSUME IInv, owner \in Stopped, NEW x \in Tasks
    PROVE  status[x] \notin {"queued", "running", "finished"}
<1>1. PICK w \in Workers : pc[w] = "exited"
  BY PoolAssumption DEF IInv, OwnerInv, AllExited
<1>2. status[x] # "queued"
  <2>1. queue = <<>>
    BY <1>1 DEF IInv, OwnerInv
  <2> QED BY <2>1 DEF IInv, QueueInv
<1>3. status[x] \notin {"running", "finished"}
  <2>1. \A v \in Workers : current[v] = NoTask
    BY DEF IInv, OwnerInv, WorkerInv, AllExited
  <2> QED BY <2>1, PoolAssumption DEF IInv, WorkerInv
<1> QED BY <1>2, <1>3

(* A counter that Join or the destructor finds at 0, or not. *)
LEMMA CountedByCounter ==
    ASSUME IInv, owner \notin AfterReset
    PROVE  counter = 0 <=> Counted = {}
BY CountedFinite, FS_EmptySet DEF IInv, CountInv

(* Every step keeps the counter equal to the number of tasks under way. *)
LEMMA CountKept == IInv /\ [Next]_vars => CountInv'
<1> SUFFICES ASSUME IInv, [Next]_vars
             PROVE  CountInv'
  OBVIOUS
<1> USE DEF IInv, TypeInv, CountInv, AfterReset
<1>1. ASSUME NEW s \in Submitters, SubmitCounts(s) PROVE CountInv'
  <2>1. PICK x \in Tasks :
          /\ status[x] = "new" /\ status' = [status EXCEPT ![x] = "counted"]
          /\ counter' = counter + 1 /\ owner' = owner
    BY <1>1, SubmitCountsFacts
  <2>2. Cardinality(Counted') = Cardinality(Counted) + 1
    BY <2>1, CountedGrows DEF Statuses
  <2>3. Cardinality(Late') = Cardinality(Late) + 1
    BY <2>1, LateGrows
  <2>4. Cardinality(Counted) \in Nat /\ Cardinality(Late) \in Nat
    BY CountedFinite, LateFinite
  <2> QED BY <2>1, <2>2, <2>3, <2>4
<1>2. ASSUME NEW s \in Submitters, SubmitPuts(s) PROVE CountInv'
  <2>1. PICK v \in {"queued", "ignored"} :
            /\ status' = [status EXCEPT ![pending[s]] = v]
            /\ isClosed => v = "ignored"
    BY <1>2, SubmitPutsFacts
  <2>2. Counted' = Counted
    BY <1>2, <2>1, SubmitPutsFacts, CountedStays DEF Statuses
  <2>3. owner = "shutdown" => Late' = Late
    BY <1>2, <2>1, SubmitPutsFacts DEF Late, OwnerInv, Closed
  <2> QED BY <1>2, <2>2, <2>3, SubmitPutsFacts
<1>3. ASSUME NEW w \in Workers, WorkerTakes(w) PROVE CountInv'
  <2>1. Counted' = Counted
    BY <1>3, WorkerTakesFacts, CountedStays DEF Statuses
  <2>2. owner # "shutdown"
    BY <1>3, WorkerTakesFacts DEF OwnerInv, Stopped, AllExited
  <2> QED BY <1>3, <2>1, <2>2, WorkerTakesFacts
<1>4. ASSUME NEW w \in Workers, WorkerWaits(w) PROVE CountInv'
  BY <1>4, CountUntouched DEF WorkerWaits, TakeWaits, poolVars
<1>5. ASSUME NEW w \in Workers, WorkerExits(w) PROVE CountInv'
  BY <1>5, CountUntouched DEF WorkerExits, TakeReturnsNothing, queueVars
<1>6. ASSUME NEW w \in Workers, TaskEnds(w) PROVE CountInv'
  <2>1. Counted' = Counted
    BY <1>6, TaskEndsFacts, CountedStays DEF Statuses
  <2>2. owner # "shutdown"
    BY <1>6, TaskEndsFacts DEF OwnerInv, Stopped, AllExited
  <2> QED BY <1>6, <2>1, <2>2, TaskEndsFacts
<1>7. ASSUME NEW w \in Workers, WorkerDecrements(w) PROVE CountInv'
  <2>1. Cardinality(Counted') = Cardinality(Counted) - 1
    BY <1>7, WorkerDecrementsFacts, CountedShrinks
  <2>2. owner \notin AfterReset
    BY <1>7, WorkerDecrementsFacts DEF OwnerInv, Stopped, AllExited
  <2> QED BY <1>7, <2>1, <2>2, WorkerDecrementsFacts
<1>8. ASSUME NEW w \in Workers, WorkerNotifies(w) PROVE CountInv'
  BY <1>8, CountUntouched DEF WorkerNotifies, queueVars
<1>9. ASSUME NEW w \in Workers, WorkerWakesSpuriously(w) PROVE CountInv'
  BY <1>9, CountUntouched DEF WorkerWakesSpuriously, SpuriousWakeup, poolVars
<1>10. CASE JoinCalled
  BY <1>10, CountUntouched DEF JoinCalled, OwnerGoes, queueVars
<1>11. CASE JoinChecks
  BY <1>11, CountUntouched DEF JoinChecks, OwnerGoes, queueVars
<1>12. CASE JoinFutexWait
  BY <1>12, CountUntouched DEF JoinFutexWait, OwnerGoes, queueVars
<1>13. CASE JoinCloses
  BY <1>13, CountUntouched DEF JoinCloses, OwnerGoes, Close, CloseImpl
<1>14. CASE JoinReturns
  BY <1>14, CountUntouched DEF JoinReturns, OwnerGoes, AllExited, queueVars
<1>15. CASE ShutdownCalled
  BY <1>15, CountUntouched DEF ShutdownCalled, OwnerGoes, queueVars
<1>16. CASE ShutdownCancels
  <2>1. Counted' = Counted
    BY <1>16 DEF ShutdownCancels, Counted
  <2> QED BY <1>16, <2>1 DEF ShutdownCancels, OwnerGoes
<1>17. CASE ShutdownAwaits
  BY <1>17, CountUntouched DEF ShutdownAwaits, OwnerGoes, AllExited, queueVars
<1>18. CASE ShutdownResets
  <2>1. Counted' = Counted /\ Late' = Late
    BY <1>18 DEF ShutdownResets, Counted, Late
  <2>2. Cardinality(Counted) \in Nat /\ Cardinality(Late) \in Nat
    BY CountedFinite, LateFinite
  <2> QED BY <1>18, <2>1, <2>2 DEF ShutdownResets, OwnerGoes
<1>19. CASE Destroy
  <2>1. Counted' = Counted
    BY <1>19 DEF Destroy, Counted
  <2>2. Cardinality(Counted) \in Nat
    BY CountedFinite
  <2> QED BY <1>19, <2>1, <2>2 DEF Destroy, queueVars
<1>20. CASE UNCHANGED vars
  BY <1>20, CountUntouched DEF vars, queueVars, poolVars
<1> QED
  BY <1>1, <1>2, <1>3, <1>4, <1>5, <1>6, <1>7, <1>8, <1>9, <1>10,
     <1>11, <1>12, <1>13, <1>14, <1>15, <1>16, <1>17, <1>18, <1>19, <1>20
  DEF Next, Submit, WorkerStep, JoinStep, ShutdownStep

(* Every step keeps the promise of Join. *)
LEMMA PromiseKept == IInv /\ [Next]_vars => PromiseInv'
<1> SUFFICES ASSUME IInv, [Next]_vars
             PROVE  PromiseInv'
  OBVIOUS
<1> USE DEF IInv, TypeInv, PromiseInv
<1>1. ASSUME NEW s \in Submitters, SubmitCounts(s) PROVE PromiseInv'
  BY <1>1, SubmitCountsFacts
<1>2. ASSUME NEW s \in Submitters, SubmitPuts(s) PROVE PromiseInv'
  <2>1. /\ pending[s] \in Tasks /\ status[pending[s]] = "counted" /\ owner' = owner
        /\ \/ status' = [status EXCEPT ![pending[s]] = "queued"]
           \/ status' = [status EXCEPT ![pending[s]] = "ignored"]
    BY <1>2, SubmitPutsFacts
  <2>2. early' = IF s \in early THEN early \cup {pending[s]} ELSE early
    BY <1>2 DEF SubmitPuts, PromiseFrom
  <2>3. s \in early => status[s] = "running"
    BY <1>2 DEF SubmitPuts, PendingInv
  <2>4. pending[s] \notin early
    BY <2>1
  <2>5. CASE s \in early
    BY <2>1, <2>2, <2>3, <2>4, <2>5
  <2>6. CASE s \notin early
    BY <2>1, <2>2, <2>4, <2>6
  <2> QED BY <2>5, <2>6
<1>3. ASSUME NEW w \in Workers, WorkerTakes(w) PROVE PromiseInv'
  BY <1>3, WorkerTakesFacts
<1>4. ASSUME NEW w \in Workers, WorkerWaits(w) PROVE PromiseInv'
  BY <1>4 DEF WorkerWaits, TakeWaits, poolVars
<1>5. ASSUME NEW w \in Workers, WorkerExits(w) PROVE PromiseInv'
  BY <1>5 DEF WorkerExits, TakeReturnsNothing, queueVars
<1>6. ASSUME NEW w \in Workers, TaskEnds(w) PROVE PromiseInv'
  BY <1>6, TaskEndsFacts
<1>7. ASSUME NEW w \in Workers, WorkerDecrements(w) PROVE PromiseInv'
  BY <1>7, WorkerDecrementsFacts
<1>8. ASSUME NEW w \in Workers, WorkerNotifies(w) PROVE PromiseInv'
  BY <1>8 DEF WorkerNotifies, queueVars
<1>9. ASSUME NEW w \in Workers, WorkerWakesSpuriously(w) PROVE PromiseInv'
  BY <1>9 DEF WorkerWakesSpuriously, SpuriousWakeup, poolVars
<1>10. CASE JoinCalled
  BY <1>10 DEF JoinCalled, OwnerGoes, queueVars
<1>11. CASE JoinChecks
  <2>1. CASE counter = 0
    <3>1. Counted = {}
      BY <1>11, <2>1, CountedByCounter DEF JoinChecks, OwnerGoes, AfterReset
    <3>2. \A x \in early : status[x] = "done"
      BY <3>1 DEF Counted
    <3> QED BY <1>11, <3>2 DEF JoinChecks, OwnerGoes
  <2>2. CASE counter # 0
    BY <1>11, <2>2 DEF JoinChecks, OwnerGoes
  <2> QED BY <2>1, <2>2
<1>12. CASE JoinFutexWait
  BY <1>12 DEF JoinFutexWait, OwnerGoes, queueVars
<1>13. CASE JoinCloses
  BY <1>13 DEF JoinCloses, OwnerGoes, Close, CloseImpl
<1>14. CASE JoinReturns
  BY <1>14 DEF JoinReturns, OwnerGoes, AllExited, queueVars
<1>15. CASE ShutdownCalled
  BY <1>15 DEF ShutdownCalled, OwnerGoes, queueVars
<1>16. CASE ShutdownCancels
  BY <1>16 DEF ShutdownCancels, OwnerGoes, Cancel, CloseImpl
<1>17. CASE ShutdownAwaits
  BY <1>17 DEF ShutdownAwaits, OwnerGoes, AllExited, queueVars
<1>18. CASE ShutdownResets
  BY <1>18 DEF ShutdownResets, OwnerGoes, queueVars
<1>19. CASE Destroy
  BY <1>19 DEF Destroy, queueVars
<1>20. CASE UNCHANGED vars
  BY <1>20 DEF vars, queueVars, poolVars
<1> QED
  BY <1>1, <1>2, <1>3, <1>4, <1>5, <1>6, <1>7, <1>8, <1>9, <1>10,
     <1>11, <1>12, <1>13, <1>14, <1>15, <1>16, <1>17, <1>18, <1>19, <1>20
  DEF Next, Submit, WorkerStep, JoinStep, ShutdownStep

(* Every step keeps the cause of a failed assertion in the history. *)
LEMMA AbortKept == IInv /\ [Next]_vars => AbortsOnlyAfterRefusal'
<1> SUFFICES ASSUME IInv, [Next]_vars
             PROVE  AbortsOnlyAfterRefusal'
  OBVIOUS
<1> USE DEF IInv, TypeInv, AbortsOnlyAfterRefusal
<1>1. ASSUME NEW s \in Submitters, SubmitCounts(s) PROVE AbortsOnlyAfterRefusal'
  BY <1>1, SubmitCountsFacts
<1>2. ASSUME NEW s \in Submitters, SubmitPuts(s) PROVE AbortsOnlyAfterRefusal'
  BY <1>2, SubmitPutsFacts
<1>3. ASSUME NEW w \in Workers, WorkerTakes(w) PROVE AbortsOnlyAfterRefusal'
  BY <1>3, WorkerTakesFacts
<1>4. ASSUME NEW w \in Workers, WorkerWaits(w) PROVE AbortsOnlyAfterRefusal'
  BY <1>4 DEF WorkerWaits, TakeWaits, poolVars
<1>5. ASSUME NEW w \in Workers, WorkerExits(w) PROVE AbortsOnlyAfterRefusal'
  BY <1>5 DEF WorkerExits, TakeReturnsNothing, queueVars
<1>6. ASSUME NEW w \in Workers, TaskEnds(w) PROVE AbortsOnlyAfterRefusal'
  BY <1>6, TaskEndsFacts
<1>7. ASSUME NEW w \in Workers, WorkerDecrements(w) PROVE AbortsOnlyAfterRefusal'
  BY <1>7, WorkerDecrementsFacts
<1>8. ASSUME NEW w \in Workers, WorkerNotifies(w) PROVE AbortsOnlyAfterRefusal'
  BY <1>8 DEF WorkerNotifies, queueVars
<1>9. ASSUME NEW w \in Workers, WorkerWakesSpuriously(w) PROVE AbortsOnlyAfterRefusal'
  BY <1>9 DEF WorkerWakesSpuriously, SpuriousWakeup, poolVars
<1>10. CASE JoinCalled
  BY <1>10 DEF JoinCalled, OwnerGoes, queueVars
<1>11. CASE JoinChecks
  BY <1>11 DEF JoinChecks, OwnerGoes, queueVars
<1>12. CASE JoinFutexWait
  BY <1>12 DEF JoinFutexWait, OwnerGoes, queueVars
<1>13. CASE JoinCloses
  BY <1>13 DEF JoinCloses, OwnerGoes, Close, CloseImpl
<1>14. CASE JoinReturns
  BY <1>14 DEF JoinReturns, OwnerGoes, AllExited, queueVars
<1>15. CASE ShutdownCalled
  BY <1>15 DEF ShutdownCalled, OwnerGoes, queueVars
<1>16. CASE ShutdownCancels
  BY <1>16 DEF ShutdownCancels, OwnerGoes, Cancel, CloseImpl
<1>17. CASE ShutdownAwaits
  BY <1>17 DEF ShutdownAwaits, OwnerGoes, AllExited, queueVars
<1>18. CASE ShutdownResets
  BY <1>18 DEF ShutdownResets, OwnerGoes, queueVars
<1>19. CASE Destroy
  <2> SUFFICES ASSUME counter # 0
               PROVE  \E x \in Tasks : status[x] = "ignored"
    BY <1>19 DEF Destroy
  <2>1. \A x \in Tasks : status[x] # "counted"
    BY <1>19, PoolAssumption DEF Destroy, PendingInv, Submitters
  <2>2. CASE owner = "joined"
    <3>1. Counted # {}
      BY <2>2, CountedByCounter DEF AfterReset
    <3>2. PICK x \in Tasks : status[x] \notin {"new", "done"}
      BY <3>1 DEF Counted
    <3>3. status[x] \notin {"queued", "running", "finished"}
      BY <2>2, StoppedStatuses DEF Stopped
    <3>4. status[x] # "discarded"
      BY <2>2 DEF OwnerInv
    <3> QED BY <2>1, <3>2, <3>3, <3>4 DEF Statuses
  <2>3. CASE owner = "shutdown"
    <3>1. Late # {}
      BY <2>3, LateFinite, FS_EmptySet DEF CountInv
    <3> QED BY <2>1, <3>1 DEF Late
  <2> QED BY <1>19, <2>2, <2>3 DEF Destroy
<1>20. CASE UNCHANGED vars
  BY <1>20 DEF vars, queueVars, poolVars
<1> QED
  BY <1>1, <1>2, <1>3, <1>4, <1>5, <1>6, <1>7, <1>8, <1>9, <1>10,
     <1>11, <1>12, <1>13, <1>14, <1>15, <1>16, <1>17, <1>18, <1>19, <1>20
  DEF Next, Submit, WorkerStep, JoinStep, ShutdownStep


(* The invariant holds in every reachable state. *)
THEOREM Invariance == Spec => []IInv
<1>1. IInv /\ [Next]_vars => IInv'
  BY TypeStep, QueueKept, PendingKept, WorkerKept, OwnerKept, CountKept,
     PromiseKept, AbortKept DEF IInv
<1> QED BY InitIInv, <1>1, PTL DEF Spec

(* The counter never wraps and never exceeds the number of tasks. *)
THEOREM TypeCorrect == Spec => []TypeOK
<1>1. IInv => TypeOK
  <2> SUFFICES ASSUME IInv PROVE TypeOK
    OBVIOUS
  <2>1. counter <= Cardinality(Counted)
    BY CountedFinite DEF IInv, TypeInv, CountInv
  <2>2. Cardinality(Counted) <= Cardinality(Tasks)
    BY PoolAssumption, FS_Subset DEF Counted
  <2>3. /\ counter \in Nat /\ Cardinality(Counted) \in Nat
        /\ Cardinality(Tasks) \in Nat
    BY PoolAssumption, CountedFinite, FS_CardinalityType DEF IInv, TypeInv
  <2>4. counter \in 0..Cardinality(Tasks)
    BY <2>1, <2>2, <2>3
  <2> QED BY <2>4 DEF IInv, TypeInv, TypeOK
<1> QED BY Invariance, <1>1, PTL

(* Until Shutdown resets it, planned_work_counter_ is the number of tasks  *)
(* submitted and not yet done.                                             *)
THEOREM CounterIsExact == Spec => []CounterAccounting
<1>1. IInv => CounterAccounting
  BY DEF IInv, CountInv, CounterAccounting, AfterReset
<1> QED BY Invariance, <1>1, PTL

(* Join returns with every accepted and every promised task done. *)
THEOREM JoinRunsEverything == Spec => []JoinCompletes
<1>1. IInv => JoinCompletes
  <2> SUFFICES ASSUME IInv, owner = "joined", NEW x \in Tasks
               PROVE  /\ status[x] \in {"new", "counted", "ignored", "done"}
                      /\ x \in early => status[x] = "done"
    BY DEF JoinCompletes
  <2>1. status[x] \notin {"queued", "running", "finished"}
    BY StoppedStatuses DEF Stopped
  <2>2. status[x] # "discarded"
    BY DEF IInv, OwnerInv
  <2> QED BY <2>1, <2>2 DEF IInv, TypeInv, PromiseInv, Statuses
<1> QED BY Invariance, <1>1, PTL

(* Only a refused Submit can make the destructor's assertion fail. *)
THEOREM AbortHasCause == Spec => []AbortsOnlyAfterRefusal
BY Invariance, PTL DEF IInv

(* After Shutdown's Cancel no further task starts. *)
THEOREM NothingStartsAfterCancel == Spec => ShutdownDropsQueued
<1> DEFINE Quiet == \A x \in Tasks :
                      /\ owner \in {"awaiting", "reset", "shutdown"}
                      /\ status'[x] = "running"
                      => status[x] = "running"
<1>1. IInv /\ [Next]_vars => [Quiet]_vars
  <2> SUFFICES ASSUME IInv, Next, NEW x \in Tasks, status'[x] = "running",
                      owner \in {"awaiting", "reset", "shutdown"}
               PROVE  status[x] = "running"
    OBVIOUS
  <2> USE DEF IInv, TypeInv
  <2>1. queue = <<>>
    BY DEF OwnerInv
  <2>2. ASSUME NEW s \in Submitters, SubmitCounts(s) PROVE status[x] = "running"
    BY <2>2, SubmitCountsFacts
  <2>3. ASSUME NEW s \in Submitters, SubmitPuts(s) PROVE status[x] = "running"
    BY <2>3, SubmitPutsFacts
  <2>4. ASSUME NEW w \in Workers, WorkerTakes(w) PROVE FALSE
    BY <2>1, <2>4 DEF WorkerTakes, TakeReturns
  <2>5. ASSUME NEW w \in Workers, TaskEnds(w) PROVE status[x] = "running"
    BY <2>5, TaskEndsFacts
  <2>6. ASSUME NEW w \in Workers, WorkerDecrements(w) PROVE status[x] = "running"
    BY <2>6, WorkerDecrementsFacts
  <2>7. ASSUME NEW w \in Workers,
               WorkerWaits(w) \/ WorkerExits(w) \/ WorkerNotifies(w)
                 \/ WorkerWakesSpuriously(w)
        PROVE  status[x] = "running"
    BY <2>7
      DEF WorkerWaits, WorkerExits, WorkerNotifies, WorkerWakesSpuriously, poolVars
  <2>8. CASE JoinCalled \/ JoinStep \/ ShutdownCalled \/ ShutdownAwaits
               \/ ShutdownResets \/ Destroy
    BY <2>8
      DEF JoinCalled, JoinStep, JoinChecks, JoinFutexWait, JoinCloses, JoinReturns,
                ShutdownCalled, ShutdownAwaits, ShutdownResets, Destroy
  <2>9. CASE ShutdownCancels
    BY <2>9 DEF ShutdownCancels, OwnerGoes
  <2> QED
    BY <2>2, <2>3, <2>4, <2>5, <2>6, <2>7, <2>8, <2>9
    DEF Next, Submit, WorkerStep, ShutdownStep
<1> QED BY Invariance, <1>1, PTL DEF Spec, ShutdownDropsQueued

----------------------------------------------------------------------------
(* The workers that are about to look at the queue, with nothing to wait   *)
(* for: woken, or not yet asleep.                                          *)
Awake == {w \in Workers \ waiting : pc[w] = "take"}

LEMMA AwakeFinite == IsFiniteSet(Awake) /\ Cardinality(Awake) \in Nat
BY PoolAssumption, FS_Subset, FS_CardinalityType DEF Awake

(* A step that neither grows the queue nor takes a worker from it, and     *)
(* puts nobody to sleep, keeps enough of them awake.                       *)
LEMMA AwakeMonotonic ==
    ASSUME WorkConserving, queue \in Seq(Tasks), queue' \in Seq(Tasks),
           Len(queue') <= Len(queue), waiting' \subseteq waiting,
           IsFiniteSet(Awake'), Cardinality(Awake') \in Nat,
           Awake \subseteq Awake'
    PROVE  WorkConserving'
<1>1. Cardinality(Awake) <= Cardinality(Awake')
  BY FS_Subset
<1>2. Len(queue) \in Nat /\ Len(queue') \in Nat
  BY LenProperties
<1> QED BY <1>1, <1>2, AwakeFinite DEF WorkConserving, Awake

(* The two steps of Submit and Take that change the queue: Put wakes a     *)
(* worker for what it pushes, and who takes an item leaves the others as   *)
(* many as there are items left.                                           *)
LEMMA PutConserves ==
    ASSUME IInv, IInv', WorkConserving, NEW s \in Submitters, SubmitPuts(s)
    PROVE  WorkConserving'
<1> USE DEF IInv, TypeInv
<1>1. IsFiniteSet(Awake') /\ Cardinality(Awake') \in Nat
  BY PoolAssumption, FS_Subset, FS_CardinalityType DEF Awake
<1>2. CASE isClosed
  <2>1. UNCHANGED <<queue, waiting, pc>>
    BY <1>2, SubmitPutsFacts
  <2> QED BY <2>1 DEF WorkConserving
<1>3. CASE ~isClosed
  <2> SUFFICES ASSUME waiting' # {}
               PROVE  Len(queue') <= Cardinality(Awake')
    BY DEF WorkConserving, Awake
  <2>1. queue' = Append(queue, pending[s]) /\ UNCHANGED pc
    BY <1>3, SubmitPutsFacts
  <2>2. Len(queue') = Len(queue) + 1 /\ Len(queue) \in Nat
    BY <2>1, SubmitPutsFacts, AppendProperties, LenProperties
  <2>3. PICK v \in waiting : waiting' = waiting \ {v}
    BY <1>3 DEF SubmitPuts, PutAccepted, PutRefused, NotifyOne
  <2>4. v \in Workers /\ pc[v] = "take" /\ v \notin Awake
    BY <2>3 DEF OwnerInv, Awake
  <2>5. Awake' = Awake \cup {v}
    BY <2>1, <2>3, <2>4 DEF Awake
  <2>6. Cardinality(Awake') = Cardinality(Awake) + 1
    BY <2>4, <2>5, AwakeFinite, FS_AddElement
  <2>7. Len(queue) <= Cardinality(Awake)
    BY <2>3 DEF WorkConserving, Awake
  <2> QED BY <2>2, <2>6, <2>7, AwakeFinite
<1> QED BY <1>2, <1>3

LEMMA TakeConserves ==
    ASSUME IInv, IInv', WorkConserving, NEW w \in Workers, WorkerTakes(w)
    PROVE  WorkConserving'
<1> SUFFICES ASSUME waiting' # {} PROVE Len(queue') <= Cardinality(Awake')
  BY DEF WorkConserving, Awake
<1> USE DEF IInv, TypeInv
<1>1. /\ Len(queue) \in Nat /\ Len(queue') = Len(queue) - 1
      /\ waiting' = waiting /\ w \notin waiting
      /\ pc[w] = "take" /\ pc' = [pc EXCEPT ![w] = "run"]
  BY WorkerTakesFacts
<1>2. w \in Awake /\ Awake' = Awake \ {w}
  BY <1>1 DEF Awake
<1>3. Cardinality(Awake') = Cardinality(Awake) - 1
  BY <1>2, AwakeFinite, FS_RemoveElement
<1>4. Len(queue) <= Cardinality(Awake)
  BY <1>1 DEF WorkConserving, Awake
<1> QED BY <1>1, <1>3, <1>4, AwakeFinite

(* Every step keeps enough workers awake for the items of the queue. *)
LEMMA WorkConserved ==
    IInv /\ IInv' /\ WorkConserving /\ [Next]_vars => WorkConserving'
<1> SUFFICES ASSUME IInv, IInv', WorkConserving, [Next]_vars
             PROVE  WorkConserving'
  OBVIOUS
<1> USE DEF IInv, TypeInv
<1>1. IsFiniteSet(Awake') /\ Cardinality(Awake') \in Nat
  BY PoolAssumption, FS_Subset, FS_CardinalityType DEF Awake
<1>2. ASSUME waiting' = {} \/ queue' = <<>> PROVE WorkConserving'
  <2>1. queue' = <<>> => Len(queue') = 0
    BY EmptySeq
  <2> QED BY <1>1, <1>2, <2>1 DEF WorkConserving, Awake
<1>3. ASSUME queue' = queue, waiting' \subseteq waiting, Awake \subseteq Awake'
      PROVE  WorkConserving'
  <2>1. Len(queue') <= Len(queue)
    BY <1>3, LenProperties
  <2> QED BY <1>1, <1>3, <2>1, AwakeMonotonic
<1>4. ASSUME NEW s \in Submitters, SubmitCounts(s) PROVE WorkConserving'
  BY <1>3, <1>4, SubmitCountsFacts DEF Awake
<1>5. ASSUME NEW s \in Submitters, SubmitPuts(s) PROVE WorkConserving'
  BY <1>5, PutConserves
<1>6. ASSUME NEW w \in Workers, WorkerTakes(w) PROVE WorkConserving'
  BY <1>6, TakeConserves
<1>7. ASSUME NEW w \in Workers, WorkerWaits(w) \/ WorkerExits(w)
      PROVE  WorkConserving'
  BY <1>2, <1>7 DEF WorkerWaits, TakeWaits, WorkerExits, TakeReturnsNothing, queueVars
<1>8. ASSUME NEW w \in Workers, TaskEnds(w) PROVE WorkConserving'
  BY <1>3, <1>8, TaskEndsFacts DEF Awake
<1>9. ASSUME NEW w \in Workers, WorkerDecrements(w) PROVE WorkConserving'
  BY <1>3, <1>9, WorkerDecrementsFacts DEF Awake
<1>10. ASSUME NEW w \in Workers, WorkerNotifies(w) PROVE WorkConserving'
  BY <1>3, <1>10 DEF WorkerNotifies, Awake, queueVars
<1>11. ASSUME NEW w \in Workers, WorkerWakesSpuriously(w) PROVE WorkConserving'
  BY <1>3, <1>11 DEF WorkerWakesSpuriously, SpuriousWakeup, poolVars, Awake
<1>12. CASE JoinCloses \/ ShutdownCancels
  BY <1>2, <1>12 DEF JoinCloses, ShutdownCancels, Close, Cancel, CloseImpl
<1>13. CASE JoinCalled \/ JoinChecks \/ JoinFutexWait \/ JoinReturns
              \/ ShutdownCalled \/ ShutdownAwaits \/ ShutdownResets \/ Destroy
  BY <1>3, <1>13 DEF JoinCalled, JoinChecks, JoinFutexWait, JoinReturns,
     ShutdownCalled, ShutdownAwaits, ShutdownResets, Destroy, queueVars, Awake
<1>14. CASE UNCHANGED vars
  BY <1>3, <1>14 DEF vars, queueVars, poolVars, Awake
<1> QED
  BY <1>4, <1>5, <1>6, <1>7, <1>8, <1>9, <1>10, <1>11, <1>12, <1>13, <1>14
  DEF Next, Submit, WorkerStep, JoinStep, ShutdownStep

(* Whatever the number of workers and of submitters, no worker sleeps      *)
(* while the queue holds more than the awake ones will take: notify_one is *)
(* enough, spurious wakeups included (blocking_queue.hpp:19-33).           *)
THEOREM NoIdleWorker == Spec => []WorkConserving
<1>1. Init => WorkConserving
  BY DEF Init, QueueInit, WorkConserving
<1> QED BY <1>1, WorkConserved, Invariance, PTL DEF Spec

----------------------------------------------------------------------------
(* The counter of CountingTasks *)

(* The unfinished tasks of each runner, numbered. *)
Unfinished == {x \in Runners \X (1..MaxRunning) : x[2] <= running[x[1]]}

CountingTypeOK ==
    /\ tasks_counter \in Nat
    /\ running \in [Runners -> 0..MaxRunning]
    /\ no_tasks \subseteq Awaiters

CounterCounts == tasks_counter = Cardinality(Unfinished)

NobodySleepsAtZero == no_tasks # {} => tasks_counter # 0

CountingInv == CountingTypeOK /\ CounterCounts /\ NobodySleepsAtZero

(* There are finitely many unfinished tasks. *)
LEMMA UnfinishedFinite == IsFiniteSet(Unfinished) /\ Cardinality(Unfinished) \in Nat
<1>1. IsFiniteSet(1..MaxRunning)
  BY CountingAssumption, FS_Interval
<1>2. IsFiniteSet(Runners \X (1..MaxRunning))
  BY <1>1, CountingAssumption, FS_Product
<1>3. Unfinished \in SUBSET (Runners \X (1..MaxRunning))
  BY DEF Unfinished
<1> QED BY <1>2, <1>3, FS_Subset, FS_CardinalityType

(* At the start there are no tasks and no waiters. *)
LEMMA CountingInvInit == CountingInit => CountingInv
<1> SUFFICES ASSUME CountingInit PROVE CountingInv
  OBVIOUS
<1>1. Unfinished = {}
  BY CountingAssumption DEF CountingInit, Unfinished
<1>2. Cardinality(Unfinished) = 0
  BY <1>1, FS_EmptySet
<1> QED
  BY <1>2, CountingAssumption
     DEF CountingInit, CountingInv, CountingTypeOK, CounterCounts, NobodySleepsAtZero

(* Increase adds one unfinished task, the next of its runner. *)
LEMMA IncreaseAdds ==
    ASSUME CountingTypeOK, NEW r \in Runners, Increase(r)
    PROVE  Cardinality(Unfinished') = Cardinality(Unfinished) + 1
<1> DEFINE x == <<r, running[r] + 1>>
<1>1. /\ running[r] \in 0..MaxRunning /\ running[r] < MaxRunning
      /\ running' = [running EXCEPT ![r] = @ + 1]
  BY DEF CountingTypeOK, Increase
<1>2. Unfinished' = Unfinished \cup {x}
  BY <1>1, CountingAssumption DEF Unfinished, CountingTypeOK
<1>3. x \notin Unfinished
  BY <1>1, CountingAssumption DEF Unfinished
<1> QED BY <1>2, <1>3, UnfinishedFinite, FS_AddElement

(* DecreaseAndCheck removes one, the last of its runner. *)
LEMMA DecreaseRemoves ==
    ASSUME CountingTypeOK, NEW r \in Runners, DecreaseAndCheck(r)
    PROVE  /\ Cardinality(Unfinished') = Cardinality(Unfinished) - 1
           /\ Cardinality(Unfinished) # 0
<1> DEFINE x == <<r, running[r]>>
<1>1. /\ running[r] \in 1..MaxRunning
      /\ running' = [running EXCEPT ![r] = @ - 1]
  BY CountingAssumption DEF CountingTypeOK, DecreaseAndCheck
<1>2. Unfinished' = Unfinished \ {x}
  BY <1>1, CountingAssumption DEF Unfinished, CountingTypeOK
<1>3. x \in Unfinished
  BY <1>1 DEF Unfinished
<1> QED BY <1>2, <1>3, UnfinishedFinite, FS_RemoveElement, FS_EmptySet

(* Every step keeps the invariant. *)
LEMMA CountingInvNext == CountingInv /\ [CountingNext]_countingVars => CountingInv'
<1> SUFFICES ASSUME CountingInv, [CountingNext]_countingVars PROVE CountingInv'
  OBVIOUS
<1> USE CountingAssumption
    DEF CountingInv, CountingTypeOK, CounterCounts, NobodySleepsAtZero
<1>1. ASSUME NEW r \in Runners, Increase(r) PROVE CountingInv'
  <2>1. tasks_counter' = Cardinality(Unfinished')
    BY <1>1, IncreaseAdds DEF Increase
  <2> QED BY <1>1, <2>1 DEF Increase
<1>2. ASSUME NEW r \in Runners, DecreaseAndCheck(r) PROVE CountingInv'
  <2>1. tasks_counter' = Cardinality(Unfinished') /\ tasks_counter # 0
    BY <1>2, DecreaseRemoves DEF DecreaseAndCheck
  <2>2. tasks_counter' \in Nat /\ running' \in [Runners -> 0..MaxRunning]
    BY <1>2, <2>1 DEF DecreaseAndCheck
  <2> QED BY <1>2, <2>1, <2>2 DEF DecreaseAndCheck
<1>3. ASSUME NEW t \in Awaiters,
             WaitCalled(t) \/ WaitForNoTasks(t) \/ AwakesUnasked(t)
      PROVE  CountingInv'
  <2>1. tasks_counter' = tasks_counter /\ running' = running
    BY <1>3 DEF WaitCalled, WaitForNoTasks, AwakesUnasked
  <2>2. Unfinished' = Unfinished
    BY <2>1 DEF Unfinished
  <2>3. no_tasks' \subseteq Awaiters /\ (no_tasks' # {} => tasks_counter # 0)
    BY <1>3 DEF WaitCalled, WaitForNoTasks, AwakesUnasked
  <2> QED BY <2>1, <2>2, <2>3
<1>4. CASE UNCHANGED countingVars
  BY <1>4 DEF countingVars, Unfinished
<1> QED BY <1>1, <1>2, <1>3, <1>4 DEF CountingNext

(* For any waiters, and any finite set of runners with any bound on their  *)
(* tasks, whoever sleeps in WaitForNoTasks has a task whose end will wake  *)
(* him (helpers.hpp:19-32).                                                *)
THEOREM SleepersWait == CountingSpec => []SleepersHaveATask
<1>1. ASSUME CountingInv PROVE SleepersHaveATask
  <2> SUFFICES ASSUME no_tasks # {} PROVE \E r \in Runners : running[r] > 0
    BY DEF SleepersHaveATask
  <2>1. Unfinished # {}
    BY <1>1, FS_EmptySet DEF CountingInv, CounterCounts, NobodySleepsAtZero
  <2>2. PICK x \in Runners \X (1..MaxRunning) : x[2] <= running[x[1]]
    BY <2>1 DEF Unfinished
  <2> QED BY <1>1, <2>2, CountingAssumption DEF CountingInv, CountingTypeOK
<1> QED BY <1>1, CountingInvInit, CountingInvNext, PTL DEF CountingSpec
==============================================================================
