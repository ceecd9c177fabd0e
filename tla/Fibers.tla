------------------------------- MODULE Fibers -------------------------------
(***************************************************************************)
(* The fibers of coroutine/mtf/fibers: a fiber is a coroutine whose        *)
(* Dispatch is a handler of the pool's event loop, and whose stack comes   *)
(* from a pool of stacks of the thread that spawns it.  A fiber's routine  *)
(* may yield, spawn fibers, resume a coroutine of its own, return or throw.*)
(***************************************************************************)
EXTENDS Coroutine, EventLoopPool

CONSTANTS
    Main,           \* the thread that owns the pool
    Fibers,         \* the Fiber objects ever created
    Nested,         \* Nested[f]: the coroutine that f's routine resumes, or Nobody
    Budget          \* a bound on the yields and resumptions of the routines

ASSUME FibersAssumption ==
    /\ Main \in Threads \ Workers /\ Workers \subseteq Threads
    /\ Nobody \notin Coroutines
    /\ IsFiniteSet(Fibers) /\ Fibers \subseteq Coroutines
    /\ Nested \in [Fibers -> (Coroutines \ Fibers) \cup {Nobody}]
    /\ \A f, g \in Fibers : Nested[f] = Nested[g] /\ f # g => Nested[f] = Nobody
    /\ Budget \in Nat

VARIABLES
    step,           \* where each worker stands in Dispatch
    dispatching,    \* Dispatch's this on each worker
    current_fiber,  \* the thread_local current_fiber of each worker
    life,           \* history: each fiber new, live or deleted
    stack,          \* fiber_stack_ of each live fiber, 0 for none
    pools,          \* pool_ of each thread's StackPool
    allocated,      \* the stacks allocated so far are 1..allocated
    budget          \* the yields and resumptions that are left

fiberVars == <<step, dispatching, current_fiber, life, stack, pools, allocated, budget>>
vars == <<coroutineVars, poolVars, fiberVars>>

Steps == {"run", "resume", "body", "suspend", "check", "finish", "gone"}
Stacks == 1..Cardinality(Fibers)

(* Types, and: a worker that is not inside Dispatch has no current fiber,  *)
(* one that runs a body has the fiber it dispatches.                       *)
TypeOK ==
    /\ CoroutineTypeOK
    /\ ready \in Seq(Fibers) /\ deferred \in [Workers -> Seq(Fibers)]
    /\ outstanding \in 0..(Cardinality(Fibers) + 1)
    /\ step \in [Workers -> Steps]
    /\ stack \in [Fibers -> 0..allocated] /\ allocated \in 0..Cardinality(Fibers)
    /\ \A w \in Workers :
         current_fiber[w] = IF step[w] \in {"body", "suspend", "check"}
                              THEN dispatching[w] ELSE Nobody

Init ==
    /\ CoroutineInit /\ PoolInit
    /\ step = [w \in Workers |-> "run"]
    /\ dispatching = [w \in Workers |-> Nobody]
    /\ current_fiber = [w \in Workers |-> Nobody]
    /\ life = [f \in Fibers |-> "new"]
    /\ stack = [f \in Fibers |-> 0]
    /\ pools = [t \in Threads |-> <<>>]
    /\ allocated = 0
    /\ budget = Budget

Goto(w, from, to) == step[w] = from /\ step' = [step EXCEPT ![w] = to]

----------------------------------------------------------------------------
(* AcquireStack on thread t: the stack released last, or a new one.        *)
AcquireStack(t, f) ==
    IF pools[t] # <<>>
      THEN /\ stack' = [stack EXCEPT ![f] = pools[t][Len(pools[t])]]
           /\ pools' = [pools EXCEPT ![t] = SubSeq(@, 1, Len(@) - 1)]
           /\ UNCHANGED allocated
      ELSE /\ allocated' = allocated + 1
           /\ stack' = [stack EXCEPT ![f] = allocated + 1]
           /\ UNCHANGED pools

(* Mutant of ReleaseStack: the stack is not moved out of the fiber, whose  *)
(* destruction frees it too: nobody owns it any more.                      *)
ReleaseStackLost(t, f) ==
    /\ t \in Threads
    /\ stack' = [stack EXCEPT ![f] = 0]
    /\ UNCHANGED <<pools, allocated>>

ReleaseStack(t, f) ==
    /\ pools' = [pools EXCEPT ![t] = Append(@, stack[f])]
    /\ stack' = [stack EXCEPT ![f] = 0]
    /\ UNCHANGED allocated

(* Spawn on thread t: a new Fiber and its Schedule. *)
Spawn(t) ==
    /\ \E f \in Fibers :
         /\ life[f] = "new"
         /\ life' = [life EXCEPT ![f] = "live"]
         /\ AcquireStack(t, f)
         /\ Submit(f)
    /\ UNCHANGED <<coroutineVars, step, dispatching, current_fiber, budget>>

SpawnOutside == owner = "open" /\ Spawn(Main)

SpawnInside(w) == step[w] = "body" /\ Spawn(w)

----------------------------------------------------------------------------
(* Dispatch *)

Takes(w) ==
    /\ Goto(w, "run", "resume")
    /\ TakeHandler
    /\ dispatching' = [dispatching EXCEPT ![w] = Head(ready)]
    /\ UNCHANGED <<coroutineVars, current_fiber, life, stack, pools, allocated,
                   budget>>

(* current_fiber is exchanged, the coroutine resumed. *)
Dispatches(w) ==
    /\ Goto(w, "resume", "body")
    /\ current_fiber' = [current_fiber EXCEPT ![w] = dispatching[w]]
    /\ Resume(w, dispatching[w])
    /\ UNCHANGED <<poolVars, dispatching, life, stack, pools, allocated, budget>>

Destroys(w, f) ==
    /\ ReleaseStack(w, f)
    /\ life' = [life EXCEPT ![f] = "deleted"]

(* Mutant of AfterResume: the fiber is destroyed whatever it came back    *)
(* for.                                                                    *)
AfterResumeDestroys(w) ==
    /\ Goto(w, "check", "finish")
    /\ current_fiber' = [current_fiber EXCEPT ![w] = Nobody]
    /\ Destroys(w, dispatching[w])
    /\ UNCHANGED <<coroutineVars, poolVars, dispatching, budget>>

(* current_fiber is restored to prev_fiber, null since handlers do not      *)
(* nest; a completed fiber is destroyed.                                   *)
AfterResume(w) ==
    /\ Goto(w, "check", "finish")
    /\ current_fiber' = [current_fiber EXCEPT ![w] = Nobody]
    /\ IF IsCompleted(dispatching[w]) THEN Destroys(w, dispatching[w])
                                      ELSE UNCHANGED <<life, stack, pools, allocated>>
    /\ UNCHANGED <<coroutineVars, poolVars, dispatching, budget>>

HandlerReturns(w) ==
    /\ Goto(w, "finish", "run")
    /\ FinishHandler(w)
    /\ dispatching' = [dispatching EXCEPT ![w] = Nobody]
    /\ UNCHANGED <<coroutineVars, current_fiber, life, stack, pools, allocated,
                   budget>>

----------------------------------------------------------------------------
(* The routine of the current fiber, on worker w *)

Spend ==
    /\ budget > 0
    /\ budget' = budget - 1

(* Yield: the continuation is submitted, then the coroutine suspended.     *)
(* Suspend is static: a routine must yield outside the coroutines it       *)
(* resumes.                                                                *)
Yields(w) ==
    /\ current[w] \in Fibers
    /\ Goto(w, "body", "suspend")
    /\ SubmitContinuation(w, current_fiber[w])
    /\ Spend
    /\ UNCHANGED <<coroutineVars, dispatching, current_fiber, life, stack, pools,
                   allocated>>

Suspends(w) ==
    /\ Goto(w, "suspend", "check")
    /\ Suspend(w)
    /\ UNCHANGED <<poolVars, dispatching, current_fiber, life, stack, pools,
                   allocated, budget>>

(* The routine returns, and Trampoline ends. *)
Returns(w) ==
    /\ current[w] \in Fibers
    /\ Goto(w, "body", "check")
    /\ Complete(w)
    /\ UNCHANGED <<poolVars, dispatching, current_fiber, life, stack, pools,
                   allocated, budget>>

(* The routine throws: Resume throws on through Dispatch, the event loop   *)
(* and the thread's function, which ends the program.                      *)
Throws(w) ==
    /\ step[w] = "body" /\ current[w] \in Fibers
    /\ Complete(w)
    /\ HandlerThrows
    /\ UNCHANGED fiberVars

(* The routine resumes its own coroutine, which suspends, or completes; an *)
(* exception it ends with passes to the routine, which goes on or throws.  *)
ResumesNested(w) ==
    /\ step[w] = "body" /\ current[w] \in Fibers
    /\ LET c == Nested[current[w]]
       IN  c # Nobody /\ phase[c] = "suspended" /\ Resume(w, c)
    /\ Spend
    /\ UNCHANGED <<poolVars, step, dispatching, current_fiber, life, stack, pools,
                   allocated>>

NestedSwitches(w) ==
    /\ step[w] = "body" /\ current[w] \in Coroutines \ Fibers
    /\ Suspend(w) \/ Complete(w)
    /\ UNCHANGED <<poolVars, fiberVars>>

----------------------------------------------------------------------------
(* Join, and the threads of the pool leaving the event loop *)

Leaves(w) ==
    /\ stopped
    /\ Goto(w, "run", "gone")
    /\ UNCHANGED <<coroutineVars, poolVars, dispatching, current_fiber, life,
                   stack, pools, allocated, budget>>

Join == JoinResetsGuard /\ UNCHANGED <<coroutineVars, fiberVars>>

Joins ==
    /\ \A w \in Workers : step[w] = "gone"
    /\ JoinReturns
    /\ UNCHANGED <<coroutineVars, fiberVars>>

----------------------------------------------------------------------------
Continue(w) ==
    \/ Takes(w) \/ Dispatches(w) \/ AfterResume(w) \/ HandlerReturns(w)
    \/ Yields(w) \/ Suspends(w) \/ Returns(w) \/ ResumesNested(w)
    \/ NestedSwitches(w) \/ SpawnInside(w) \/ Leaves(w)

Next ==
    /\ ~terminated
    /\ \/ SpawnOutside \/ Join \/ Joins
       \/ \E w \in Workers : Continue(w) \/ Throws(w)

Spec == Init /\ [][Next]_vars

(* Workers run on, and Join returns once they have left; budgets make an   *)
(* end of it.  Nobody has to spawn, to throw or to call Join.              *)
FibersGoOn == ~terminated /\ (Joins \/ \E w \in Workers : Continue(w))

FairSpec == Spec /\ WF_vars(FibersGoOn)

----------------------------------------------------------------------------
(* A fiber is dispatched by one worker at a time, although it submits its  *)
(* next dispatch while it still runs (fiber.cpp:39-44): no other worker    *)
(* switches to a stack in use.                                             *)
OneDispatcher ==
    \A w, u \in Workers :
        dispatching[w] = dispatching[u] /\ w # u => dispatching[w] = Nobody

(* No handler, queued or running, has a deleted fiber, but for the rest of *)
(* the dispatch that deleted it; and a live fiber always has a handler     *)
(* (fiber.cpp:30-49).                                                      *)
HandlersOwnFibers ==
    LET Queued == {ready[i] : i \in DOMAIN ready}
                    \cup UNION {{deferred[w][i] : i \in DOMAIN deferred[w]} : w \in Workers}
        Running == {dispatching[w] : w \in {u \in Workers : step[u] # "finish"}} \ {Nobody}
    IN  \A f \in Fibers : life[f] = "live" <=> f \in Queued \cup Running

(* On each worker the current coroutine was resumed, directly or by way of *)
(* the fiber's routine, by the dispatch in progress (impl.cpp:15-27), also *)
(* when a routine has moved to another thread since.                       *)
CallersNest ==
    \A w \in Workers :
        /\ ~terminated => (current[w] # Nobody <=> step[w] \in {"body", "suspend"})
        /\ current[w] # Nobody =>
             \/ current[w] = current_fiber[w] /\ last[current[w]] = Nobody
             \/ /\ current[w] = Nested[current_fiber[w]]
                /\ last[current[w]] = current_fiber[w]

(* Every stack allocated belongs to one live fiber or lies in one pool,    *)
(* once (stacks.cpp:18-34, fiber.cpp:46-49).                               *)
StacksAccounted ==
    \A s \in 1..allocated :
        Cardinality({f \in Fibers : stack[f] = s})
          + Cardinality({p \in Threads \X Stacks :
                           p[2] <= Len(pools[p[1]]) /\ pools[p[1]][p[2]] = s})
          = 1

(* Join returns after every fiber has ended, those spawned by others       *)
(* meanwhile included (static_thread_pool.hpp:33-36).                      *)
JoinLosesNothing ==
    owner = "joined" => \A f \in Fibers : life[f] # "live"
=============================================================================
