--------------------------- MODULE CoroutineTasks ---------------------------
(***************************************************************************)
(* The coroutines and the thread pool of fibers/coroutine, without the     *)
(* fibers, which that task leaves to be written: tasks of the pool resume  *)
(* coroutines, which resume each other, suspend, return and throw.  Here   *)
(* Resume and Suspend are switches between contexts, which find their way  *)
(* by the thread_local pointer current; Coroutine.tla is what they promise.*)
(* The switch itself is a library's.                                       *)
(***************************************************************************)
EXTENDS EventLoopPool, FiniteSets

CONSTANTS
    Generators,     \* the SimpleCoroutines
    None,           \* nullptr, or no exception
    Resumptions     \* a bound on the calls of Resume

ASSUME CoroutineTasksAssumption ==
    /\ Workers \cap Generators = {} /\ None \notin Workers \cup Generators
    /\ Resumptions \in Nat

VARIABLES
    executing,          \* the context each worker is in: its own, or a coroutine
    at,                 \* where the code of each context stands
    callee,             \* the coroutine each context resumes, or has a task for
    current_coroutine,  \* the thread_local current of each worker
    last_coroutine,     \* the local last of the Resume call for each coroutine
    caller_context,     \* the context saved in each coroutine's caller_context_
    is_completed, exception,    \* exception_: who threw it, or None
    raised,             \* the exception that passes through each context
    uncaught,           \* history: exceptions thrown and not caught yet
    resumptions         \* the calls of Resume made or submitted so far

contextVars == <<executing, at, callee, current_coroutine, last_coroutine, caller_context>>
resultVars == <<is_completed, exception, raised, uncaught>>

Own == Workers
AllContexts == Own \cup Generators

CoroutineTasksInit ==
    /\ PoolInit
    /\ executing = [w \in Workers |-> w]
    /\ at = [x \in AllContexts |-> IF x \in Own THEN "loop" ELSE "new"]
    /\ callee = [x \in AllContexts |-> None]
    /\ current_coroutine = [w \in Workers |-> None]
    /\ last_coroutine = [c \in Generators |-> None]
    /\ caller_context = [c \in Generators |-> None]
    /\ is_completed = [c \in Generators |-> FALSE]
    /\ exception = [c \in Generators |-> None]
    /\ raised = [x \in AllContexts |-> None]
    /\ uncaught = {}
    /\ resumptions = 0

Counts == resumptions < Resumptions /\ resumptions' = resumptions + 1

(* The program resumes a coroutine that is suspended or new and that       *)
(* nobody else is about to resume.                                         *)
MayResume(c) ==
    /\ at[c] \in {"new", "parked"}
    /\ c \notin {ready[i] : i \in DOMAIN ready}
    /\ \A w \in Workers : c \notin {deferred[w][i] : i \in DOMAIN deferred[w]}
    /\ \A x \in AllContexts : callee[x] # c

Stands(w, places) == at[executing[w]] \in places

Goes(w, from, to) ==
    Stands(w, from) /\ at' = [at EXCEPT ![executing[w]] = to]

----------------------------------------------------------------------------
(* Tasks of the pool *)

(* scheduler_.Submit([this] { coroutine_.Resume(); }), outside the pool *)
SubmitsResumption ==
    /\ owner = "open"
    /\ \E c \in Generators : MayResume(c) /\ Submit(c)
    /\ Counts
    /\ UNCHANGED <<contextVars, resultVars>>

TaskBegins(w) ==
    /\ executing[w] = w /\ Goes(w, {"loop"}, "task")
    /\ TakeHandler
    /\ callee' = [callee EXCEPT ![w] = Head(ready)]
    /\ UNCHANGED <<executing, current_coroutine, last_coroutine, caller_context,
                   resultVars, resumptions>>

(* The task submits the next resumption of its coroutine. *)
Resubmits(w) ==
    LET c == callee[w]
    IN  /\ executing[w] = w /\ Goes(w, {"resumed"}, "done")
        /\ ~is_completed[c] /\ Counts
        /\ Submit(c) \/ SubmitContinuation(w, c)
        /\ callee' = [callee EXCEPT ![w] = None]
        /\ UNCHANGED <<executing, current_coroutine, last_coroutine, caller_context,
                       resultVars>>

TaskEnds(w) ==
    /\ executing[w] = w /\ Goes(w, {"resumed", "done"}, "loop")
    /\ FinishHandler(w)
    /\ callee' = [callee EXCEPT ![w] = None]
    /\ UNCHANGED <<executing, current_coroutine, last_coroutine, caller_context,
                   resultVars, resumptions>>

TaskThrows(w) ==
    /\ executing[w] = w /\ Stands(w, {"raised"})
    /\ HandlerThrows
    /\ UNCHANGED <<contextVars, resultVars, resumptions>>

LoopEnds(w) ==
    /\ stopped
    /\ executing[w] = w /\ Goes(w, {"loop"}, "gone")
    /\ UNCHANGED <<poolVars, executing, callee, current_coroutine, last_coroutine,
                   caller_context, resultVars, resumptions>>

JoinCalled ==
    JoinResetsGuard /\ UNCHANGED <<contextVars, resultVars, resumptions>>

JoinEnded ==
    /\ \A w \in Workers : at[w] = "gone"
    /\ JoinReturns
    /\ UNCHANGED <<contextVars, resultVars, resumptions>>

----------------------------------------------------------------------------
(* Resume *)

(* auto* last = std::exchange(current, this) *)
ResumeCalled(w, c) ==
    LET x == executing[w]
    IN  /\ Goes(w, {"task", "code"}, "resume")
        /\ IF x = w THEN c = callee[w] /\ UNCHANGED resumptions
                    ELSE MayResume(c) /\ Counts
        /\ callee' = [callee EXCEPT ![x] = c]
        /\ last_coroutine' = [last_coroutine EXCEPT ![c] = current_coroutine[w]]
        /\ current_coroutine' = [current_coroutine EXCEPT ![w] = c]
        /\ UNCHANGED <<poolVars, executing, caller_context, resultVars>>

(* caller_context_.SwitchTo(coroutine_context_): the routine begins, in    *)
(* Trampoline, or goes on after its Suspend.                               *)
SwitchesTo(w) ==
    LET x == executing[w]
        c == callee[x]
    IN  /\ Stands(w, {"resume"})
        /\ caller_context' = [caller_context EXCEPT ![c] = x]
        /\ executing' = [executing EXCEPT ![w] = c]
        /\ at' = [at EXCEPT ![x] = "return", ![c] = "code"]
        /\ UNCHANGED <<poolVars, callee, current_coroutine, last_coroutine,
                       resultVars, resumptions>>

(* Mutant of Rethrows: only the outermost Resume throws. *)
RethrowsOutermost(x, c) ==
    exception[c] # None /\ last_coroutine[c] = None /\ x \in AllContexts

(* if (exception_) std::rethrow_exception(exception_) *)
Rethrows(x, c) == exception[c] # None /\ x \in AllContexts

(* Mutant of ResumeReturns: it throws before it has restored current. *)
ResumeThrowsFirst(w) ==
    LET x == executing[w]
        c == callee[x]
    IN  /\ Goes(w, {"return"}, IF Rethrows(x, c) THEN "raised"
                               ELSE IF x = w THEN "resumed" ELSE "code")
        /\ raised' = [raised EXCEPT ![x] = IF Rethrows(x, c) THEN exception[c] ELSE @]
        /\ current_coroutine' = [current_coroutine EXCEPT
                                   ![w] = IF Rethrows(x, c) THEN @ ELSE last_coroutine[c]]
        /\ last_coroutine' = [last_coroutine EXCEPT ![c] = None]
        /\ callee' = [callee EXCEPT ![x] = IF x = w THEN c ELSE None]
        /\ UNCHANGED <<poolVars, executing, caller_context, is_completed,
                       exception, uncaught, resumptions>>

(* std::exchange(current, last), the exception of the routine, and the end *)
(* of the local last.                                                      *)
ResumeReturns(w) ==
    LET x == executing[w]
        c == callee[x]
    IN  /\ Goes(w, {"return"}, IF Rethrows(x, c) THEN "raised"
                               ELSE IF x = w THEN "resumed" ELSE "code")
        /\ raised' = [raised EXCEPT ![x] = IF Rethrows(x, c) THEN exception[c] ELSE @]
        /\ current_coroutine' = [current_coroutine EXCEPT ![w] = last_coroutine[c]]
        /\ last_coroutine' = [last_coroutine EXCEPT ![c] = None]
        /\ callee' = [callee EXCEPT ![x] = IF x = w THEN c ELSE None]
        /\ UNCHANGED <<poolVars, executing, caller_context, is_completed,
                       exception, uncaught, resumptions>>

----------------------------------------------------------------------------
(* Suspend and Trampoline, which run in the context of a coroutine *)

Switch(w, c) == executing' = [executing EXCEPT ![w] = caller_context[c]]

InRoutine(w) == executing[w] \in Generators

(* current->coroutine_context_.SwitchTo(current->caller_context_) *)
SuspendCalled(w) ==
    /\ InRoutine(w) /\ Goes(w, {"code"}, "parked")
    /\ Switch(w, current_coroutine[w])
    /\ UNCHANGED <<poolVars, callee, current_coroutine, last_coroutine,
                   caller_context, resultVars, resumptions>>

(* The payload throws, or throws on what it has caught. *)
RoutineThrows(w) ==
    /\ InRoutine(w) /\ Goes(w, {"code"}, "raised")
    /\ raised' = [raised EXCEPT ![executing[w]] = executing[w]]
    /\ uncaught' = uncaught \cup {executing[w]}
    /\ UNCHANGED <<poolVars, executing, callee, current_coroutine, last_coroutine,
                   caller_context, is_completed, exception, resumptions>>

(* A routine or a task catches what a Resume has thrown; that a routine    *)
(* catches what it throws itself is its own affair.                        *)
Catches(w) ==
    LET x == executing[w]
    IN  /\ raised[x] # x
        /\ Goes(w, {"raised"}, IF x = w THEN "resumed" ELSE "code")
        /\ raised' = [raised EXCEPT ![x] = None]
        /\ uncaught' = uncaught \ {raised[x]}
        /\ UNCHANGED <<poolVars, executing, callee, current_coroutine, last_coroutine,
                       caller_context, is_completed, exception, resumptions>>

(* The payload has ended: an exception goes to exception_ of the current   *)
(* coroutine, whose is_completed_ is set.                                  *)
RoutineEnds(w) ==
    LET x == executing[w]
        c == current_coroutine[w]
    IN  /\ InRoutine(w) /\ Goes(w, {"code", "raised"}, "exit")
        /\ exception' = [exception EXCEPT ![c] = raised[x]]
        /\ raised' = [raised EXCEPT ![x] = None]
        /\ is_completed' = [is_completed EXCEPT ![c] = TRUE]
        /\ UNCHANGED <<poolVars, executing, callee, current_coroutine, last_coroutine,
                       caller_context, uncaught, resumptions>>

(* current->coroutine_context_.ExitTo(current->caller_context_) *)
ExitsTo(w) ==
    /\ InRoutine(w) /\ Goes(w, {"exit"}, "over")
    /\ Switch(w, current_coroutine[w])
    /\ UNCHANGED <<poolVars, callee, current_coroutine, last_coroutine,
                   caller_context, resultVars, resumptions>>

----------------------------------------------------------------------------
CoroutineGoesOn(w) ==
    \/ \E c \in Generators : ResumeCalled(w, c)
    \/ SwitchesTo(w) \/ ResumeReturns(w) \/ SuspendCalled(w)
    \/ RoutineThrows(w) \/ Catches(w) \/ RoutineEnds(w) \/ ExitsTo(w)

WorkerGoesOn(w) ==
    \/ TaskBegins(w) \/ Resubmits(w) \/ TaskEnds(w) \/ LoopEnds(w)
    \/ CoroutineGoesOn(w)

CoroutineTasksNext ==
    /\ ~terminated
    /\ \/ SubmitsResumption \/ JoinCalled \/ JoinEnded
       \/ \E w \in Workers : WorkerGoesOn(w) \/ TaskThrows(w)

CoroutineTasksSpec ==
    CoroutineTasksInit /\ [][CoroutineTasksNext]_<<poolVars, contextVars, resultVars, resumptions>>

(* Workers run on, and Join returns once they have left; the bounds make   *)
(* an end of it.  Nobody has to submit, to throw out of a task or to join. *)
CoroutineTasksGoOn == ~terminated /\ (JoinEnded \/ \E w \in Workers : WorkerGoesOn(w))

----------------------------------------------------------------------------
(* What a context switch does is told by the contexts themselves: a        *)
(* coroutine that is in a routine, or below one, runs.                     *)
InProgress(c) == at[c] \in {"code", "resume", "return", "raised", "exit"}

Nesting == INSTANCE Coroutine WITH
    Threads <- Workers, Coroutines <- Generators, Nobody <- None,
    current <- [w \in Workers |-> IF executing[w] \in Own THEN None ELSE executing[w]],
    last <- [c \in Generators |->
               IF InProgress(c) /\ caller_context[c] \in Generators
               THEN caller_context[c] ELSE None],
    phase <- [c \in Generators |-> IF InProgress(c) THEN "running"
                                   ELSE IF at[c] = "over" THEN "completed"
                                   ELSE "suspended"]

(* The switches between contexts, which the pointers current and last      *)
(* direct, are those of nested coroutines: whatever tasks and routines     *)
(* resume, on whatever worker, with exceptions on their way, a switch out  *)
(* of a coroutine leads to who resumed it last (impl.cpp:15-43).           *)
ImplementsCoroutines == Nesting!CoroutineSpec

(* An exception climbs from Resume to Resume until somebody catches it: at *)
(* any moment it passes through one routine or task, or lies in            *)
(* exception_ of one coroutine whose Resume is about to throw it on        *)
(* (impl.cpp:20-22, 36-42).                                                *)
ExceptionsClimb ==
    /\ \A x \in AllContexts : raised[x] # None => raised[x] \in uncaught
    /\ \A e \in uncaught :
         Cardinality({x \in AllContexts : raised[x] = e})
           + Cardinality({c \in Generators :
                 /\ exception[c] = e
                 /\ \E x \in AllContexts : at[x] = "return" /\ callee[x] = c})
           = 1
=============================================================================
