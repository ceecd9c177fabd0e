----------------------------- MODULE Coroutine ------------------------------
(***************************************************************************)
(* mtf::coroutine::impl::Coroutine of coroutine/mtf/coroutine/impl.cpp:    *)
(* stackful asymmetric coroutines.  What runs on a thread is the body of   *)
(* its current coroutine, or the thread's own code when there is none.     *)
(* Fibers.tla runs its fibers, and what they resume, by these operations.  *)
(***************************************************************************)
EXTENDS Naturals, Sequences, FiniteSets

CONSTANTS
    Threads,        \* threads that may resume coroutines
    Coroutines,
    Nobody          \* nullptr

VARIABLES
    current,        \* the thread_local Coroutine* current of each thread
    last,           \* the local of the Resume frame that waits for a coroutine
    phase           \* each coroutine: suspended, running, completed

coroutineVars == <<current, last, phase>>

Phases == {"suspended", "running", "completed"}

CoroutineTypeOK ==
    /\ current \in [Threads -> Coroutines \cup {Nobody}]
    /\ last \in [Coroutines -> Coroutines \cup {Nobody}]
    /\ phase \in [Coroutines -> Phases]

CoroutineInit ==
    /\ current = [w \in Threads |-> Nobody]
    /\ last = [c \in Coroutines |-> Nobody]
    /\ phase = [c \in Coroutines |-> "suspended"]

(* Mutant of Resume: the resumer is not remembered. *)
ResumeForgets(w, c) ==
    /\ current' = [current EXCEPT ![w] = c]
    /\ phase' = [phase EXCEPT ![c] = "running"]
    /\ UNCHANGED last

(* Resume up to its switch: the body of c runs on w. *)
Resume(w, c) ==
    /\ last' = [last EXCEPT ![c] = current[w]]
    /\ current' = [current EXCEPT ![w] = c]
    /\ phase' = [phase EXCEPT ![c] = "running"]

(* The switch back and the end of Resume: the resumer runs on. *)
SwitchBack(w, p) ==
    LET c == current[w]
    IN  /\ current' = [current EXCEPT ![w] = last[c]]
        /\ last' = [last EXCEPT ![c] = Nobody]
        /\ phase' = [phase EXCEPT ![c] = p]

Suspend(w) == SwitchBack(w, "suspended")

(* The end of Trampoline: is_completed_ is set, also after an exception. *)
Complete(w) == SwitchBack(w, "completed")

IsCompleted(c) == phase[c] = "completed"

(* Coroutines and nothing else: the code on a thread resumes suspended     *)
(* ones, and its current one suspends itself or completes.                 *)
CoroutineStep(w) ==
    \/ \E c \in Coroutines : phase[c] = "suspended" /\ Resume(w, c)
    \/ current[w] # Nobody /\ (Suspend(w) \/ Complete(w))

CoroutineSpec == CoroutineInit /\ [][\E w \in Threads : CoroutineStep(w)]_coroutineVars
=============================================================================
