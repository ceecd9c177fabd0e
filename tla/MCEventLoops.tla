---------------------------- MODULE MCEventLoops ----------------------------
(***************************************************************************)
(* Instance of the programs that live on an asio event loop, for TLC.  The *)
(* variable program says which one runs:                                   *)
(*   "fibers"      Fibers: three of them on two workers, one of which      *)
(*                 resumes a coroutine of its own                          *)
(*   "coroutines"  CoroutineTasks: three coroutines on two workers         *)
(*   "tasks"       TaskLoop: four tasks on two workers                     *)
(*   "echo"        EchoServer: two clients, one of which may stop reading  *)
(***************************************************************************)
EXTENDS Fibers, CoroutineTasks, TaskLoop, EchoServer

CONSTANTS f1, f2, f3, generator

MCFiberSet == {f1, f2, f3}
MCCoroutines == MCFiberSet \cup {generator}
MCNested == [f \in MCFiberSet |-> IF f = f1 THEN generator ELSE Nobody]

VARIABLE program

ownFiberVars == <<coroutineVars, fiberVars>>
ownCoroutineVars == <<contextVars, resultVars, resumptions>>
ownLoopVars == <<task, submitted, done, promised>>
allVars == <<poolVars, ownFiberVars, ownCoroutineVars, ownLoopVars, echoVars, program>>

MCInit ==
    /\ Init /\ CoroutineTasksInit /\ TaskLoopInit /\ EchoInit
    /\ program \in {"fibers", "coroutines", "tasks", "echo"}

FibersRun == program = "fibers" /\ UNCHANGED <<ownCoroutineVars, ownLoopVars, echoVars, program>>
CoroutinesRun == program = "coroutines" /\ UNCHANGED <<ownFiberVars, ownLoopVars, echoVars, program>>
TasksRun == program = "tasks" /\ UNCHANGED <<ownFiberVars, ownCoroutineVars, echoVars, program>>
EchoRuns == program = "echo" /\ UNCHANGED <<poolVars, ownFiberVars, ownCoroutineVars, ownLoopVars, program>>

MCNext ==
    \/ FibersRun /\ Next
    \/ CoroutinesRun /\ CoroutineTasksNext
    \/ TasksRun /\ TaskLoopNext
    \/ EchoRuns /\ EchoNext

(* Whoever has something to do in the program that runs goes on. *)
MCGoesOn ==
    \/ FibersRun /\ FibersGoOn
    \/ CoroutinesRun /\ CoroutineTasksGoOn
    \/ TasksRun /\ TaskLoopGoesOn
    \/ EchoRuns /\ EchoGoesOn

MCSpec == MCInit /\ [][MCNext]_allVars /\ WF_allVars(MCGoesOn)
=============================================================================
