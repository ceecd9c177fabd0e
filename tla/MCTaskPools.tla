---------------------------- MODULE MCTaskPools -----------------------------
(***************************************************************************)
(* Instance of StaticThreadPool and of CountingTasks for TLC.  The         *)
(* variable program says whether the thread pool runs or the users of the  *)
(* counter, two runners and two waiters.                                   *)
(***************************************************************************)
EXTENDS MCStaticThreadPool, CountingTasks

VARIABLE program

allVars == <<vars, countingVars, program>>

MCInit == Init /\ CountingInit /\ program \in {"pool", "counter"}

MCNext ==
    \/ program = "pool" /\ Next /\ UNCHANGED <<countingVars, program>>
    \/ program = "counter" /\ CountingNext /\ UNCHANGED <<vars, program>>

MCSpec == MCInit /\ [][MCNext]_allVars /\ Fairness
=============================================================================
