----------------------------- MODULE MCCondVars -----------------------------
(***************************************************************************)
(* Instance of CondVarQueue and of Robot for TLC, the two programs of the  *)
(* stress test: two producers and two consumers, or the robot.  The        *)
(* variable program says which of them runs.                               *)
(***************************************************************************)
EXTENDS CondVarQueue, Robot

CONSTANTS p1, p2, c1, c2

VARIABLE program

MCCondVars == {"not_full", "not_empty"}
MCProducers == {p1, p2}
MCConsumers == {c1, c2}
MCWaiters == MCProducers \cup MCConsumers

allVars == <<vars, robotVars, program>>

MCInit == Init /\ RobotInit /\ program \in {"queue", "robot"}

MCNext ==
    \/ program = "queue" /\ Next /\ UNCHANGED <<robotVars, program>>
    \/ program = "robot" /\ RobotNext /\ UNCHANGED <<vars, program>>

(* The fairness of the program that runs; the threads p1 and c1 are the    *)
(* robot's legs.                                                           *)
MCContinue(t) ==
    \/ program = "queue" /\ Continue(t) /\ UNCHANGED <<robotVars, program>>
    \/ /\ program = "robot" /\ t \in {p1, c1}
       /\ StepContinues(IF t = p1 THEN "left" ELSE "right")
       /\ UNCHANGED <<vars, program>>

MCSpec ==
    /\ MCInit /\ [][MCNext]_allVars
    /\ \A t \in Waiters : SF_allVars(MCContinue(t))
=============================================================================
