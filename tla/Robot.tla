------------------------------- MODULE Robot --------------------------------
(***************************************************************************)
(* The robot of condvar/condvar/tests/stress.cpp: two legs that step in    *)
(* turns, a mutex and one CondVar that both legs wait on.  A step is       *)
(* announced by NotifyOne or NotifyAll, by the left leg after it has       *)
(* released the mutex and by the right leg before.                         *)
(***************************************************************************)
EXTENDS Naturals

CONSTANTS SignalRange, NotNoted     \* CounterRange and Unseen of the CondVar

ASSUME RobotAssumption == SignalRange \in Nat \ {0, 1} /\ NotNoted \notin Nat

VARIABLES
    signals, noted, asleep,     \* the state of switched_
    turn,           \* step_: the leg whose step it is
    owner,          \* the leg that holds mutex_, or "nobody"
    leg             \* where each leg stands in its step function

Legs == {"left", "right"}
Other(l) == IF l = "left" THEN "right" ELSE "left"

robotVars == <<signals, noted, asleep, turn, owner, leg>>
switchedVars == <<signals, noted, asleep>>

Switched == INSTANCE CondVar
    WITH CondVars <- {"switched"}, Waiters <- Legs,
         CounterRange <- SignalRange, Unseen <- NotNoted,
         futex <- signals, seen <- noted, parked <- asleep

RobotInit ==
    /\ Switched!CondVarInit
    /\ turn = "left"
    /\ owner = "nobody"
    /\ leg = [l \in Legs |-> "idle"]

Steps(l, from, to) == leg[l] = from /\ leg' = [leg EXCEPT ![l] = to]

StepCalled(l) == Steps(l, "idle", "call") /\ UNCHANGED <<switchedVars, turn, owner>>

(* The mutex is taken, at the start or at the end of Wait, and step_ read. *)
WaitsForTurn(l) ==
    /\ owner = "nobody" /\ l \notin asleep["switched"] /\ turn # l
    /\ Steps(l, "call", "unlock")
    /\ owner' = l
    /\ Switched!Load("switched", l)
    /\ UNCHANGED turn

TakesTurn(l) ==
    /\ owner = "nobody" /\ l \notin asleep["switched"] /\ turn = l
    /\ Steps(l, "call", "add")
    /\ turn' = Other(l)
    /\ owner' = IF l = "left" THEN "nobody" ELSE l
    /\ UNCHANGED switchedVars

WaitUnlocks(l) ==
    /\ Steps(l, "unlock", "sleep")
    /\ owner' = "nobody"
    /\ UNCHANGED <<switchedVars, turn>>

WaitSleeps(l) ==
    /\ Steps(l, "sleep", "call")
    /\ Switched!FutexWait("switched", l)
    /\ UNCHANGED <<turn, owner>>

(* NotifyAtLeastOneThread: NotifyOne or NotifyAll. *)
SignalAdds(l) ==
    /\ Steps(l, "add", "wake")
    /\ Switched!FetchAdd("switched")
    /\ UNCHANGED <<turn, owner>>

SignalWakes(l) ==
    /\ Steps(l, "wake", "leave")
    /\ Switched!FutexWakeOne("switched") \/ Switched!FutexWakeAll("switched")
    /\ UNCHANGED <<turn, owner>>

StepReturns(l) ==
    /\ Steps(l, "leave", "idle")
    /\ owner' = IF owner = l THEN "nobody" ELSE owner
    /\ UNCHANGED <<switchedVars, turn>>

WakesUnasked(l) ==
    /\ Switched!SpuriousReturn("switched", l)
    /\ UNCHANGED <<turn, owner, leg>>

StepContinues(l) ==
    \/ WaitsForTurn(l) \/ TakesTurn(l) \/ WaitUnlocks(l) \/ WaitSleeps(l)
    \/ SignalAdds(l) \/ SignalWakes(l) \/ StepReturns(l)

RobotNext == \E l \in Legs : StepCalled(l) \/ StepContinues(l) \/ WakesUnasked(l)

----------------------------------------------------------------------------
(* A leg inside its step function does not wait for good while it is its   *)
(* turn: neither the announcement made with the mutex held nor the one     *)
(* made after it was released can miss a leg on its way to sleep           *)
(* (condvar.hpp:14-29).                                                    *)
TurnsTaken ==
    \A l \in Legs : []<>~(turn = l /\ leg[l] \in {"call", "unlock", "sleep"})
=============================================================================
