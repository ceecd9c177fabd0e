-------------------------- MODULE AbstractBarrier ---------------------------
(***************************************************************************)
(* What a cyclic barrier promises: nobody returns from its k-th Arrive     *)
(* before everybody has called Arrive k times, and once everybody has,     *)
(* everybody returns.  CyclicBarrier.tla implements this specification.    *)
(***************************************************************************)
EXTENDS Naturals

CONSTANTS Participants, Rounds      \* Rounds bounds the calls of Arrive

VARIABLES
    arrived,        \* calls of Arrive each participant has begun
    returned        \* calls of Arrive each participant has returned from

vars == <<arrived, returned>>

Init ==
    /\ arrived = [p \in Participants |-> 0]
    /\ returned = [p \in Participants |-> 0]

Arrive(p) ==
    /\ arrived[p] = returned[p]
    /\ arrived[p] < Rounds
    /\ arrived' = [arrived EXCEPT ![p] = @ + 1]
    /\ UNCHANGED returned

Return(p) ==
    /\ returned[p] < arrived[p]
    /\ \A q \in Participants : returned[p] < arrived[q]
    /\ returned' = [returned EXCEPT ![p] = @ + 1]
    /\ UNCHANGED arrived

Next == \E p \in Participants : Arrive(p) \/ Return(p)

Spec == Init /\ [][Next]_vars

FairSpec == Spec /\ \A p \in Participants : WF_vars(Return(p))
=============================================================================
