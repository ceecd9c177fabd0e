---------------------------- MODULE AbstractLock ----------------------------
(***************************************************************************)
(* What a lock promises its callers: a thread asks for the lock, waits,    *)
(* owns it alone, and gives it back.  Nothing is said about who is next,   *)
(* only that a free lock somebody waits for is eventually granted.         *)
(* Mutex.tla and CondVar.tla refer to this specification.                  *)
(***************************************************************************)
CONSTANT Threads

VARIABLE st     \* what each thread is doing: "idle", "waiting" or "owner"

Owners == {t \in Threads : st[t] = "owner"}

Init == st = [t \in Threads |-> "idle"]

Request(t) ==
    /\ st[t] = "idle"
    /\ st' = [st EXCEPT ![t] = "waiting"]

Grant(t) ==
    /\ st[t] = "waiting"
    /\ Owners = {}
    /\ st' = [st EXCEPT ![t] = "owner"]

(* A Lock call that finds the lock free never waits. *)
RequestAndGrant(t) ==
    /\ st[t] = "idle"
    /\ Owners = {}
    /\ st' = [st EXCEPT ![t] = "owner"]

Release(t) ==
    /\ st[t] = "owner"
    /\ st' = [st EXCEPT ![t] = "idle"]

Next == \E t \in Threads :
            Request(t) \/ Grant(t) \/ RequestAndGrant(t) \/ Release(t)

Spec == Init /\ [][Next]_st

FairSpec == Spec /\ WF_st(\E t \in Threads : Grant(t))
=============================================================================
