------------------------------ MODULE MCTables ------------------------------
(***************************************************************************)
(* Instance of ForksTable and DiningTable for TLC: tables for two, three   *)
(* and five with mutexes for forks, or a table for three with ticket       *)
(* locks.  The variable philosophers says which of the two programs runs.  *)
(***************************************************************************)
EXTENDS ForksTable, DiningTable

VARIABLE philosophers

MCTableSizes == {2, 3, 5}

allVars == <<vars, diningVars, philosophers>>

MCInit ==
    /\ Init /\ DiningInit
    /\ philosophers \in {"withTicketLocks", "withMutexes"}
    /\ philosophers = "withTicketLocks" => num_seats = 3

MCNext ==
    \/ /\ philosophers = "withTicketLocks" /\ Next
       /\ UNCHANGED <<diningVars, philosophers>>
    \/ /\ philosophers = "withMutexes" /\ DiningNext
       /\ UNCHANGED <<vars, philosophers>>

MCSpec ==
    /\ MCInit /\ [][MCNext]_allVars
    /\ \A p \in Threads : WF_vars(Continue(p))
    /\ DiningFairness
=============================================================================
