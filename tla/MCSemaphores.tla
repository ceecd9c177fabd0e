---------------------------- MODULE MCSemaphores ----------------------------
(***************************************************************************)
(* Instance of BlockingQueue and of TaggedSemaphore for TLC: three         *)
(* producers and two consumers of the queue, or three users of two         *)
(* semaphores of one tag.  The variable program says which of them runs.   *)
(***************************************************************************)
EXTENDS BlockingQueue, TaggedSemaphore

VARIABLE program

MCSemaphores == {"mutex", "is_empty", "is_full"}

allVars == <<vars, taggedVars, program>>

MCInit == Init /\ TaggedInit /\ program \in {"queue", "tokens"}

(* The program has ended in a failed assert. *)
Aborted == aborted /\ UNCHANGED allVars

MCNext ==
    \/ program = "queue" /\ Next /\ UNCHANGED <<taggedVars, program>>
    \/ program = "tokens" /\ TaggedNext /\ UNCHANGED <<vars, program>>
    \/ Aborted

MCSpec ==
    /\ MCInit /\ [][MCNext]_allVars
    /\ \A p \in Producers : WF_vars(Put(p))
    /\ \A c \in Consumers : WF_vars(Take(c))
=============================================================================
