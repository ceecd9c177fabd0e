------------------------------- MODULE X86TSO -------------------------------
(***************************************************************************)
(* The memory that the assembly of the atomics runs on: an x86-64 with one *)
(* FIFO store buffer per thread.  A plain movq store goes to the buffer, a *)
(* plain movq load prefers the thread's own buffered stores, xchgq with a  *)
(* memory operand is locked: it drains the buffer and acts on memory.      *)
(* SpinLocks.tla and PetersonMutex.tla run their programs on it.           *)
(***************************************************************************)
EXTENDS Naturals, Sequences

CONSTANTS
    Threads, Cells,
    BufferSize      \* the entries of a store buffer: a store waits for room

ASSUME BufferAssumption == BufferSize \in Nat \ {0}

VARIABLES
    memory,     \* the value of each cell in the coherent memory
    buffer      \* the pending stores of each thread, oldest first

memoryVars == <<memory, buffer>>

MemoryInit ==
    /\ memory = [c \in Cells |-> 0]
    /\ buffer = [t \in Threads |-> <<>>]

(* movq (%rdi), %rax *)
Load(t, c) ==
    LET own == {i \in 1..Len(buffer[t]) : buffer[t][i].cell = c}
    IN  IF own = {} THEN memory[c]
                    ELSE buffer[t][CHOOSE i \in own : \A j \in own : j <= i].value

(* movq %rsi, (%rdi) *)
Store(t, c, v) ==
    /\ Len(buffer[t]) < BufferSize
    /\ buffer' = [buffer EXCEPT ![t] = Append(@, [cell |-> c, value |-> v])]
    /\ UNCHANGED memory

(* Mutant of LockedStore: the store of an exchange that is not locked. *)
UnlockedStore(t, c, v) == Store(t, c, v)

(* The store of xchgq %rax, (%rdi); its load is Load in the same step. *)
LockedStore(t, c, v) ==
    /\ buffer[t] = <<>>
    /\ memory' = [memory EXCEPT ![c] = v]
    /\ UNCHANGED buffer

(* Mutant of Flush: the youngest store leaves the buffer first. *)
FlushYoungest(t) ==
    /\ buffer[t] # <<>>
    /\ LET last == Len(buffer[t])
           e    == buffer[t][last]
       IN  /\ memory' = [memory EXCEPT ![e.cell] = e.value]
           /\ buffer' = [buffer EXCEPT ![t] = SubSeq(@, 1, last - 1)]

(* The oldest buffered store becomes visible to everybody. *)
Flush(t) ==
    /\ buffer[t] # <<>>
    /\ LET e == Head(buffer[t])
       IN  memory' = [memory EXCEPT ![e.cell] = e.value]
    /\ buffer' = [buffer EXCEPT ![t] = Tail(@)]
=============================================================================
