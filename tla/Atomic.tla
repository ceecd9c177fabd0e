------------------------------- MODULE Atomic -------------------------------
(***************************************************************************)
(* stdlike::Atomic of mm/atomic/atomic.hpp and atomic.cpp over             *)
(* atomic_ops.S: every order of Load and of Store ends in the same plain   *)
(* move, an order the operation does not have makes Load return 0 and      *)
(* Store do nothing, and Exchange, whatever its order, is a load and a     *)
(* store after it.                                                         *)
(***************************************************************************)
EXTENDS X86TSO

MemoryOrder == {"Relaxed", "Release", "Acquire", "SeqCst"}

(* movq (%rdi), %rax: AtomicLoadRelaxed, AtomicLoadAcquire, AtomicLoadSeqCst *)
MovesFrom(t, c) == Load(t, c)

(* movq %rsi, (%rdi): the three stores *)
MovesTo(t, c, v) == Store(t, c, v)

AtomicLoad(t, c, mo) ==
    IF mo \in MemoryOrder \ {"Release"} THEN MovesFrom(t, c) ELSE 0

AtomicStore(t, c, v, mo) ==
    IF mo \in MemoryOrder \ {"Acquire"} THEN MovesTo(t, c, v)
                                        ELSE UNCHANGED memoryVars

(* operator Value and operator=, with the default order *)
Value(t, c) == AtomicLoad(t, c, "SeqCst")
Assign(t, c, v) == AtomicStore(t, c, v, "SeqCst")

(* The two instructions of AtomicExchangeSeqCst. *)
ExchangeLoad(t, c) == Load(t, c)
ExchangeStore(t, c, v) == Store(t, c, v)
=============================================================================
