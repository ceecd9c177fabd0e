-------------------------- MODULE Semaphores_proofs -------------------------
(***************************************************************************)
(* The permits of BlockingQueue.tla are conserved and the queue implements *)
(* the abstract one, for every set of producers, consumers and values and  *)
(* every capacity; and the tokens of TaggedSemaphore.tla are conserved,    *)
(* for all finite sets of users and of semaphores.                         *)
(***************************************************************************)
EXTENDS BlockingQueue, TaggedSemaphore, FiniteSetTheorems, TLAPS

(* TypeOK without the bounds on permits, which follow from their           *)
(* conservation; and a producer that has not inserted has its value.       *)
Types ==
    /\ counter \in [Semaphores -> Nat]
    /\ waiting \in [Semaphores -> SUBSET Threads]
    /\ buffer \in Seq(Values)
    /\ pc \in [Threads -> Places]
    /\ value \in [Threads -> Values \cup {NoValue}]
    /\ \A p \in Producers : pc[p] \in {"slot", "lock", "buffer"} => value[p] \in Values
    /\ \A p \in Producers : pc[p] # "return"

IInv == Types /\ PermitsConserved

----------------------------------------------------------------------------
(* Two finite sets that differ at most in t. *)
LEMMA CardinalityMoves ==
  ASSUME NEW S, IsFiniteSet(S), NEW R, IsFiniteSet(R), NEW t, S \ {t} = R \ {t}
  PROVE  /\ Cardinality(S) \in Nat /\ Cardinality(R) \in Nat
         /\ Cardinality(R) = Cardinality(S) + (IF t \in R THEN 1 ELSE 0)
                                            - (IF t \in S THEN 1 ELSE 0)
         /\ t \in S => Cardinality(S) > 0
<1>1. Cardinality(S) \in Nat /\ Cardinality(R) \in Nat
  BY FS_CardinalityType
<1>2. Cardinality(S \ {t}) = IF t \in S THEN Cardinality(S) - 1 ELSE Cardinality(S)
  BY FS_RemoveElement
<1>3. Cardinality(R \ {t}) = IF t \in R THEN Cardinality(R) - 1 ELSE Cardinality(R)
  BY FS_RemoveElement
<1>4. t \in S => Cardinality(S) > 0
  BY <1>1, FS_EmptySet
<1>5. Cardinality(R \ {t}) = Cardinality(S \ {t})
  OBVIOUS
<1> QED BY <1>1, <1>2, <1>3, <1>4, <1>5

(* How many of T stand in P, when t goes from one place to another. *)
Moved(t, T, P, from, to) ==
    /\ At(T, P) \in Nat /\ At(T, P)' \in Nat
    /\ At(T, P)' = At(T, P) + (IF t \in T /\ to \in P THEN 1 ELSE 0)
                            - (IF t \in T /\ from \in P THEN 1 ELSE 0)

LEMMA FiniteSides ==
  ASSUME NEW T \in {Producers, Consumers, Threads}
  PROVE  T \subseteq Threads /\ IsFiniteSet(T)
<1>1. IsFiniteSet(Producers) /\ IsFiniteSet(Consumers)
  BY QueueAssumption
<1>2. IsFiniteSet(Producers \cup Consumers)
  BY <1>1, FS_Union
<1> QED BY <1>1, <1>2 DEF Threads

LEMMA PlacesMove ==
  ASSUME Types, NEW t \in Threads, NEW from \in Places, NEW to \in Places,
         Goto(t, from, to), NEW T \in {Producers, Consumers, Threads}, NEW P
  PROVE  Moved(t, T, P, from, to)
<1> DEFINE S == {u \in T : pc[u] \in P}
           R == {u \in T : pc'[u] \in P}
<1>1. T \subseteq Threads /\ IsFiniteSet(T)
  BY FiniteSides
<1>2. /\ pc[t] = from /\ pc'[t] = to
      /\ \A u \in T \ {t} : pc'[u] = pc[u]
  BY <1>1 DEF Types, Goto
<1>3. IsFiniteSet(S) /\ IsFiniteSet(R)
  BY <1>1, FS_Subset
<1>4. S \ {t} = R \ {t}
  BY <1>2
<1>5. /\ t \in S <=> t \in T /\ from \in P
      /\ t \in R <=> t \in T /\ to \in P
  BY <1>2
<1>6. At(T, P) = Cardinality(S) /\ At(T, P)' = Cardinality(R)
  BY DEF At
<1> HIDE DEF S, R
<1> QED BY <1>3, <1>4, <1>5, <1>6, CardinalityMoves DEF Moved

(* The sums are numbers, and the one a thread stands in is not 0. *)
LEMMA Present ==
  ASSUME NEW T \in {Producers, Consumers, Threads}, NEW P
  PROVE  /\ At(T, P) \in Nat
         /\ \A t \in T : pc[t] \in P => At(T, P) > 0
<1> DEFINE S == {u \in T : pc[u] \in P}
<1>1. IsFiniteSet(S)
  BY FiniteSides, FS_Subset
<1>2. At(T, P) = Cardinality(S)
  BY DEF At
<1>3. \A t \in T : pc[t] \in P => t \in S
  OBVIOUS
<1> HIDE DEF S
<1> QED BY <1>1, <1>2, <1>3, CardinalityMoves

(* The five counts of PermitsConserved: slots of Puts that have not        *)
(* inserted, slots of Takes that have removed, items about to be           *)
(* announced, items claimed, holders of the buffer's mutex.                *)
Reserved == At(Producers, {"lock", "buffer"})
Vacated == At(Consumers, {"unlock", "signal"})
Unannounced == At(Producers, {"unlock", "signal"})
Claimed == At(Consumers, {"lock", "buffer"})
Inside == At(Threads, {"buffer", "unlock"})

LEMMA Numbers ==
  /\ Reserved \in Nat /\ Vacated \in Nat /\ Unannounced \in Nat
  /\ Claimed \in Nat /\ Inside \in Nat
BY Present DEF Reserved, Vacated, Unannounced, Claimed, Inside

(* What a step adds to the permits, the buffer and the counts: if the      *)
(* three sums stay balanced, the permits stay conserved.                   *)
LEMMA Balanced ==
  ASSUME PermitsConserved,
         NEW f \in Int, NEW e \in Int, NEW m \in Int, NEW l \in Int,
         NEW r \in Int, NEW v \in Int, NEW u \in Int, NEW k \in Int, NEW i \in Int,
         f + l + r + v = 0, e + u + k = l, m + i = 0,
         counter \in [Semaphores -> Nat], Len(buffer) \in Nat,
         counter'["is_full"] = counter["is_full"] + f,
         counter'["is_empty"] = counter["is_empty"] + e,
         counter'["mutex"] = counter["mutex"] + m,
         Len(buffer') = Len(buffer) + l,
         Reserved' = Reserved + r, Vacated' = Vacated + v,
         Unannounced' = Unannounced + u, Claimed' = Claimed + k, Inside' = Inside + i
  PROVE  PermitsConserved'
<1>1. /\ counter["is_full"] + Len(buffer) + Reserved + Vacated = Capacity
      /\ counter["is_empty"] + Unannounced + Claimed = Len(buffer)
      /\ counter["mutex"] + Inside = 1
  BY DEF PermitsConserved, Reserved, Vacated, Unannounced, Claimed, Inside
<1>2. /\ counter["is_full"] \in Nat /\ counter["is_empty"] \in Nat /\ counter["mutex"] \in Nat
      /\ Capacity \in Nat
  BY QueueAssumption
<1> DEFINE a == counter["is_full"]
           b == counter["is_empty"]
           n == Len(buffer)
<1> HIDE DEF a, b, n
<1>3. a \in Nat /\ b \in Nat /\ n \in Nat
  BY <1>2, Zenon DEF a, b, n
<1>4. /\ a + n + Reserved + Vacated = Capacity
      /\ b + Unannounced + Claimed = n
  BY <1>1 DEF a, b, n
<1>5. (a + f) + (n + l) + (Reserved + r) + (Vacated + v) = Capacity
  BY <1>3, <1>4, Numbers, SMTT(30)
<1>6. (b + e) + (Unannounced + u) + (Claimed + k) = n + l
  BY <1>3, <1>4, Numbers, SMTT(30)
<1>7. /\ counter'["is_full"] + Len(buffer') + Reserved' + Vacated' = Capacity
      /\ counter'["is_empty"] + Unannounced' + Claimed' = Len(buffer')
  BY <1>5, <1>6, Zenon DEF a, b, n
<1>8. counter'["mutex"] + Inside' = 1
  BY <1>1, <1>2, Numbers
<1> QED BY <1>7, <1>8
        DEF PermitsConserved, Reserved, Vacated, Unannounced, Claimed, Inside

(* What a producer that moves does to the counts, and a consumer.          *)
Step(t, T, P, from, to) ==
    (IF t \in T /\ to \in P THEN 1 ELSE 0) - (IF t \in T /\ from \in P THEN 1 ELSE 0)

LEMMA CountsMove ==
  ASSUME Types, NEW t \in Threads, NEW from \in Places, NEW to \in Places,
         Goto(t, from, to)
  PROVE  /\ Reserved' = Reserved + Step(t, Producers, {"lock", "buffer"}, from, to)
         /\ Vacated' = Vacated + Step(t, Consumers, {"unlock", "signal"}, from, to)
         /\ Unannounced' = Unannounced + Step(t, Producers, {"unlock", "signal"}, from, to)
         /\ Claimed' = Claimed + Step(t, Consumers, {"lock", "buffer"}, from, to)
         /\ Inside' = Inside + Step(t, Threads, {"buffer", "unlock"}, from, to)
         /\ Unannounced' \in Nat /\ Claimed' \in Nat
<1>1. ASSUME NEW T \in {Producers, Consumers, Threads}, NEW P
      PROVE  At(T, P)' = At(T, P) + Step(t, T, P, from, to) /\ At(T, P)' \in Nat
  BY PlacesMove DEF Moved, Step
<1> QED BY <1>1 DEF Reserved, Vacated, Unannounced, Claimed, Inside

(* What a step adds to a semaphore and to the buffer. *)
Permits(s) == counter'[s] - counter[s]
Items == Len(buffer') - Len(buffer)

(* The books of a step of t, and that a balanced step conserves permits.   *)
BooksBalance(t, from, to) ==
    /\ Permits("is_full") + Items + Step(t, Producers, {"lock", "buffer"}, from, to)
         + Step(t, Consumers, {"unlock", "signal"}, from, to) = 0
    /\ Permits("is_empty") + Step(t, Producers, {"unlock", "signal"}, from, to)
         + Step(t, Consumers, {"lock", "buffer"}, from, to) = Items
    /\ Permits("mutex") + Step(t, Threads, {"buffer", "unlock"}, from, to) = 0

LEMMA StepInt ==
  ASSUME NEW t, NEW T, NEW P, NEW from, NEW to
  PROVE  Step(t, T, P, from, to) \in Int
BY DEF Step

LEMMA BalancedMove ==
  ASSUME IInv, NEW t \in Threads, NEW from \in Places, NEW to \in Places,
         Goto(t, from, to), counter' \in [Semaphores -> Nat], Len(buffer') \in Nat,
         BooksBalance(t, from, to)
  PROVE  PermitsConserved'
<1> DEFINE r == Step(t, Producers, {"lock", "buffer"}, from, to)
           v == Step(t, Consumers, {"unlock", "signal"}, from, to)
           u == Step(t, Producers, {"unlock", "signal"}, from, to)
           k == Step(t, Consumers, {"lock", "buffer"}, from, to)
           i == Step(t, Threads, {"buffer", "unlock"}, from, to)
           f == Permits("is_full")
           e == Permits("is_empty")
           m == Permits("mutex")
           l == Items
<1>1. /\ Reserved' = Reserved + r /\ Vacated' = Vacated + v
      /\ Unannounced' = Unannounced + u /\ Claimed' = Claimed + k /\ Inside' = Inside + i
  BY CountsMove DEF IInv
<1>2. r \in Int /\ v \in Int /\ u \in Int /\ k \in Int /\ i \in Int
  BY StepInt
<1>3. f + l + r + v = 0 /\ e + u + k = l /\ m + i = 0
  BY DEF BooksBalance
<1>4. counter \in [Semaphores -> Nat] /\ Len(buffer) \in Nat
  BY DEF IInv, Types
<1>5. /\ f \in Int /\ e \in Int /\ m \in Int /\ l \in Int
      /\ counter'["is_full"] = counter["is_full"] + f
      /\ counter'["is_empty"] = counter["is_empty"] + e
      /\ counter'["mutex"] = counter["mutex"] + m
      /\ Len(buffer') = Len(buffer) + l
  <2>1. \A s \in Semaphores : counter[s] \in Nat /\ counter'[s] \in Nat
    BY <1>4
  <2> QED BY <2>1, <1>4, QueueAssumption, SMTT(30) DEF Permits, Items
<1>6. PermitsConserved
  BY DEF IInv
<1> HIDE DEF r, v, u, k, i, f, e, m, l
<1> QED BY <1>1, <1>2, <1>3, <1>4, <1>5, <1>6, Balanced

(* A step that moves nobody leaves the sums alone. *)
LEMMA Unmoved ==
  ASSUME PermitsConserved, UNCHANGED <<pc, buffer, counter>>
  PROVE  PermitsConserved'
BY DEF PermitsConserved, At

----------------------------------------------------------------------------
LEMMA InitIInv == Init => IInv
<1> SUFFICES ASSUME Init PROVE IInv
  OBVIOUS
<1> USE QueueAssumption DEF Init, SemInit
<1>1. Types
  BY DEF Types, Places, Threads
<1>2. ASSUME NEW T \in {Producers, Consumers, Threads}, NEW P, "idle" \notin P
      PROVE  At(T, P) = 0
  <2>1. {t \in T : pc[t] \in P} = {}
    BY <1>2 DEF Threads
  <2> QED BY <2>1, FS_EmptySet DEF At
<1>3. /\ At(Producers, {"lock", "buffer"}) = 0 /\ At(Consumers, {"unlock", "signal"}) = 0
      /\ At(Producers, {"unlock", "signal"}) = 0 /\ At(Consumers, {"lock", "buffer"}) = 0
      /\ At(Threads, {"buffer", "unlock"}) = 0
  BY <1>2
<1>4. /\ counter["is_full"] = Capacity /\ counter["is_empty"] = 0
      /\ counter["mutex"] = 1 /\ Len(buffer) = 0
  OBVIOUS
<1> QED BY <1>1, <1>3, <1>4 DEF IInv, PermitsConserved

(* A consumer that holds an item's permit and the mutex finds an item; a   *)
(* producer that holds a slot finds room.                                  *)
LEMMA ItemThere ==
  ASSUME IInv, NEW c \in Consumers, pc[c] = "buffer"
  PROVE  Len(buffer) > 0 /\ buffer # <<>>
<1>1. c \in Threads
  BY DEF Threads
<1>2. At(Consumers, {"lock", "buffer"}) > 0
  BY <1>1, Present DEF IInv
<1>3. /\ At(Producers, {"unlock", "signal"}) \in Nat
      /\ At(Consumers, {"lock", "buffer"}) \in Nat
  BY <1>1, Present DEF IInv
<1>4. counter["is_empty"] \in Nat /\ buffer \in Seq(Values)
  BY QueueAssumption DEF IInv, Types
<1>5. Len(buffer) > 0
  BY <1>2, <1>3, <1>4 DEF IInv, PermitsConserved
<1> QED BY <1>4, <1>5

LEMMA RoomThere ==
  ASSUME IInv, NEW p \in Producers, pc[p] = "buffer"
  PROVE  Len(buffer) < Capacity
<1>1. p \in Threads
  BY DEF Threads
<1>2. At(Producers, {"lock", "buffer"}) > 0
  BY <1>1, Present DEF IInv
<1>3. /\ At(Producers, {"lock", "buffer"}) \in Nat
      /\ At(Consumers, {"unlock", "signal"}) \in Nat
  BY <1>1, Present DEF IInv
<1>4. counter["is_full"] \in Nat /\ Len(buffer) \in Nat /\ Capacity \in Nat
  BY QueueAssumption DEF IInv, Types
<1> QED BY <1>2, <1>3, <1>4 DEF IInv, PermitsConserved

----------------------------------------------------------------------------
(* The semaphores' operations, as numbers. *)
LEMMA AcquireStep ==
  ASSUME Types, NEW t \in Threads, NEW s \in Semaphores, NEW from, NEW to \in Places,
         Acquires(t, s, from, to)
  PROVE  /\ counter' \in [Semaphores -> Nat] /\ waiting' \in [Semaphores -> SUBSET Threads]
         /\ \A r \in Semaphores \ {s} : counter'[r] = counter[r]
         /\ \/ Goto(t, from, to) /\ counter'[s] = counter[s] - 1
            \/ UNCHANGED <<pc, counter>>
<1>1. CASE Goto(t, from, to) /\ AcquireTakes(s, t)
  BY <1>1 DEF AcquireTakes, Types
<1>2. CASE pc[t] = from /\ AcquireWaits(s, t) /\ UNCHANGED pc
  BY <1>2 DEF AcquireWaits, Types
<1> QED BY <1>1, <1>2 DEF Acquires

LEMMA ReleaseStep ==
  ASSUME Types, NEW t \in Threads, NEW s \in Semaphores, NEW from, NEW to \in Places,
         Releases(t, s, from, to)
  PROVE  /\ counter' \in [Semaphores -> Nat] /\ waiting' \in [Semaphores -> SUBSET Threads]
         /\ \A r \in Semaphores \ {s} : counter'[r] = counter[r]
         /\ Goto(t, from, to) /\ counter'[s] = counter[s] + 1
<1>1. waiting' \in [Semaphores -> SUBSET Threads]
  BY DEF Releases, Release, NotifyOne, Types
<1>2. /\ Goto(t, from, to) /\ counter \in [Semaphores -> Nat]
      /\ counter' = [counter EXCEPT ![s] = @ + 1]
  BY DEF Releases, Release, Types
<1>3. /\ counter'[s] = counter[s] + 1 /\ counter' \in [Semaphores -> Nat]
      /\ \A r \in Semaphores \ {s} : counter'[r] = counter[r]
  BY <1>2
<1> QED BY <1>1, <1>2, <1>3

(* A step of t from one place to another keeps the types, if the rest of   *)
(* the state keeps its own.                                                *)
LEMMA TypesKept ==
  ASSUME Types, NEW t \in Threads, NEW from \in Places, NEW to \in Places,
         Goto(t, from, to) \/ UNCHANGED pc,
         counter' \in [Semaphores -> Nat], waiting' \in [Semaphores -> SUBSET Threads],
         buffer' \in Seq(Values), value' \in [Threads -> Values \cup {NoValue}],
         \A u \in Threads \ {t} : value'[u] = value[u],
         t \in Producers => /\ to # "return"
                            /\ to \in {"slot", "lock", "buffer"} => value'[t] \in Values
                            /\ UNCHANGED pc => value'[t] = value[t]
  PROVE  Types'
<1>1. pc' \in [Threads -> Places] /\ \A u \in Threads \ {t} : pc'[u] = pc[u]
  BY DEF Goto, Types
<1>2. ASSUME NEW p \in Producers
      PROVE  /\ pc'[p] \in {"slot", "lock", "buffer"} => value'[p] \in Values
             /\ pc'[p] # "return"
  <2>1. p \in Threads
    BY DEF Threads
  <2>2. CASE p # t
    BY <1>1, <2>1, <2>2 DEF Types
  <2>3. CASE p = t /\ Goto(t, from, to)
    BY <2>3 DEF Goto, Types
  <2>4. CASE p = t /\ UNCHANGED pc
    BY <2>4 DEF Types
  <2> QED BY <2>2, <2>3, <2>4
<1> QED BY <1>1, <1>2 DEF Types

LEMMA SidesDiffer ==
  /\ \A p \in Producers : p \in Threads /\ p \notin Consumers
  /\ \A c \in Consumers : c \in Threads /\ c \notin Producers
BY QueueAssumption DEF Threads

LEMMA Constants ==
  /\ {"mutex", "is_empty", "is_full"} = Semaphores
  /\ Capacity \in Nat /\ Capacity > 0
  /\ "mutex" \in Semaphores /\ "is_empty" \in Semaphores /\ "is_full" \in Semaphores
BY QueueAssumption

(* Acquiring keeps the invariant, if the place entered counts the permit.  *)
LEMMA AcquireKeeps ==
  ASSUME IInv, NEW t \in Threads, NEW s \in Semaphores,
         NEW from \in Places, NEW to \in Places,
         Acquires(t, s, from, to), UNCHANGED <<buffer, value>>,
         \/ t \in Producers /\ s = "is_full" /\ from = "slot" /\ to = "lock"
         \/ t \in Consumers /\ s = "is_empty" /\ from = "slot" /\ to = "lock"
         \/ s = "mutex" /\ from = "lock" /\ to = "buffer"
  PROVE  IInv'
<1>1. Types
  BY DEF IInv
<1>2. /\ counter' \in [Semaphores -> Nat] /\ waiting' \in [Semaphores -> SUBSET Threads]
      /\ \A r \in Semaphores \ {s} : counter'[r] = counter[r]
      /\ \/ Goto(t, from, to) /\ counter'[s] = counter[s] - 1
         \/ UNCHANGED <<pc, counter>>
  BY <1>1, AcquireStep
<1>3. Types'
  <2>1. t \in Producers => value[t] \in Values \/ UNCHANGED pc
    BY <1>1, <1>2 DEF Types, Goto
  <2>2. t \in Producers => value[t] \in Values \/ ~Goto(t, from, to)
    BY <1>1 DEF Types, Goto
  <2>3. CASE UNCHANGED pc
    BY <1>1, <1>2, <2>3 DEF Types
  <2>4. CASE Goto(t, from, to)
    BY <1>1, <1>2, <2>2, <2>4, TypesKept DEF Types
  <2> QED BY <1>2, <2>3, <2>4
<1>4. PermitsConserved'
  <2>1. CASE UNCHANGED <<pc, counter>>
    BY <2>1, Unmoved DEF IInv
  <2>2. CASE Goto(t, from, to) /\ counter'[s] = counter[s] - 1
    <3>1. Items = 0 /\ Len(buffer') \in Nat
      BY <1>1 DEF Types, Items
    <3>2. Permits(s) = -1 /\ \A q \in Semaphores \ {s} : Permits(q) = 0
      BY <1>1, <1>2, <2>2 DEF Types, Permits
    <3>3. BooksBalance(t, from, to)
      BY <3>1, <3>2, SidesDiffer, Constants DEF BooksBalance, Step
    <3> QED BY <1>2, <2>2, <3>1, <3>3, BalancedMove
  <2> QED BY <1>2, <2>1, <2>2
<1> QED BY <1>3, <1>4 DEF IInv

(* Releasing keeps it too, if the place left counts the permit.            *)
LEMMA ReleaseKeeps ==
  ASSUME IInv, NEW t \in Threads, NEW s \in Semaphores,
         NEW from \in Places, NEW to \in Places,
         Releases(t, s, from, to), UNCHANGED <<buffer, value>>,
         \/ t \in Producers /\ s = "is_empty" /\ from = "signal" /\ to = "idle"
         \/ t \in Consumers /\ s = "is_full" /\ from = "signal" /\ to = "return"
         \/ s = "mutex" /\ from = "unlock" /\ to = "signal"
  PROVE  IInv'
<1>1. Types
  BY DEF IInv
<1>2. /\ counter' \in [Semaphores -> Nat] /\ waiting' \in [Semaphores -> SUBSET Threads]
      /\ \A r \in Semaphores \ {s} : counter'[r] = counter[r]
      /\ Goto(t, from, to) /\ counter'[s] = counter[s] + 1
  BY <1>1, ReleaseStep
<1>3. Types'
  BY <1>1, <1>2, TypesKept, SidesDiffer DEF Types
<1>4. PermitsConserved'
  <2>1. Items = 0 /\ Len(buffer') \in Nat
    BY <1>1 DEF Types, Items
  <2>2. Permits(s) = 1 /\ \A q \in Semaphores \ {s} : Permits(q) = 0
    BY <1>1, <1>2 DEF Types, Permits
  <2>3. BooksBalance(t, from, to)
    BY <2>1, <2>2, SidesDiffer, Constants DEF BooksBalance, Step
  <2> QED BY <1>2, <2>1, <2>3, BalancedMove
<1> QED BY <1>3, <1>4 DEF IInv

(* Put inserts its value in the slot it reserved; Take removes the item it *)
(* claimed.                                                                *)
LEMMA InsertKeeps ==
  ASSUME IInv, NEW p \in Producers, PutInserts(p)
  PROVE  IInv'
<1>1. Types /\ p \in Threads /\ p \notin Consumers
  BY SidesDiffer DEF IInv
<1>2. /\ Goto(p, "buffer", "unlock") /\ value[p] \in Values
      /\ "buffer" \in Places /\ "unlock" \in Places
  BY <1>1 DEF PutInserts, Goto, Types, Places
<1>3. /\ buffer' = Append(buffer, value[p]) /\ buffer' \in Seq(Values)
      /\ Len(buffer') = Len(buffer) + 1 /\ Len(buffer) \in Nat
  BY <1>1, <1>2 DEF PutInserts, Types
<1>4. /\ value' \in [Threads -> Values \cup {NoValue}]
      /\ \A u \in Threads \ {p} : value'[u] = value[u]
      /\ counter' = counter /\ waiting' = waiting
  BY <1>1 DEF PutInserts, Types, semVars
<1>5. pc' # pc
  BY <1>1, <1>2 DEF Goto, Types
<1>6. Types'
  BY <1>1, <1>2, <1>3, <1>4, <1>5, TypesKept DEF Types
<1>7. PermitsConserved'
  <2>1. Items = 1 /\ Len(buffer') \in Nat
    BY <1>3 DEF Items
  <2>2. \A q \in Semaphores : Permits(q) = 0
    BY <1>1, <1>4 DEF Types, Permits
  <2>3. BooksBalance(p, "buffer", "unlock")
    BY <1>1, <2>1, <2>2, Constants DEF BooksBalance, Step
  <2> QED BY <1>1, <1>2, <1>4, <2>1, <2>3, BalancedMove DEF Types
<1> QED BY <1>6, <1>7 DEF IInv

LEMMA RemoveKeeps ==
  ASSUME IInv, NEW c \in Consumers, TakeRemoves(c)
  PROVE  IInv'
<1>1. Types /\ c \in Threads /\ c \notin Producers
  BY SidesDiffer DEF IInv
<1>2. /\ Goto(c, "buffer", "unlock") /\ pc[c] = "buffer"
      /\ "buffer" \in Places /\ "unlock" \in Places
  BY DEF TakeRemoves, Goto, Places
<1>3. /\ buffer' = Tail(buffer) /\ buffer' \in Seq(Values) /\ Head(buffer) \in Values
      /\ Len(buffer') = Len(buffer) - 1 /\ Len(buffer) \in Nat /\ Len(buffer') \in Nat
  <2>1. buffer \in Seq(Values) /\ buffer # <<>>
    BY <1>1, <1>2, ItemThere DEF Types
  <2>2. buffer' = Tail(buffer)
    BY DEF TakeRemoves
  <2> QED BY <2>1, <2>2
<1>4. /\ value' \in [Threads -> Values \cup {NoValue}]
      /\ \A u \in Threads \ {c} : value'[u] = value[u]
      /\ counter' = counter /\ waiting' = waiting
  BY <1>1, <1>3 DEF TakeRemoves, Types, semVars
<1>5. Types'
  BY <1>1, <1>2, <1>3, <1>4, TypesKept DEF Types
<1>6. PermitsConserved'
  <2>1. Items = -1
    BY <1>3 DEF Items
  <2>2. \A q \in Semaphores : Permits(q) = 0
    BY <1>1, <1>4 DEF Types, Permits
  <2>3. BooksBalance(c, "buffer", "unlock")
    BY <1>1, <2>1, <2>2, Constants DEF BooksBalance, Step
  <2> QED BY <1>1, <1>2, <1>3, <1>4, <2>3, BalancedMove DEF Types
<1> QED BY <1>5, <1>6 DEF IInv

(* Calling and returning touch no permit. *)
LEMMA OutsideKeeps ==
  ASSUME IInv, NEW t \in Threads, NEW from \in {"idle", "return"},
         NEW to \in {"idle", "slot"}, Goto(t, from, to), UNCHANGED <<semVars, buffer>>,
         value' \in [Threads -> Values \cup {NoValue}],
         \A u \in Threads \ {t} : value'[u] = value[u],
         t \in Producers /\ to = "slot" => value'[t] \in Values,
         t \in Producers => from # to
  PROVE  IInv'
<1>1. /\ Types /\ from \in Places /\ to \in Places
      /\ counter' = counter /\ waiting' = waiting /\ buffer' = buffer
  BY DEF IInv, Places, semVars
<1>2. t \in Producers => pc' # pc
  BY <1>1 DEF Goto, Types
<1>3. Types'
  BY <1>1, <1>2, TypesKept DEF Types
<1>4. PermitsConserved'
  <2>1. Items = 0 /\ Len(buffer') \in Nat
    BY <1>1 DEF Items, Types
  <2>2. \A q \in Semaphores : Permits(q) = 0
    BY <1>1 DEF Types, Permits
  <2>3. ASSUME NEW T, NEW P \in {{"lock", "buffer"}, {"unlock", "signal"}, {"buffer", "unlock"}}
        PROVE  Step(t, T, P, from, to) = 0
    <3>1. from \notin P /\ to \notin P
      OBVIOUS
    <3> QED BY <3>1 DEF Step
  <2>4. BooksBalance(t, from, to)
    BY <2>1, <2>2, <2>3, Constants DEF BooksBalance
  <2> QED BY <1>1, <2>1, <2>4, BalancedMove DEF Types
<1> QED BY <1>3, <1>4 DEF IInv

(* The permits are conserved by every step: each of Put and Take moves its *)
(* thread to a place that counts what the step took or gave.               *)
LEMMA NextIInv == IInv /\ [Next]_vars => IInv'
<1> SUFFICES ASSUME IInv, [Next]_vars PROVE IInv'
  OBVIOUS
<1>1. Types
  BY DEF IInv
<1>2. {"idle", "slot", "lock", "buffer", "unlock", "signal", "return"} \subseteq Places
  BY DEF Places
<1>3. ASSUME NEW p \in Producers, PutCalled(p) PROVE IInv'
  <2>1. /\ Goto(p, "idle", "slot") /\ UNCHANGED <<semVars, buffer>>
        /\ value' \in [Threads -> Values \cup {NoValue}] /\ value'[p] \in Values
        /\ \A u \in Threads \ {p} : value'[u] = value[u]
    BY <1>1, <1>3, SidesDiffer DEF PutCalled, Types
  <2> QED BY <2>1, SidesDiffer, OutsideKeeps
<1>4. ASSUME NEW p \in Producers, Put(p) PROVE IInv'
  <2>1. CASE PutAcquiresSlot(p)
    BY <2>1, <1>2, Constants, SidesDiffer, AcquireKeeps DEF PutAcquiresSlot
  <2>2. CASE PutLocks(p)
    BY <2>2, <1>2, Constants, SidesDiffer, AcquireKeeps DEF PutLocks
  <2>3. CASE PutInserts(p)
    BY <2>3, InsertKeeps
  <2>4. CASE PutUnlocks(p)
    BY <2>4, <1>2, Constants, SidesDiffer, ReleaseKeeps DEF PutUnlocks
  <2>5. CASE PutSignals(p)
    BY <2>5, <1>2, Constants, SidesDiffer, ReleaseKeeps DEF PutSignals
  <2> QED BY <1>4, <2>1, <2>2, <2>3, <2>4, <2>5 DEF Put
<1>5. ASSUME NEW c \in Consumers, TakeCalled(c) PROVE IInv'
  <2>1. /\ Goto(c, "idle", "slot") /\ UNCHANGED <<semVars, buffer>>
        /\ value' \in [Threads -> Values \cup {NoValue}]
        /\ \A u \in Threads \ {c} : value'[u] = value[u]
    BY <1>1, <1>5 DEF TakeCalled, Types
  <2> QED BY <2>1, SidesDiffer, OutsideKeeps
<1>6. ASSUME NEW c \in Consumers, Take(c) PROVE IInv'
  <2>1. CASE TakeAcquiresItem(c)
    BY <2>1, <1>2, Constants, SidesDiffer, AcquireKeeps DEF TakeAcquiresItem
  <2>2. CASE TakeLocks(c)
    BY <2>2, <1>2, Constants, SidesDiffer, AcquireKeeps DEF TakeLocks
  <2>3. CASE TakeRemoves(c)
    BY <2>3, RemoveKeeps
  <2>4. CASE TakeUnlocks(c)
    BY <2>4, <1>2, Constants, SidesDiffer, ReleaseKeeps DEF TakeUnlocks
  <2>5. CASE TakeSignals(c)
    BY <2>5, <1>2, Constants, SidesDiffer, ReleaseKeeps DEF TakeSignals
  <2>6. CASE TakeReturns(c)
    <3>1. /\ Goto(c, "return", "idle") /\ UNCHANGED <<semVars, buffer>>
          /\ value' \in [Threads -> Values \cup {NoValue}]
          /\ \A u \in Threads \ {c} : value'[u] = value[u]
      BY <1>1, <2>6 DEF TakeReturns, Types
    <3> QED BY <3>1, SidesDiffer, OutsideKeeps
  <2> QED BY <1>6, <2>1, <2>2, <2>3, <2>4, <2>5, <2>6 DEF Take
<1>7. ASSUME NEW t \in Threads, Wakes(t) PROVE IInv'
  <2>1. /\ counter' = counter /\ buffer' = buffer /\ pc' = pc /\ value' = value
        /\ waiting' \in [Semaphores -> SUBSET Threads]
    BY <1>1, <1>7 DEF Wakes, SpuriousWakeup, Types
  <2>2. Types'
    BY <1>1, <2>1 DEF Types
  <2>3. PermitsConserved'
    BY <2>1, Unmoved DEF IInv
  <2> QED BY <2>2, <2>3 DEF IInv
<1>8. CASE UNCHANGED vars
  <2>1. /\ counter' = counter /\ buffer' = buffer /\ pc' = pc /\ value' = value
        /\ waiting' = waiting
    BY <1>8 DEF vars, semVars
  <2>2. Types'
    BY <1>1, <2>1 DEF Types
  <2>3. PermitsConserved'
    BY <2>1, Unmoved DEF IInv
  <2> QED BY <2>2, <2>3 DEF IInv
<1> QED BY <1>3, <1>4, <1>5, <1>6, <1>7, <1>8 DEF Next

----------------------------------------------------------------------------
(* Permits are conserved (blocking_queue.hpp:24-47): every slot is free,   *)
(* held or filled, every item announced or about to be, and one thread at  *)
(* a time has the mutex; front() never meets an empty buffer.              *)
THEOREM PermitsAreConserved == Spec => []PermitsConserved
<1>1. IInv => PermitsConserved
  BY DEF IInv
<1> QED BY <1>1, InitIInv, NextIInv, PTL DEF Spec

(* No semaphore holds more permits than the constructor gave out, so the   *)
(* counters stay within the capacity, the mutex's within one.              *)
THEOREM TypeCorrect == Spec => []TypeOK
<1>1. IInv => TypeOK
  <2> SUFFICES ASSUME IInv PROVE TypeOK
    OBVIOUS
  <2>1. Types /\ PermitsConserved
    BY DEF IInv
  <2>2. /\ counter["is_full"] + Len(buffer) + Reserved + Vacated = Capacity
        /\ counter["is_empty"] + Unannounced + Claimed = Len(buffer)
        /\ counter["mutex"] + Inside = 1
    BY <2>1 DEF PermitsConserved, Reserved, Vacated, Unannounced, Claimed, Inside
  <2>3. /\ counter["is_full"] \in Nat /\ counter["is_empty"] \in Nat
        /\ counter["mutex"] \in Nat /\ Len(buffer) \in Nat /\ Capacity \in Nat
    BY <2>1, Constants DEF Types
  <2>4. counter["is_full"] <= Capacity /\ Len(buffer) <= Capacity
    <3> DEFINE a == counter["is_full"]
               n == Len(buffer)
    <3>1. a \in Nat /\ n \in Nat /\ a + n + Reserved + Vacated = Capacity
      BY <2>2, <2>3
    <3> HIDE DEF a, n
    <3>2. a <= Capacity /\ n <= Capacity
      BY <2>3, <3>1, Numbers
    <3> QED BY <3>2 DEF a, n
  <2>5. counter["is_empty"] <= Len(buffer) /\ counter["mutex"] <= 1
    BY <2>2, <2>3, Numbers, SMTT(30)
  <2>6. \A s \in Semaphores : counter[s] \in 0..Capacity
    BY <2>3, <2>4, <2>5, Constants
  <2> QED BY <2>1, <2>5, <2>6 DEF TypeOK, Types
<1> QED BY <1>1, InitIInv, NextIInv, PTL DEF Spec

----------------------------------------------------------------------------
(* A producer that has inserted holds no value any more, which makes its   *)
(* return the abstract one.                                                *)
Spent == \A p \in Producers : pc[p] \in {"unlock", "signal"} => value[p] = NoValue

LEMMA NextSpent == Types /\ Spent /\ [Next]_vars => Spent'
<1> SUFFICES ASSUME Types, Spent, [Next]_vars, NEW p \in Producers,
                    pc'[p] \in {"unlock", "signal"}
             PROVE  value'[p] = NoValue
  BY DEF Spent
<1>1. p \in Threads /\ p \notin Consumers
  BY SidesDiffer
<1>2. ASSUME NEW t \in Threads, t # p, NEW from, NEW to, Goto(t, from, to)
      PROVE  pc'[p] = pc[p]
  BY <1>1, <1>2 DEF Goto, Types
<1>3. ASSUME NEW q \in Producers, PutCalled(q) PROVE value'[p] = NoValue
  <2>1. CASE q = p
    BY <1>1, <1>3, <2>1 DEF PutCalled, Goto, Types
  <2>2. CASE q # p
    BY <1>1, <1>3, <2>2 DEF PutCalled, Goto, Types, Spent
  <2> QED BY <2>1, <2>2
<1>4. ASSUME NEW q \in Producers, Put(q) PROVE value'[p] = NoValue
  <2>1. CASE q = p /\ PutInserts(q)
    BY <1>1, <2>1 DEF PutInserts, Types
  <2>2. CASE q = p /\ ~PutInserts(q)
    <3>1. pc[p] \in {"unlock", "signal"} /\ value' = value
      BY <1>1, <1>4, <2>2 DEF Put, PutAcquiresSlot, PutLocks, PutUnlocks, PutSignals,
                              Acquires, Releases, Goto, Types
    <3> QED BY <3>1 DEF Spent
  <2>3. CASE q # p
    <3>1. pc'[p] = pc[p] /\ value'[p] = value[p]
      BY <1>1, <1>4, <2>3 DEF Put, PutAcquiresSlot, PutLocks, PutInserts, PutUnlocks,
                              PutSignals, Acquires, Releases, Goto, Types
    <3> QED BY <3>1 DEF Spent
  <2> QED BY <2>1, <2>2, <2>3
<1>5. ASSUME NEW c \in Consumers, TakeCalled(c) \/ Take(c) PROVE value'[p] = NoValue
  <2>1. pc'[p] = pc[p] /\ value'[p] = value[p]
    BY <1>1, <1>5 DEF TakeCalled, Take, TakeAcquiresItem, TakeLocks, TakeRemoves,
                      TakeUnlocks, TakeSignals, TakeReturns, Acquires, Releases, Goto, Types
  <2> QED BY <2>1 DEF Spent
<1>6. CASE UNCHANGED <<pc, value>>
  BY <1>6 DEF Spent
<1>7. ASSUME NEW t \in Threads, Wakes(t) PROVE UNCHANGED <<pc, value>>
  BY <1>7 DEF Wakes
<1>8. UNCHANGED vars => UNCHANGED <<pc, value>>
  BY DEF vars
<1> QED BY <1>3, <1>4, <1>5, <1>6, <1>7, <1>8 DEF Next

(* The abstract mode of a thread, as the refinement mapping has it.        *)
Mode(t) == IF pc[t] = "idle" THEN "idle"
           ELSE IF pc[t] \in Served(t) THEN "served" ELSE "waiting"

ModeMap == [t \in Threads |-> Mode(t)]

(* The mode moves with its thread alone. *)
LEMMA ModeMoves ==
  ASSUME Types, NEW t \in Threads, NEW from \in Places, NEW to \in Places, Goto(t, from, to)
  PROVE  /\ ModeMap' = [ModeMap EXCEPT ![t] = Mode(t)']
         /\ ModeMap[t] = Mode(t) /\ pc[t] = from /\ pc'[t] = to
         /\ Mode(t)' = Mode(t) => ModeMap' = ModeMap
<1>1. pc[t] = from /\ pc'[t] = to /\ \A u \in Threads \ {t} : pc'[u] = pc[u]
  BY DEF Goto, Types
<1>2. \A u \in Threads \ {t} : Mode(u)' = Mode(u)
  BY <1>1 DEF Mode, Served
<1> HIDE DEF Mode
<1>3. ModeMap' = [u \in Threads |-> Mode(u)']
  BY DEF ModeMap
<1> QED BY <1>1, <1>2, <1>3 DEF ModeMap

LEMMA QueueStep ==
  ASSUME IInv, Spent, [Next]_vars
  PROVE  [Queue!Next]_(Queue!vars)
<1>1. Types /\ {"idle", "slot", "lock", "buffer", "unlock", "signal", "return"} \subseteq Places
  BY DEF IInv, Places
<1>2. ASSUME UNCHANGED <<buffer, ModeMap, value>> PROVE UNCHANGED Queue!vars
  BY <1>2 DEF ModeMap, Mode, Queue!vars
<1>3. ASSUME NEW p \in Producers, PutCalled(p) PROVE Queue!CallPut(p)
  <2>1. Goto(p, "idle", "slot") /\ p \in Threads
    BY <1>3, SidesDiffer DEF PutCalled
  <2>2. ModeMap[p] = "idle" /\ ModeMap' = [ModeMap EXCEPT ![p] = "waiting"]
    BY <1>1, <2>1, ModeMoves DEF Mode, Served
  <2>3. (\E v \in Values : value' = [value EXCEPT ![p] = v]) /\ buffer' = buffer
    BY <1>3 DEF PutCalled
  <2> QED BY <2>2, <2>3 DEF Queue!CallPut, ModeMap, Mode
<1>4. ASSUME NEW p \in Producers, PutInserts(p) PROVE Queue!Accept(p)
  <2>1. Goto(p, "buffer", "unlock") /\ p \in Threads /\ pc[p] = "buffer"
    BY <1>4, SidesDiffer DEF PutInserts, Goto
  <2>2. ModeMap[p] = "waiting" /\ ModeMap' = [ModeMap EXCEPT ![p] = "served"]
    BY <1>1, <2>1, ModeMoves DEF Mode, Served
  <2>3. /\ Len(buffer) < Capacity /\ buffer' = Append(buffer, value[p])
        /\ value' = [value EXCEPT ![p] = NoValue]
    BY <1>4, <2>1, RoomThere DEF PutInserts
  <2> QED BY <2>2, <2>3 DEF Queue!Accept, ModeMap, Mode
<1>5. ASSUME NEW p \in Producers, PutSignals(p) PROVE Queue!Return(p)
  <2>1. Goto(p, "signal", "idle") /\ p \in Threads /\ pc[p] = "signal"
    BY <1>5, SidesDiffer DEF PutSignals, Releases, Goto
  <2>2. ModeMap[p] = "served" /\ ModeMap' = [ModeMap EXCEPT ![p] = "idle"]
    BY <1>1, <2>1, ModeMoves DEF Mode, Served
  <2>3. /\ value[p] = NoValue /\ value' = value /\ buffer' = buffer
        /\ value \in [Threads -> Values \cup {NoValue}]
    BY <1>1, <1>5, <2>1 DEF PutSignals, Spent, Types
  <2>4. value' = [value EXCEPT ![p] = NoValue]
    BY <2>1, <2>3
  <2> QED BY <2>2, <2>3, <2>4 DEF Queue!Return, ModeMap, Mode
<1>6. ASSUME NEW c \in Consumers, TakeCalled(c) PROVE Queue!CallTake(c)
  <2>1. Goto(c, "idle", "slot") /\ c \in Threads
    BY <1>6, SidesDiffer DEF TakeCalled
  <2>2. ModeMap[c] = "idle" /\ ModeMap' = [ModeMap EXCEPT ![c] = "waiting"]
    BY <1>1, <2>1, ModeMoves DEF Mode, Served
  <2>3. value' = value /\ buffer' = buffer
    BY <1>6 DEF TakeCalled
  <2> QED BY <2>2, <2>3 DEF Queue!CallTake, ModeMap, Mode
<1>7. ASSUME NEW c \in Consumers, TakeRemoves(c) PROVE Queue!Deliver(c)
  <2>1. /\ Goto(c, "buffer", "unlock") /\ pc[c] = "buffer"
        /\ c \in Threads /\ c \notin Producers
    BY <1>7, SidesDiffer DEF TakeRemoves, Goto
  <2>2. ModeMap[c] = "waiting" /\ ModeMap' = [ModeMap EXCEPT ![c] = "served"]
    BY <1>1, <2>1, ModeMoves DEF Mode, Served
  <2>3. /\ buffer # <<>> /\ buffer' = Tail(buffer)
        /\ value' = [value EXCEPT ![c] = Head(buffer)]
    BY <1>7, <2>1, ItemThere DEF TakeRemoves
  <2> QED BY <2>2, <2>3 DEF Queue!Deliver, ModeMap, Mode
<1>8. ASSUME NEW c \in Consumers, TakeReturns(c) PROVE Queue!Return(c)
  <2>1. /\ Goto(c, "return", "idle") /\ pc[c] = "return"
        /\ c \in Threads /\ c \notin Producers
    BY <1>8, SidesDiffer DEF TakeReturns, Goto
  <2>2. ModeMap[c] = "served" /\ ModeMap' = [ModeMap EXCEPT ![c] = "idle"]
    BY <1>1, <2>1, ModeMoves DEF Mode, Served
  <2>3. value' = [value EXCEPT ![c] = NoValue] /\ buffer' = buffer
    BY <1>8 DEF TakeReturns
  <2> QED BY <2>2, <2>3 DEF Queue!Return, ModeMap, Mode
<1>9. ASSUME NEW t \in Threads, UNCHANGED <<buffer, value>>,
             NEW from \in Places, NEW to \in Places,
             Goto(t, from, to) \/ UNCHANGED pc,
             to # "return", from # "idle", to # "idle",
             from \in Served(t) <=> to \in Served(t)
      PROVE  UNCHANGED <<buffer, ModeMap, value>>
  <2>1. CASE Goto(t, from, to)
    <3>1. Mode(t)' = Mode(t)
      BY <1>1, <1>9, <2>1, ModeMoves DEF Mode, Served
    <3> QED BY <1>1, <1>9, <2>1, <3>1, ModeMoves
  <2>2. CASE UNCHANGED pc
    BY <1>9, <2>2 DEF ModeMap, Mode
  <2> QED BY <1>9, <2>1, <2>2
<1>10. ASSUME NEW p \in Producers,
              PutAcquiresSlot(p) \/ PutLocks(p) \/ PutUnlocks(p)
       PROVE  UNCHANGED <<buffer, ModeMap, value>>
  <2>1. p \in Threads /\ Served(p) = {"unlock", "signal"}
    BY SidesDiffer DEF Served
  <2>2. CASE PutAcquiresSlot(p)
    <3>1. UNCHANGED <<buffer, value>> /\ (Goto(p, "slot", "lock") \/ UNCHANGED pc)
      BY <2>2 DEF PutAcquiresSlot, Acquires
    <3> QED BY <1>1, <1>9, <2>1, <3>1
  <2>3. CASE PutLocks(p)
    <3>1. UNCHANGED <<buffer, value>> /\ (Goto(p, "lock", "buffer") \/ UNCHANGED pc)
      BY <2>3 DEF PutLocks, Acquires
    <3> QED BY <1>1, <1>9, <2>1, <3>1
  <2>4. CASE PutUnlocks(p)
    <3>1. UNCHANGED <<buffer, value>> /\ Goto(p, "unlock", "signal")
      BY <2>4 DEF PutUnlocks, Releases
    <3> QED BY <1>1, <1>9, <2>1, <3>1
  <2> QED BY <1>10, <2>2, <2>3, <2>4
<1>11. ASSUME NEW c \in Consumers,
              TakeAcquiresItem(c) \/ TakeLocks(c) \/ TakeUnlocks(c)
       PROVE  UNCHANGED <<buffer, ModeMap, value>>
  <2>1. c \in Threads /\ Served(c) = {"unlock", "signal", "return"}
    BY SidesDiffer DEF Served
  <2>2. CASE TakeAcquiresItem(c)
    <3>1. UNCHANGED <<buffer, value>> /\ (Goto(c, "slot", "lock") \/ UNCHANGED pc)
      BY <2>2 DEF TakeAcquiresItem, Acquires
    <3> QED BY <1>1, <1>9, <2>1, <3>1
  <2>3. CASE TakeLocks(c)
    <3>1. UNCHANGED <<buffer, value>> /\ (Goto(c, "lock", "buffer") \/ UNCHANGED pc)
      BY <2>3 DEF TakeLocks, Acquires
    <3> QED BY <1>1, <1>9, <2>1, <3>1
  <2>4. CASE TakeUnlocks(c)
    <3>1. UNCHANGED <<buffer, value>> /\ Goto(c, "unlock", "signal")
      BY <2>4 DEF TakeUnlocks, Releases
    <3> QED BY <1>1, <1>9, <2>1, <3>1
  <2> QED BY <1>11, <2>2, <2>3, <2>4
<1>12. ASSUME NEW c \in Consumers, TakeSignals(c)
       PROVE  UNCHANGED <<buffer, ModeMap, value>>
  <2>1. /\ c \in Threads /\ c \notin Producers /\ UNCHANGED <<buffer, value>>
        /\ Goto(c, "signal", "return") /\ Served(c) = {"unlock", "signal", "return"}
    BY <1>12, SidesDiffer DEF TakeSignals, Releases, Served
  <2>2. Mode(c)' = Mode(c)
    BY <1>1, <2>1, ModeMoves DEF Mode
  <2> QED BY <1>1, <2>1, <2>2, ModeMoves
<1>13. ASSUME UNCHANGED <<buffer, pc, value>> PROVE UNCHANGED <<buffer, ModeMap, value>>
  BY <1>13 DEF ModeMap, Mode
<1>14. (\E t \in Threads : Wakes(t)) \/ UNCHANGED vars => UNCHANGED <<buffer, pc, value>>
  BY DEF Wakes, vars
<1>15. CASE \E p \in Producers : PutCalled(p) \/ Put(p)
  <2>1. PICK p \in Producers : PutCalled(p) \/ Put(p)
    BY <1>15
  <2>2. p \in Threads
    BY SidesDiffer
  <2>3. \/ Queue!CallPut(p) \/ Queue!Accept(p) \/ Queue!Return(p)
        \/ UNCHANGED Queue!vars
    BY <1>2, <1>3, <1>4, <1>5, <1>10, <2>1 DEF Put
  <2> QED BY <2>2, <2>3 DEF Queue!Next, Queue!Threads, Threads
<1>16. CASE \E c \in Consumers : TakeCalled(c) \/ Take(c)
  <2>1. PICK c \in Consumers : TakeCalled(c) \/ Take(c)
    BY <1>16
  <2>2. c \in Threads
    BY SidesDiffer
  <2>3. \/ Queue!CallTake(c) \/ Queue!Deliver(c) \/ Queue!Return(c)
        \/ UNCHANGED Queue!vars
    BY <1>2, <1>6, <1>7, <1>8, <1>11, <1>12, <2>1 DEF Take
  <2> QED BY <2>2, <2>3 DEF Queue!Next, Queue!Threads, Threads
<1>17. CASE (\E t \in Threads : Wakes(t)) \/ UNCHANGED vars
  BY <1>2, <1>13, <1>14, <1>17
<1> QED BY <1>15, <1>16, <1>17 DEF Next

LEMMA QueueInit == Init => Queue!Init
<1> SUFFICES ASSUME Init PROVE Queue!Init
  OBVIOUS
<1>1. buffer = <<>> /\ value = [t \in Threads |-> NoValue]
  BY DEF Init
<1>2. \A t \in Threads : pc[t] = "idle"
  BY DEF Init
<1>3. ModeMap = [t \in Threads |-> "idle"]
  BY <1>2 DEF ModeMap, Mode
<1> QED BY <1>1, <1>3 DEF Queue!Init, Queue!Threads, Threads, ModeMap, Mode

(* The queue of three semaphores keeps the abstract queue's promises of    *)
(* safety (blocking_queue.hpp:22-47): items leave in the order they came,  *)
(* each once, and never more than the capacity are inside.                 *)
THEOREM Refinement == Spec => Queue!Spec
<1>1. Init => IInv /\ Spent
  <2>1. Init => Spent
    <3>1. ASSUME Init, NEW p \in Producers PROVE pc[p] = "idle"
      BY <3>1, SidesDiffer DEF Init
    <3> QED BY <3>1 DEF Spent
  <2> QED BY <2>1, InitIInv
<1>2. (IInv /\ Spent) /\ [Next]_vars => (IInv /\ Spent)'
  BY NextIInv, NextSpent DEF IInv
<1>3. (IInv /\ Spent) /\ [Next]_vars => [Queue!Next]_(Queue!vars)
  BY QueueStep
<1> QED BY <1>1, <1>2, <1>3, QueueInit, PTL DEF Spec, Queue!Spec

----------------------------------------------------------------------------
(* Nobody sleeps beside a permit.  The threads asleep in a semaphore are   *)
(* among those that stand at its Acquire, and while there are any, each    *)
(* permit has one of the others.                                           *)
Side(q) == IF q = "mutex" THEN Threads
           ELSE IF q = "is_full" THEN Producers ELSE Consumers

Door(q) == IF q = "mutex" THEN "lock" ELSE "slot"

Covered(q) ==
    /\ waiting[q] \subseteq Acquiring(q)
    /\ waiting[q] # {} => counter[q] <= Cardinality(Acquiring(q) \ waiting[q])

AllCovered == \A q \in Semaphores : Covered(q)

LEMMA AtTheDoor == \A q \in Semaphores :
    /\ Acquiring(q) = {u \in Side(q) : pc[u] = Door(q)}
    /\ Acquiring(q)' = {u \in Side(q) : pc'[u] = Door(q)}
    /\ Side(q) \subseteq Threads
    /\ IsFiniteSet(Acquiring(q)) /\ IsFiniteSet(Acquiring(q)')
<1> SUFFICES ASSUME NEW q \in Semaphores
             PROVE  /\ Acquiring(q) = {u \in Side(q) : pc[u] = Door(q)}
                    /\ Acquiring(q)' = {u \in Side(q) : pc'[u] = Door(q)}
                    /\ Side(q) \subseteq Threads
                    /\ IsFiniteSet(Acquiring(q)) /\ IsFiniteSet(Acquiring(q)')
  OBVIOUS
<1>1. /\ Acquiring(q) = {u \in Side(q) : pc[u] = Door(q)}
      /\ Acquiring(q)' = {u \in Side(q) : pc'[u] = Door(q)}
  BY Constants DEF Acquiring, Side, Door
<1>2. Side(q) \subseteq Threads /\ IsFiniteSet(Side(q))
  BY FiniteSides DEF Side
<1> QED BY <1>1, <1>2, FS_Subset

(* The awake ones at the door have a number. *)
LEMMA AwakeCounted ==
  ASSUME NEW q \in Semaphores
  PROVE  /\ IsFiniteSet(Acquiring(q) \ waiting[q])
         /\ Cardinality(Acquiring(q) \ waiting[q]) \in Nat
         /\ IsFiniteSet(Acquiring(q)' \ waiting'[q])
         /\ Cardinality(Acquiring(q)' \ waiting'[q]) \in Nat
BY AtTheDoor, FS_Subset, FS_CardinalityType

(* A semaphore whose counter a step leaves alone, and whose door nobody    *)
(* leaves.                                                                 *)
LEMMA BystanderCovered ==
  ASSUME Types, NEW q \in Semaphores, Covered(q), counter'[q] = counter[q],
         waiting'[q] \subseteq waiting[q], Acquiring(q) \subseteq Acquiring(q)'
  PROVE  Covered(q)'
<1>1. (Acquiring(q) \ waiting[q]) \subseteq (Acquiring(q)' \ waiting'[q])
  BY DEF Covered
<1>2. Cardinality(Acquiring(q) \ waiting[q]) <= Cardinality(Acquiring(q)' \ waiting'[q])
  BY <1>1, AwakeCounted, FS_Subset
<1>3. counter[q] \in Nat
  BY DEF Types
<1> QED BY <1>2, <1>3, AwakeCounted DEF Covered

(* Acquire: one permit and one awake thread less, or one more asleep where *)
(* there is no permit.                                                     *)
LEMMA AcquireCovered ==
  ASSUME Types, AllCovered, NEW t \in Threads, NEW s \in Semaphores,
         NEW to \in Places \ {Door(s)}, Acquires(t, s, Door(s), to), t \in Side(s),
         \A q \in Semaphores \ {s} : Door(q) # Door(s) \/ t \notin Side(q)
  PROVE  AllCovered'
<1> SUFFICES ASSUME NEW q \in Semaphores PROVE Covered(q)'
  BY DEF AllCovered
<1>1. Covered(q) /\ counter[q] \in Nat
  BY DEF AllCovered, Types
<1>2. CASE pc[t] = Door(s) /\ AcquireWaits(s, t) /\ UNCHANGED pc
  <2>1. Acquiring(q)' = Acquiring(q)
    BY <1>2, AtTheDoor
  <2>2. CASE q = s
    <3>1. t \in Acquiring(s) /\ counter'[s] = 0 /\ waiting'[s] = waiting[s] \cup {t}
      BY <1>2, AtTheDoor DEF AcquireWaits, Types
    <3> QED BY <1>1, <2>1, <2>2, <3>1, AwakeCounted DEF Covered
  <2>3. CASE q # s
    BY <1>1, <1>2, <2>1, <2>3, BystanderCovered DEF AcquireWaits, Types
  <2> QED BY <2>2, <2>3
<1>3. CASE Goto(t, Door(s), to) /\ AcquireTakes(s, t)
  <2>1. /\ pc[t] = Door(s) /\ pc'[t] = to /\ \A u \in Threads \ {t} : pc'[u] = pc[u]
        /\ t \notin waiting[s] /\ counter[s] > 0 /\ waiting' = waiting
        /\ counter'[s] = counter[s] - 1
        /\ \A r \in Semaphores \ {s} : counter'[r] = counter[r]
    BY <1>3 DEF Goto, AcquireTakes, Types
  <2>2. CASE q = s
    <3>1. Acquiring(s)' = Acquiring(s) \ {t} /\ t \in Acquiring(s)
      BY <2>1, AtTheDoor
    <3>2. Cardinality(Acquiring(s)' \ waiting'[s]) = Cardinality(Acquiring(s) \ waiting[s]) - 1
      <4> DEFINE A == Acquiring(s) \ waiting[s]
                 B == Acquiring(s)' \ waiting'[s]
      <4>1. t \in A /\ B = A \ {t} /\ IsFiniteSet(A)
        BY <2>1, <3>1, AwakeCounted
      <4> HIDE DEF A, B
      <4>2. Cardinality(B) = Cardinality(A) - 1
        BY <4>1, FS_RemoveElement
      <4> QED BY <4>2 DEF A, B
    <3>3. waiting'[s] \subseteq Acquiring(s)'
      BY <1>1, <2>1, <2>2, <3>1 DEF Covered
    <3>4. waiting'[s] # {} => counter'[s] <= Cardinality(Acquiring(s)' \ waiting'[s])
      <4> DEFINE m == Cardinality(Acquiring(s) \ waiting[s])
                 n == Cardinality(Acquiring(s)' \ waiting'[s])
      <4>1. m \in Nat /\ n = m - 1 /\ counter[s] \in Nat
        BY <2>2, <1>1, <3>2, AwakeCounted
      <4>2. waiting'[s] # {} => counter[s] <= m
        BY <1>1, <2>1, <2>2 DEF Covered
      <4> HIDE DEF m, n
      <4>3. waiting'[s] # {} => counter'[s] <= n
        BY <2>1, <4>1, <4>2
      <4> QED BY <4>3 DEF n
    <3> QED BY <2>2, <3>3, <3>4 DEF Covered
  <2>3. CASE q # s
    <3>1. Acquiring(q) \subseteq Acquiring(q)'
      BY <2>1, <2>3, AtTheDoor
    <3> QED BY <1>1, <2>1, <2>3, <3>1, BystanderCovered
  <2> QED BY <2>2, <2>3
<1> QED BY <1>2, <1>3 DEF Acquires

(* Release: one permit more, and one awake thread more, unless all are.    *)
LEMMA ReleaseCovered ==
  ASSUME Types, AllCovered, NEW t \in Threads, NEW s \in Semaphores,
         NEW from \in Places \ {"slot", "lock"}, NEW to \in Places, Releases(t, s, from, to)
  PROVE  AllCovered'
<1> SUFFICES ASSUME NEW q \in Semaphores PROVE Covered(q)'
  BY DEF AllCovered
<1>1. Covered(q) /\ counter[q] \in Nat
  BY DEF AllCovered, Types
<1>2. Acquiring(q) \subseteq Acquiring(q)'
  BY AtTheDoor DEF Releases, Goto, Types, Door
<1>3. /\ counter'[s] = counter[s] + 1
      /\ \A r \in Semaphores \ {s} : counter'[r] = counter[r]
  BY ReleaseStep DEF Places
<1>4. /\ \A r \in Semaphores \ {s} : waiting'[r] = waiting[r]
      /\ \/ waiting'[s] = {}
         \/ \E v \in waiting[s] : waiting'[s] = waiting[s] \ {v}
  BY DEF Releases, Release, NotifyOne, Types
<1>5. CASE q # s
  BY <1>1, <1>2, <1>3, <1>4, <1>5, BystanderCovered
<1>6. CASE q = s /\ waiting'[s] = {}
  BY <1>6 DEF Covered
<1>7. CASE q = s /\ waiting'[s] # {}
  <2>1. PICK v \in waiting[s] : waiting'[s] = waiting[s] \ {v}
    BY <1>4, <1>7
  <2>2. /\ v \notin Acquiring(s) \ waiting[s]
        /\ (Acquiring(s) \ waiting[s]) \cup {v} \subseteq Acquiring(s)' \ waiting'[s]
    BY <1>1, <1>2, <1>7, <2>1 DEF Covered
  <2>3. Cardinality((Acquiring(s) \ waiting[s]) \cup {v})
            = Cardinality(Acquiring(s) \ waiting[s]) + 1
    BY <2>2, AwakeCounted, FS_AddElement
  <2>4. Cardinality((Acquiring(s) \ waiting[s]) \cup {v})
            <= Cardinality(Acquiring(s)' \ waiting'[s])
    BY <2>2, AwakeCounted, FS_Subset
  <2>5. counter[s] <= Cardinality(Acquiring(s) \ waiting[s])
    BY <1>1, <1>7, <2>1 DEF Covered
  <2>6. waiting'[s] \subseteq Acquiring(s)'
    BY <1>1, <1>2, <1>7, <2>1 DEF Covered
  <2>7. counter'[s] <= Cardinality(Acquiring(s)' \ waiting'[s])
    <3> DEFINE m == Cardinality(Acquiring(s) \ waiting[s])
               n == Cardinality(Acquiring(s)' \ waiting'[s])
    <3>1. m \in Nat /\ n \in Nat /\ m + 1 <= n /\ counter[s] <= m /\ counter[s] \in Nat
      BY <1>1, <1>7, <2>3, <2>4, <2>5, AwakeCounted
    <3> HIDE DEF m, n
    <3>2. counter'[s] <= n
      BY <1>3, <3>1
    <3> QED BY <3>2 DEF n
  <2> QED BY <1>7, <2>6, <2>7 DEF Covered
<1> QED BY <1>5, <1>6, <1>7

(* A step of a thread that is not at a door. *)
LEMMA InsideCovered ==
  ASSUME Types, AllCovered, NEW t \in Threads, NEW from \in Places \ {"slot", "lock"},
         NEW to \in Places, Goto(t, from, to), UNCHANGED semVars
  PROVE  AllCovered'
<1> SUFFICES ASSUME NEW q \in Semaphores PROVE Covered(q)'
  BY DEF AllCovered
<1>1. Acquiring(q) \subseteq Acquiring(q)'
  BY AtTheDoor DEF Goto, Types, Door
<1> QED BY <1>1, BystanderCovered DEF semVars, AllCovered

LEMMA NextCovered == Types /\ AllCovered /\ [Next]_vars => AllCovered'
<1> SUFFICES ASSUME Types, AllCovered, [Next]_vars PROVE AllCovered'
  OBVIOUS
<1>1. {"idle", "slot", "lock", "buffer", "unlock", "signal", "return"} \subseteq Places
  BY DEF Places
<1>2. ASSUME NEW p \in Producers, PutCalled(p) \/ Put(p) PROVE AllCovered'
  <2>1. p \in Threads /\ p \in Producers /\ p \notin Consumers
    BY SidesDiffer
  <2>2. CASE PutCalled(p) \/ PutInserts(p)
    BY <1>1, <2>1, <2>2, InsideCovered DEF PutCalled, PutInserts, semVars
  <2>3. CASE PutAcquiresSlot(p)
    BY <1>1, <2>1, <2>3, Constants, AcquireCovered DEF PutAcquiresSlot, Side, Door
  <2>4. CASE PutLocks(p)
    BY <1>1, <2>1, <2>4, Constants, AcquireCovered DEF PutLocks, Side, Door
  <2>5. CASE PutUnlocks(p) \/ PutSignals(p)
    BY <1>1, <2>1, <2>5, Constants, ReleaseCovered DEF PutUnlocks, PutSignals
  <2> QED BY <1>2, <2>2, <2>3, <2>4, <2>5 DEF Put
<1>3. ASSUME NEW c \in Consumers, TakeCalled(c) \/ Take(c) PROVE AllCovered'
  <2>1. c \in Threads /\ c \in Consumers /\ c \notin Producers
    BY SidesDiffer
  <2>2. CASE TakeCalled(c) \/ TakeRemoves(c) \/ TakeReturns(c)
    BY <1>1, <2>1, <2>2, InsideCovered DEF TakeCalled, TakeRemoves, TakeReturns, semVars
  <2>3. CASE TakeAcquiresItem(c)
    BY <1>1, <2>1, <2>3, Constants, AcquireCovered DEF TakeAcquiresItem, Side, Door
  <2>4. CASE TakeLocks(c)
    BY <1>1, <2>1, <2>4, Constants, AcquireCovered DEF TakeLocks, Side, Door
  <2>5. CASE TakeUnlocks(c) \/ TakeSignals(c)
    BY <1>1, <2>1, <2>5, Constants, ReleaseCovered DEF TakeUnlocks, TakeSignals
  <2> QED BY <1>3, <2>2, <2>3, <2>4, <2>5 DEF Take
<1>4. ASSUME NEW t \in Threads, Wakes(t) PROVE AllCovered'
  <2> SUFFICES ASSUME NEW q \in Semaphores PROVE Covered(q)'
    BY DEF AllCovered
  <2>1. waiting'[q] \subseteq waiting[q] /\ counter' = counter /\ pc' = pc
    BY <1>4 DEF Wakes, SpuriousWakeup, Types
  <2> QED BY <2>1, AtTheDoor, BystanderCovered DEF AllCovered
<1>5. CASE UNCHANGED vars
  BY <1>5 DEF vars, semVars, AllCovered, Covered, Acquiring
<1> QED BY <1>2, <1>3, <1>4, <1>5 DEF Next

(* For any number of producers and consumers, and any capacity: while a    *)
(* thread sleeps in a semaphore, each of its permits has an awake thread   *)
(* that is about to acquire it; the one notify_one of a Release is enough  *)
(* (semaphore.hpp:35-40).                                                  *)
THEOREM NobodySleepsBesideAPermit == Spec => []NobodyOversleeps
<1>1. Init => AllCovered
  BY Constants DEF Init, SemInit, AllCovered, Covered
<1>2. IInv => Types
  BY DEF IInv
<1>3. AllCovered => NobodyOversleeps
  BY DEF AllCovered, Covered, NobodyOversleeps
<1> QED BY <1>1, <1>2, <1>3, InitIInv, NextIInv, NextCovered, PTL DEF Spec
----------------------------------------------------------------------------
(* The tokens.  Permits are counted one by one, each a semaphore and a     *)
(* number.                                                                 *)
Pile(S, f) == UNION {{s} \X (1..f[s]) : s \in S}

LEMMA PileGrows ==
  ASSUME NEW S, NEW f \in [S -> Nat], NEW g \in [S -> Nat], NEW s \in S,
         g[s] = f[s] + 1, \A r \in S \ {s} : g[r] = f[r]
  PROVE  IsFiniteSet(Pile(S, f)) \/ IsFiniteSet(Pile(S, g)) =>
             /\ IsFiniteSet(Pile(S, f)) /\ IsFiniteSet(Pile(S, g))
             /\ Cardinality(Pile(S, f)) \in Nat
             /\ Cardinality(Pile(S, g)) = Cardinality(Pile(S, f)) + 1
<1> DEFINE new == <<s, g[s]>>
<1>1. \A x : x \in Pile(S, f) <=> \E r \in S : \E i \in 1..f[r] : x = <<r, i>>
  BY DEF Pile
<1>2. \A x : x \in Pile(S, g) <=> \E r \in S : \E i \in 1..g[r] : x = <<r, i>>
  BY DEF Pile
<1>3. 1..g[s] = (1..f[s]) \cup {g[s]} /\ g[s] \notin 1..f[s] /\ g[s] \in 1..g[s]
  OBVIOUS
<1>4. new \notin Pile(S, f)
  BY <1>1, <1>3
<1>5. Pile(S, g) = Pile(S, f) \cup {new}
  <2>1. ASSUME NEW x, x \in Pile(S, g) PROVE x \in Pile(S, f) \cup {new}
    <3>1. PICK r \in S : \E i \in 1..g[r] : x = <<r, i>>
      BY <1>2, <2>1
    <3>2. PICK i \in 1..g[r] : x = <<r, i>>
      BY <3>1
    <3>3. CASE r = s
      BY <1>1, <1>3, <3>2, <3>3
    <3>4. CASE r # s
      BY <1>1, <3>2, <3>4
    <3> QED BY <3>3, <3>4
  <2>2. ASSUME NEW x, x \in Pile(S, f) PROVE x \in Pile(S, g)
    <3>1. PICK r \in S : \E i \in 1..f[r] : x = <<r, i>>
      BY <1>1, <2>2
    <3>2. CASE r = s
      BY <1>2, <1>3, <3>1, <3>2
    <3>3. CASE r # s
      BY <1>2, <3>1, <3>3
    <3> QED BY <3>2, <3>3
  <2>3. new \in Pile(S, g)
    BY <1>2, <1>3
  <2> QED BY <2>1, <2>2, <2>3
<1> HIDE DEF new, Pile
<1>6. Pile(S, f) = Pile(S, g) \ {new}
  BY <1>4, <1>5
<1>7. IsFiniteSet(Pile(S, g)) => IsFiniteSet(Pile(S, f))
  BY <1>6, FS_RemoveElement
<1>8. ASSUME IsFiniteSet(Pile(S, f))
      PROVE  /\ IsFiniteSet(Pile(S, g)) /\ Cardinality(Pile(S, f)) \in Nat
             /\ Cardinality(Pile(S, g)) = Cardinality(Pile(S, f)) + 1
  BY <1>4, <1>5, <1>8, FS_AddElement, FS_CardinalityType
<1> QED BY <1>7, <1>8

Marks == {"none", "valid", "invalid"}

Sides == {"own", "moved"}

CallStates ==
    {<<"none">>} \cup ({"Acquire"} \X Tagged) \cup ({"Invalidate"} \X Sides)

(* Whoever is in Acquire has no token yet. *)
TaggedTypes ==
    /\ permits \in [Tagged -> Nat]
    /\ token \in [Users -> [own : Marks, moved : Marks]]
    /\ call \in [Users -> CallStates]
    /\ \A t \in Users : call[t][1] = "Acquire" => ~Owns(t)
    /\ IsFiniteSet(FreePermits)

TaggedInv == TaggedTypes /\ TokensConserved

LEMMA TaggedFinite ==
  /\ IsFiniteSet(ValidTokens) /\ Cardinality(ValidTokens) \in Nat
  /\ IsFiniteSet(Invalidating) /\ Cardinality(Invalidating) \in Nat
<1>1. IsFiniteSet(Sides)
  <2>1. IsFiniteSet({"own"} \cup {"moved"})
    BY FS_Singleton, FS_Union
  <2>2. Sides = {"own"} \cup {"moved"}
    BY DEF Sides
  <2> QED BY <2>1, <2>2
<1>2. IsFiniteSet(Users \X Sides)
  BY <1>1, TaggedAssumption, FS_Product
<1>3. ValidTokens \subseteq Users \X Sides /\ Invalidating \subseteq Users
  BY DEF ValidTokens, Invalidating, Sides
<1>4. IsFiniteSet(ValidTokens) /\ IsFiniteSet(Invalidating)
  BY <1>2, <1>3, TaggedAssumption, FS_Subset
<1> QED BY <1>4, FS_CardinalityType

(* The same of the state after a step. *)
LEMMA TaggedFiniteNext ==
  /\ IsFiniteSet(ValidTokens') /\ Cardinality(ValidTokens') \in Nat
  /\ IsFiniteSet(Invalidating') /\ Cardinality(Invalidating') \in Nat
<1>1. IsFiniteSet(Sides)
  <2>1. IsFiniteSet({"own"} \cup {"moved"})
    BY FS_Singleton, FS_Union
  <2>2. Sides = {"own"} \cup {"moved"}
    BY DEF Sides
  <2> QED BY <2>1, <2>2
<1>2. IsFiniteSet(Users \X Sides)
  BY <1>1, TaggedAssumption, FS_Product
<1>3. ValidTokens' \subseteq Users \X Sides /\ Invalidating' \subseteq Users
  BY DEF ValidTokens, Invalidating, Sides
<1>4. IsFiniteSet(ValidTokens') /\ IsFiniteSet(Invalidating')
  BY <1>2, <1>3, TaggedAssumption, FS_Subset
<1> QED BY <1>4, FS_CardinalityType

(* The books: what each of the three counts gains in a step. *)
Gains(free, valid, invalidating) ==
    /\ IsFiniteSet(FreePermits')
    /\ Cardinality(FreePermits') = Cardinality(FreePermits) + free
    /\ Cardinality(ValidTokens') = Cardinality(ValidTokens) + valid
    /\ Cardinality(Invalidating') = Cardinality(Invalidating) + invalidating

LEMMA BooksKept ==
  ASSUME TaggedTypes, TokensConserved, ~aborted, NEW f \in Int, NEW v \in Int,
         Gains(f, v, f + v)
  PROVE  TokensConserved'
<1>1. Cardinality(FreePermits) \in Nat
  BY FS_CardinalityType DEF TaggedTypes
<1>2. Cardinality(Tagged) \in Nat /\ Tokens \in Nat
  BY TaggedAssumption, FS_CardinalityType
<1>3. Cardinality(ValidTokens) \in Nat /\ Cardinality(Invalidating) \in Nat
  BY TaggedFinite
<1> DEFINE n == Tokens * Cardinality(Tagged)
<1>4. n \in Nat
  BY <1>2
<1>5. Cardinality(FreePermits) + Cardinality(ValidTokens) = n + Cardinality(Invalidating)
  BY DEF TokensConserved
<1> HIDE DEF n
<1>6. Cardinality(FreePermits') + Cardinality(ValidTokens') = n + Cardinality(Invalidating')
  BY <1>1, <1>3, <1>4, <1>5 DEF Gains
<1> QED BY <1>6 DEF TokensConserved, n

LEMMA FreeSame ==
  ASSUME TaggedTypes, permits' = permits
  PROVE  /\ IsFiniteSet(FreePermits')
         /\ Cardinality(FreePermits') = Cardinality(FreePermits) + 0
<1>1. FreePermits' = FreePermits
  BY DEF FreePermits
<1>2. Cardinality(FreePermits) \in Nat /\ IsFiniteSet(FreePermits)
  BY FS_CardinalityType DEF TaggedTypes
<1> QED BY <1>1, <1>2

LEMMA FreeMoves ==
  ASSUME TaggedTypes, NEW s \in Tagged, NEW d \in {1, -1},
         permits' = [permits EXCEPT ![s] = @ + d], permits[s] + d \in Nat
  PROVE  /\ permits' \in [Tagged -> Nat] /\ IsFiniteSet(FreePermits')
         /\ Cardinality(FreePermits') = Cardinality(FreePermits) + d
<1>1. /\ permits \in [Tagged -> Nat] /\ permits' \in [Tagged -> Nat]
      /\ permits'[s] = permits[s] + d
      /\ \A r \in Tagged \ {s} : permits'[r] = permits[r]
      /\ \A r \in Tagged \ {s} : permits[r] = permits'[r]
  BY DEF TaggedTypes
<1>2. FreePermits = Pile(Tagged, permits) /\ FreePermits' = Pile(Tagged, permits')
  BY DEF FreePermits, Pile
<1>3. IsFiniteSet(Pile(Tagged, permits))
  BY <1>2 DEF TaggedTypes
<1>4. ASSUME NEW f \in [Tagged -> Nat], NEW g \in [Tagged -> Nat],
             g[s] = f[s] + 1, \A r \in Tagged \ {s} : g[r] = f[r],
             IsFiniteSet(Pile(Tagged, f)) \/ IsFiniteSet(Pile(Tagged, g))
      PROVE  /\ IsFiniteSet(Pile(Tagged, f)) /\ IsFiniteSet(Pile(Tagged, g))
             /\ Cardinality(Pile(Tagged, f)) \in Nat
             /\ Cardinality(Pile(Tagged, g)) = Cardinality(Pile(Tagged, f)) + 1
  BY <1>4, PileGrows
<1>5. CASE d = 1
  <2>1. permits'[s] = permits[s] + 1
    BY <1>1, <1>5
  <2>2. /\ IsFiniteSet(Pile(Tagged, permits'))
        /\ Cardinality(Pile(Tagged, permits')) = Cardinality(Pile(Tagged, permits)) + 1
    BY <1>1, <1>3, <1>4, <2>1
  <2> QED BY <1>1, <1>2, <1>5, <2>2
<1>6. CASE d = -1
  <2>1. permits[s] = permits'[s] + 1
    BY <1>1, <1>6 DEF TaggedTypes
  <2>2. /\ IsFiniteSet(Pile(Tagged, permits'))
        /\ Cardinality(Pile(Tagged, permits')) \in Nat
        /\ Cardinality(Pile(Tagged, permits)) = Cardinality(Pile(Tagged, permits')) + 1
    BY <1>1, <1>3, <1>4, <2>1
  <2>3. Cardinality(FreePermits') = Cardinality(FreePermits) + (-1)
    BY <1>2, <2>2
  <2> QED BY <1>1, <1>2, <1>6, <2>2, <2>3
<1> QED BY <1>5, <1>6

(* The marks of the tokens of t change: as many are valid, one more, one   *)
(* less. *)
LEMMA ValidSame ==
  ASSUME NEW t \in Users, \A u \in Users \ {t} : token'[u] = token[u],
         \/ \A k \in Sides : token'[t][k] = "valid" <=> token[t][k] = "valid"
         \/ /\ token[t].own = "valid" /\ token[t].moved # "valid"
            /\ token'[t].own # "valid" /\ token'[t].moved = "valid"
  PROVE  Cardinality(ValidTokens') = Cardinality(ValidTokens) + 0
<1>1. /\ \A u, k : <<u, k>> \in ValidTokens <=> u \in Users /\ k \in Sides /\ token[u][k] = "valid"
      /\ \A u, k : <<u, k>> \in ValidTokens' <=> u \in Users /\ k \in Sides /\ token'[u][k] = "valid"
      /\ \A x \in ValidTokens \cup ValidTokens' : x = <<x[1], x[2]>>
  BY DEF ValidTokens, Sides
<1>2. /\ IsFiniteSet(ValidTokens) /\ Cardinality(ValidTokens) \in Nat
      /\ IsFiniteSet(ValidTokens')
  BY TaggedFinite, TaggedFiniteNext
<1>3. CASE \A k \in Sides : token'[t][k] = "valid" <=> token[t][k] = "valid"
  <2>1. \A u \in Users, k \in Sides : token'[u][k] = "valid" <=> token[u][k] = "valid"
    BY <1>3
  <2>2. ValidTokens' = ValidTokens
    BY <2>1 DEF ValidTokens, Sides
  <2> QED BY <1>2, <2>2
<1>4. CASE /\ token[t].own = "valid" /\ token[t].moved # "valid"
           /\ token'[t].own # "valid" /\ token'[t].moved = "valid"
  <2> DEFINE own == <<t, "own">>
             moved == <<t, "moved">>
  <2>1. /\ own \in ValidTokens /\ own \notin ValidTokens'
        /\ moved \notin ValidTokens /\ moved \in ValidTokens'
    BY <1>1, <1>4 DEF Sides
  <2>2. \A u, k : (u # t \/ k \notin Sides) =>
            (<<u, k>> \in ValidTokens' <=> <<u, k>> \in ValidTokens)
    BY <1>1
  <2>3. \A x \in ValidTokens \cup ValidTokens' : x[1] # t \/ x = own \/ x = moved
    BY <1>1 DEF Sides
  <2>4. \A x : x # own /\ x # moved => (x \in ValidTokens' <=> x \in ValidTokens)
    BY <1>1, <2>2, <2>3
  <2> HIDE DEF own, moved
  <2>5. ValidTokens' \ {moved} = ValidTokens \ {own}
    BY <2>1, <2>4
  <2>6. Cardinality(ValidTokens \ {own}) = Cardinality(ValidTokens) - 1
    BY <1>2, <2>1, FS_RemoveElement
  <2>7. Cardinality(ValidTokens' \ {moved}) = Cardinality(ValidTokens') - 1
    BY <1>2, <2>1, FS_RemoveElement
  <2>8. Cardinality(ValidTokens') \in Nat
    BY TaggedFiniteNext
  <2> QED BY <1>2, <2>5, <2>6, <2>7, <2>8
<1> QED BY <1>3, <1>4

LEMMA ValidMore ==
  ASSUME NEW t \in Users, \A u \in Users \ {t} : token'[u] = token[u],
         NEW k \in Sides, token[t][k] # "valid", token'[t][k] = "valid",
         \A j \in Sides \ {k} : token'[t][j] = token[t][j]
  PROVE  Cardinality(ValidTokens') = Cardinality(ValidTokens) + 1
<1> DEFINE x == <<t, k>>
<1>1. /\ \A u, j : <<u, j>> \in ValidTokens <=> u \in Users /\ j \in Sides /\ token[u][j] = "valid"
      /\ \A u, j : <<u, j>> \in ValidTokens' <=> u \in Users /\ j \in Sides /\ token'[u][j] = "valid"
      /\ \A y \in ValidTokens \cup ValidTokens' : y = <<y[1], y[2]>>
  BY DEF ValidTokens, Sides
<1>2. x \notin ValidTokens /\ x \in ValidTokens'
  BY <1>1
<1>3. \A u, j : <<u, j>> # x => (<<u, j>> \in ValidTokens' <=> <<u, j>> \in ValidTokens)
  BY <1>1
<1>4. ValidTokens' = ValidTokens \cup {x}
  <2> HIDE DEF x
  <2>1. \A y \in ValidTokens' : y # x => y \in ValidTokens
    BY <1>1, <1>3
  <2>2. \A y \in ValidTokens : y # x => y \in ValidTokens'
    BY <1>1, <1>3
  <2> QED BY <1>2, <2>1, <2>2
<1> QED BY <1>2, <1>4, TaggedFinite, FS_AddElement

LEMMA ValidLess ==
  ASSUME NEW t \in Users, \A u \in Users \ {t} : token'[u] = token[u],
         NEW k \in Sides, token[t][k] = "valid", token'[t][k] # "valid",
         \A j \in Sides \ {k} : token'[t][j] = token[t][j]
  PROVE  Cardinality(ValidTokens') = Cardinality(ValidTokens) + (-1)
<1> DEFINE x == <<t, k>>
<1>1. /\ \A u, j : <<u, j>> \in ValidTokens <=> u \in Users /\ j \in Sides /\ token[u][j] = "valid"
      /\ \A u, j : <<u, j>> \in ValidTokens' <=> u \in Users /\ j \in Sides /\ token'[u][j] = "valid"
      /\ \A y \in ValidTokens \cup ValidTokens' : y = <<y[1], y[2]>>
  BY DEF ValidTokens, Sides
<1>2. x \in ValidTokens /\ x \notin ValidTokens'
  BY <1>1
<1>3. \A u, j : <<u, j>> # x => (<<u, j>> \in ValidTokens' <=> <<u, j>> \in ValidTokens)
  BY <1>1
<1>4. ValidTokens' = ValidTokens \ {x}
  <2> HIDE DEF x
  <2>1. \A y \in ValidTokens' : y # x => y \in ValidTokens
    BY <1>1, <1>3
  <2>2. \A y \in ValidTokens : y # x => y \in ValidTokens'
    BY <1>1, <1>3
  <2> QED BY <1>2, <2>1, <2>2
<1>5. Cardinality(ValidTokens \ {x}) = Cardinality(ValidTokens) - 1
  BY <1>2, TaggedFinite, FS_RemoveElement
<1> QED BY <1>4, <1>5, TaggedFinite

(* A thread goes from one call to another. *)
LEMMA CallMoves ==
  ASSUME TaggedTypes, NEW t \in Users, NEW from \in CallStates, NEW to \in CallStates,
         Calls(t, from, to)
  PROVE  /\ ~aborted /\ call[t] = from /\ call'[t] = to /\ call' \in [Users -> CallStates]
         /\ \A u \in Users \ {t} : call'[u] = call[u]
         /\ from[1] = to[1] \/ "Invalidate" \notin {from[1], to[1]}
            => Cardinality(Invalidating') = Cardinality(Invalidating) + 0
         /\ from[1] # "Invalidate" /\ to[1] = "Invalidate"
            => Cardinality(Invalidating') = Cardinality(Invalidating) + 1
         /\ from[1] = "Invalidate" /\ to[1] # "Invalidate"
            => Cardinality(Invalidating') = Cardinality(Invalidating) + (-1)
<1>1. /\ ~aborted /\ call[t] = from /\ call'[t] = to /\ call' \in [Users -> CallStates]
      /\ \A u \in Users \ {t} : call'[u] = call[u]
  BY DEF Calls, TaggedTypes
<1>2. /\ t \in Invalidating <=> from[1] = "Invalidate"
      /\ t \in Invalidating' <=> to[1] = "Invalidate"
      /\ Invalidating \ {t} = Invalidating' \ {t}
  BY <1>1 DEF Invalidating
<1>3. /\ IsFiniteSet(Invalidating) /\ Cardinality(Invalidating) \in Nat
      /\ IsFiniteSet(Invalidating') /\ Cardinality(Invalidating') \in Nat
  BY TaggedFinite, TaggedFiniteNext
<1>4. Cardinality(Invalidating') = Cardinality(Invalidating)
          + (IF t \in Invalidating' THEN 1 ELSE 0) - (IF t \in Invalidating THEN 1 ELSE 0)
  BY <1>2, <1>3, CardinalityMoves
<1>5. /\ from[1] = to[1] \/ "Invalidate" \notin {from[1], to[1]}
         => (t \in Invalidating <=> t \in Invalidating')
      /\ from[1] # "Invalidate" /\ to[1] = "Invalidate"
         => t \notin Invalidating /\ t \in Invalidating'
      /\ from[1] = "Invalidate" /\ to[1] # "Invalidate"
         => t \in Invalidating /\ t \notin Invalidating'
  BY <1>2
<1>6. /\ (t \in Invalidating <=> t \in Invalidating')
         => Cardinality(Invalidating') = Cardinality(Invalidating) + 0
      /\ t \notin Invalidating /\ t \in Invalidating'
         => Cardinality(Invalidating') = Cardinality(Invalidating) + 1
      /\ t \in Invalidating /\ t \notin Invalidating'
         => Cardinality(Invalidating') = Cardinality(Invalidating) + (-1)
  BY <1>3, <1>4
<1> QED BY <1>1, <1>5, <1>6

(* The states of a call. *)
LEMMA CallKinds ==
  /\ <<"none">> \in CallStates /\ <<"none">>[1] = "none"
  /\ \A s \in Tagged : <<"Acquire", s>> \in CallStates /\ <<"Acquire", s>>[1] = "Acquire"
  /\ \A k \in Sides : <<"Invalidate", k>> \in CallStates
                      /\ <<"Invalidate", k>>[1] = "Invalidate"
BY DEF CallStates

LEMMA TaggedInitInv ==
  ASSUME TaggedInit
  PROVE  TaggedInv
<1>1. /\ permits = [s \in Tagged |-> Tokens] /\ Tokens \in Nat
      /\ token = [t \in Users |-> [own |-> "none", moved |-> "none"]]
      /\ call = [t \in Users |-> <<"none">>]
  BY TaggedAssumption DEF TaggedInit, Impl!SemInit
<1>2. FreePermits = Tagged \X (1..Tokens)
  <2>1. \A s \in Tagged : {s} \X (1..permits[s]) = {s} \X (1..Tokens)
    BY <1>1
  <2>2. FreePermits = UNION {{s} \X (1..Tokens) : s \in Tagged}
    BY <2>1 DEF FreePermits
  <2> DEFINE N == 1..Tokens
  <2>3. UNION {{s} \X N : s \in Tagged} = Tagged \X N
    <3> HIDE DEF N
    <3> QED OBVIOUS
  <2> QED BY <2>2, <2>3
<1>3. /\ IsFiniteSet(1..Tokens) /\ Cardinality(1..Tokens) = Tokens
      /\ IsFiniteSet(Tagged)
  <2>1. IsFiniteSet(1..Tokens) /\ Cardinality(1..Tokens) =
            IF 1 > Tokens THEN 0 ELSE Tokens - 1 + 1
    BY <1>1, FS_Interval
  <2> QED BY <1>1, <2>1, TaggedAssumption
<1>4. /\ IsFiniteSet(FreePermits)
      /\ Cardinality(FreePermits) = Cardinality(Tagged) * Tokens
  BY <1>2, <1>3, FS_Product
<1>5. Cardinality(ValidTokens) = 0
  <2>1. ValidTokens = {}
    BY <1>1 DEF ValidTokens
  <2> QED BY <2>1, FS_EmptySet
<1>6. Cardinality(Invalidating) = 0
  <2>1. Invalidating = {}
    BY <1>1, CallKinds DEF Invalidating
  <2> QED BY <2>1, FS_EmptySet
<1>7. TokensConserved
  <2>1. Cardinality(Tagged) \in Nat
    BY <1>3, FS_CardinalityType
  <2>2. Cardinality(Tagged) * Tokens = Tokens * Cardinality(Tagged)
        /\ Tokens * Cardinality(Tagged) \in Nat
    BY <1>1, <2>1
  <2> QED BY <1>4, <1>5, <1>6, <2>2 DEF TokensConserved
<1>8. TaggedTypes
  BY <1>1, <1>4, CallKinds DEF TaggedTypes, Marks, Owns
<1> QED BY <1>7, <1>8 DEF TaggedInv

(* Calling Acquire, or making a Guard. *)
LEMMA AcquireTokenKeeps ==
  ASSUME TaggedInv, NEW t \in Users, NEW s \in Tagged, AcquireToken(t, s)
  PROVE  TaggedInv'
<1>1. /\ ~Owns(t) /\ Calls(t, <<"none">>, <<"Acquire", s>>)
      /\ permits' = permits /\ token' = token
  BY DEF AcquireToken
<1>2. /\ ~aborted /\ call'[t] = <<"Acquire", s>> /\ call' \in [Users -> CallStates]
      /\ \A u \in Users \ {t} : call'[u] = call[u]
      /\ Cardinality(Invalidating') = Cardinality(Invalidating) + 0
  BY <1>1, CallKinds, CallMoves DEF TaggedInv
<1>3. /\ IsFiniteSet(FreePermits')
      /\ Cardinality(FreePermits') = Cardinality(FreePermits) + 0
  BY <1>1, FreeSame DEF TaggedInv
<1>4. Cardinality(ValidTokens') = Cardinality(ValidTokens) + 0
  BY <1>1, ValidSame
<1>5. Gains(0, 0, 0 + 0)
  BY <1>2, <1>3, <1>4 DEF Gains
<1>6. TokensConserved'
  BY <1>2, <1>5, BooksKept DEF TaggedInv
<1>7. TaggedTypes'
  BY <1>1, <1>2, <1>3 DEF TaggedInv, TaggedTypes, Owns
<1> QED BY <1>6, <1>7 DEF TaggedInv

LEMMA AcquireReturnsKeeps ==
  ASSUME TaggedInv, NEW t \in Users, NEW s \in Tagged, AcquireReturns(t, s)
  PROVE  TaggedInv'
<1>1. CASE /\ Calls(t, <<"Acquire", s>>, <<"none">>)
           /\ Impl!AcquireTakes(s, t)
           /\ token' = [token EXCEPT ![t].own = "valid"]
  <2>1. /\ ~aborted /\ call[t] = <<"Acquire", s>> /\ call'[t] = <<"none">>
        /\ call' \in [Users -> CallStates]
        /\ \A u \in Users \ {t} : call'[u] = call[u]
        /\ Cardinality(Invalidating') = Cardinality(Invalidating) + 0
    BY <1>1, CallKinds, CallMoves DEF TaggedInv
  <2>2. permits[s] \in Nat \ {0} /\ permits' = [permits EXCEPT ![s] = @ + (-1)]
    <3>1. /\ permits \in [Tagged -> Nat] /\ permits[s] > 0
          /\ permits' = [permits EXCEPT ![s] = permits[s] - 1]
      BY <1>1 DEF Impl!AcquireTakes, TaggedInv, TaggedTypes
    <3>2. permits[s] \in Nat \ {0} /\ permits[s] - 1 = permits[s] + (-1)
      BY <3>1
    <3>3. permits' = [permits EXCEPT ![s] = permits[s] + (-1)]
      BY <3>1, <3>2, Zenon
    <3> QED BY <3>2, <3>3
  <2>3. permits[s] + (-1) \in Nat
    BY <2>2
  <2>4. /\ permits' \in [Tagged -> Nat] /\ IsFiniteSet(FreePermits')
        /\ Cardinality(FreePermits') = Cardinality(FreePermits) + (-1)
    BY <2>2, <2>3, FreeMoves DEF TaggedInv
  <2>5. ~Owns(t) /\ token[t] = [own |-> "none", moved |-> "none"]
    BY <2>1, CallKinds DEF TaggedInv, TaggedTypes, Owns
  <2>6. /\ token' \in [Users -> [own : Marks, moved : Marks]]
        /\ token'[t] = [own |-> "valid", moved |-> "none"]
        /\ \A u \in Users \ {t} : token'[u] = token[u]
    BY <1>1, <2>5 DEF TaggedInv, TaggedTypes, Marks
  <2>7. Cardinality(ValidTokens') = Cardinality(ValidTokens) + 1
    <3>1. /\ token[t]["own"] # "valid" /\ token'[t]["own"] = "valid" /\ "own" \in Sides
          /\ \A j \in Sides \ {"own"} : token'[t][j] = token[t][j]
      BY <2>5, <2>6 DEF Sides
    <3> QED BY <2>6, <3>1, ValidMore
  <2>8. Gains(-1, 1, -1 + 1)
    BY <2>1, <2>4, <2>7 DEF Gains
  <2>9. TokensConserved'
    BY <2>1, <2>8, BooksKept DEF TaggedInv
  <2>10. TaggedTypes'
    BY <2>1, <2>4, <2>6, CallKinds DEF TaggedInv, TaggedTypes, Owns
  <2> QED BY <2>9, <2>10 DEF TaggedInv
<1>2. CASE /\ Calls(t, <<"Acquire", s>>, <<"Acquire", s>>)
           /\ Impl!AcquireWaits(s, t) \/ Impl!SpuriousWakeup(s, t)
           /\ UNCHANGED token
  <2>1. permits' = permits /\ token' = token
    BY <1>2 DEF Impl!AcquireWaits, Impl!SpuriousWakeup
  <2>2. /\ ~aborted /\ call[t] = <<"Acquire", s>> /\ call'[t] = <<"Acquire", s>>
        /\ call' \in [Users -> CallStates]
        /\ \A u \in Users \ {t} : call'[u] = call[u]
        /\ Cardinality(Invalidating') = Cardinality(Invalidating) + 0
    BY <1>2, CallKinds, CallMoves DEF TaggedInv
  <2>3. /\ IsFiniteSet(FreePermits')
        /\ Cardinality(FreePermits') = Cardinality(FreePermits) + 0
    BY <2>1, FreeSame DEF TaggedInv
  <2>4. Cardinality(ValidTokens') = Cardinality(ValidTokens) + 0
    BY <2>1, ValidSame
  <2>5. Gains(0, 0, 0 + 0)
    BY <2>2, <2>3, <2>4 DEF Gains
  <2>6. TokensConserved'
    BY <2>2, <2>5, BooksKept DEF TaggedInv
  <2>7. TaggedTypes'
    BY <2>1, <2>2, <2>3 DEF TaggedInv, TaggedTypes, Owns
  <2> QED BY <2>6, <2>7 DEF TaggedInv
<1> QED BY <1>1, <1>2 DEF AcquireReturns

(* Who has called nothing goes on without the counter of a semaphore.      *)
LEMMA QuietCalls ==
  ASSUME TaggedInv, NEW t \in Users, NEW from \in CallStates,
         Calls(t, from, <<"none">>), permits' = permits,
         NEW v \in {0, -1}, Cardinality(ValidTokens') = Cardinality(ValidTokens) + v,
         from[1] = (IF v = 0 THEN "none" ELSE "Invalidate"),
         token' \in [Users -> [own : Marks, moved : Marks]],
         \A u \in Users \ {t} : token'[u] = token[u]
  PROVE  TaggedInv'
<1>1. /\ ~aborted /\ call'[t] = <<"none">> /\ call' \in [Users -> CallStates]
      /\ \A u \in Users \ {t} : call'[u] = call[u]
      /\ Cardinality(Invalidating') = Cardinality(Invalidating) + v
  BY CallKinds, CallMoves DEF TaggedInv
<1>2. /\ IsFiniteSet(FreePermits')
      /\ Cardinality(FreePermits') = Cardinality(FreePermits) + 0
  BY FreeSame DEF TaggedInv
<1>3. Gains(0, v, 0 + v)
  BY <1>1, <1>2 DEF Gains
<1>4. TokensConserved'
  BY <1>1, <1>3, BooksKept DEF TaggedInv
<1>5. TaggedTypes'
  BY <1>1, <1>2, CallKinds DEF TaggedInv, TaggedTypes, Owns
<1> QED BY <1>4, <1>5 DEF TaggedInv

(* A failed assert ends the program, and changes no token. *)
LEMMA AbortKeeps ==
  ASSUME TaggedInv, NEW t \in Users, NEW from \in CallStates,
         Calls(t, from, <<"none">>), permits' = permits, token' = token, aborted'
  PROVE  TaggedInv'
<1>1. /\ call'[t] = <<"none">> /\ call' \in [Users -> CallStates]
      /\ \A u \in Users \ {t} : call'[u] = call[u]
  BY CallKinds, CallMoves DEF TaggedInv
<1>2. IsFiniteSet(FreePermits')
  BY FreeSame DEF TaggedInv
<1>3. TaggedTypes'
  BY <1>1, <1>2, CallKinds DEF TaggedInv, TaggedTypes, Owns
<1> QED BY <1>3 DEF TaggedInv, TokensConserved

LEMMA MoveTokenKeeps ==
  ASSUME TaggedInv, NEW t \in Users, MoveToken(t)
  PROVE  TaggedInv'
<1>1. /\ token[t].moved = "none" /\ Calls(t, <<"none">>, <<"none">>)
      /\ Invalidate(t, "own", "valid") /\ permits' = permits
  BY DEF MoveToken
<1>2. CASE token[t]["own"] = "valid"
  <2>1. token' = [token EXCEPT ![t].moved = "valid", ![t]["own"] = "invalid"]
    BY <1>1, <1>2 DEF Invalidate
  <2>2. token[t] \in [own : Marks, moved : Marks] /\ token \in [Users -> [own : Marks, moved : Marks]]
    BY DEF TaggedInv, TaggedTypes
  <2>3. /\ token'[t].own = "invalid" /\ token'[t].moved = "valid"
        /\ \A u \in Users \ {t} : token'[u] = token[u]
        /\ token' \in [Users -> [own : Marks, moved : Marks]]
    BY <2>1, <2>2 DEF Marks
  <2>4. Cardinality(ValidTokens') = Cardinality(ValidTokens) + 0
    BY <1>1, <1>2, <2>3, ValidSame
  <2> QED BY <1>1, <2>3, <2>4, CallKinds, QuietCalls
<1>3. CASE token[t]["own"] # "valid"
  BY <1>1, <1>3, CallKinds, AbortKeeps DEF Invalidate
<1> QED BY <1>2, <1>3

LEMMA ReleaseImplKeeps ==
  ASSUME TaggedInv, NEW t \in Users, NEW s \in Tagged, NEW k \in Sides,
         ReleaseImpl(t, s, k)
  PROVE  TaggedInv'
<1>1. /\ Calls(t, <<"none">>, <<"Invalidate", k>>) /\ token' = token
      /\ permits' = [permits EXCEPT ![s] = @ + 1]
  BY DEF ReleaseImpl, Impl!Release
<1>2. /\ ~aborted /\ call'[t] = <<"Invalidate", k>> /\ call' \in [Users -> CallStates]
      /\ \A u \in Users \ {t} : call'[u] = call[u]
      /\ Cardinality(Invalidating') = Cardinality(Invalidating) + 1
  BY <1>1, CallKinds, CallMoves DEF TaggedInv
<1>3. permits[s] + 1 \in Nat
  BY DEF TaggedInv, TaggedTypes
<1>4. /\ permits' \in [Tagged -> Nat] /\ IsFiniteSet(FreePermits')
      /\ Cardinality(FreePermits') = Cardinality(FreePermits) + 1
  BY <1>1, <1>3, FreeMoves DEF TaggedInv
<1>5. Cardinality(ValidTokens') = Cardinality(ValidTokens) + 0
  BY <1>1, ValidSame
<1>6. Gains(1, 0, 1 + 0)
  BY <1>2, <1>4, <1>5 DEF Gains
<1>7. TokensConserved'
  BY <1>2, <1>6, BooksKept DEF TaggedInv
<1>8. TaggedTypes'
  BY <1>1, <1>2, <1>4, CallKinds DEF TaggedInv, TaggedTypes, Owns
<1> QED BY <1>7, <1>8 DEF TaggedInv

LEMMA ReleaseInvalidatesKeeps ==
  ASSUME TaggedInv, NEW t \in Users, NEW k \in Sides, ReleaseInvalidates(t, k)
  PROVE  TaggedInv'
<1>1. /\ Calls(t, <<"Invalidate", k>>, <<"none">>)
      /\ Invalidate(t, k, token[t].moved) /\ permits' = permits
  BY DEF ReleaseInvalidates
<1>2. CASE token[t][k] = "valid"
  <2>1. token' = [token EXCEPT ![t].moved = token[t].moved, ![t][k] = "invalid"]
    BY <1>1, <1>2 DEF Invalidate
  <2>2. token[t] \in [own : Marks, moved : Marks] /\ token \in [Users -> [own : Marks, moved : Marks]]
    BY DEF TaggedInv, TaggedTypes
  <2>3. /\ token'[t][k] = "invalid" /\ \A j \in Sides \ {k} : token'[t][j] = token[t][j]
        /\ \A u \in Users \ {t} : token'[u] = token[u]
        /\ token' \in [Users -> [own : Marks, moved : Marks]]
    <3>1. CASE k = "own"
      BY <2>1, <2>2, <3>1 DEF Marks, Sides
    <3>2. CASE k = "moved"
      BY <2>1, <2>2, <3>2 DEF Marks, Sides
    <3> QED BY <3>1, <3>2 DEF Sides
  <2>4. Cardinality(ValidTokens') = Cardinality(ValidTokens) + (-1)
    BY <1>2, <2>3, ValidLess
  <2> QED BY <1>1, <2>3, <2>4, CallKinds, QuietCalls
<1>3. CASE token[t][k] # "valid"
  BY <1>1, <1>3, CallKinds, AbortKeeps DEF Invalidate
<1> QED BY <1>2, <1>3

LEMMA DestroyTokensKeeps ==
  ASSUME TaggedInv, NEW t \in Users, DestroyTokens(t)
  PROVE  TaggedInv'
<1>1. /\ Calls(t, <<"none">>, <<"none">>) /\ permits' = permits
      /\ aborted' = ("valid" \in {token[t].own, token[t].moved})
      /\ token' = [token EXCEPT ![t] = [own |-> "none", moved |-> "none"]]
  BY DEF DestroyTokens
<1>2. /\ token'[t] = [own |-> "none", moved |-> "none"]
      /\ \A u \in Users \ {t} : token'[u] = token[u]
      /\ token' \in [Users -> [own : Marks, moved : Marks]]
  BY <1>1 DEF TaggedInv, TaggedTypes, Marks
<1>3. CASE "valid" \in {token[t].own, token[t].moved}
  <2>1. aborted'
    BY <1>1, <1>3
  <2>2. /\ call'[t] = <<"none">> /\ call' \in [Users -> CallStates]
        /\ \A u \in Users \ {t} : call'[u] = call[u]
    BY <1>1, CallKinds, CallMoves DEF TaggedInv
  <2>3. IsFiniteSet(FreePermits')
    BY <1>1, FreeSame DEF TaggedInv
  <2>4. TaggedTypes'
    BY <1>1, <1>2, <2>2, <2>3, CallKinds DEF TaggedInv, TaggedTypes, Owns
  <2> QED BY <2>1, <2>4 DEF TaggedInv, TokensConserved
<1>4. CASE "valid" \notin {token[t].own, token[t].moved}
  <2>1. \A k \in Sides : token'[t][k] = "valid" <=> token[t][k] = "valid"
    BY <1>2, <1>4 DEF Sides
  <2>2. Cardinality(ValidTokens') = Cardinality(ValidTokens) + 0
    BY <1>2, <2>1, ValidSame
  <2> QED BY <1>1, <1>2, <2>2, CallKinds, QuietCalls
<1> QED BY <1>3, <1>4

LEMMA TaggedNextInv ==
  ASSUME TaggedInv, [TaggedNext]_taggedVars
  PROVE  TaggedInv'
<1>1. CASE TaggedNext
  <2>1. PICK t \in Users :
            \/ \E s \in Tagged : AcquireToken(t, s) \/ AcquireReturns(t, s)
            \/ MoveToken(t) \/ DestroyTokens(t)
            \/ \E k \in Sides :
                   ReleaseInvalidates(t, k) \/ \E s \in Tagged : ReleaseImpl(t, s, k)
    BY <1>1 DEF TaggedNext, Sides
  <2> QED BY <2>1, AcquireTokenKeeps, AcquireReturnsKeeps, MoveTokenKeeps,
             DestroyTokensKeeps, ReleaseInvalidatesKeeps, ReleaseImplKeeps
<1>2. CASE UNCHANGED taggedVars
  <2>1. FreePermits' = FreePermits /\ ValidTokens' = ValidTokens
        /\ Invalidating' = Invalidating
    BY <1>2 DEF taggedVars, FreePermits, ValidTokens, Invalidating
  <2> QED BY <1>2, <2>1 DEF taggedVars, TaggedInv, TaggedTypes, TokensConserved, Owns
<1> QED BY <1>1, <1>2

(* Until an assert fails, the permits of the semaphores of a tag and the   *)
(* valid tokens are as many as the constructors handed out, a Release that *)
(* has not looked at its token yet aside: whichever semaphore a token is   *)
(* returned to, and however the users move, drop and release them.         *)
THEOREM TokensAreConserved == TaggedSpec => []TokensConserved
<1>1. TaggedInit => TaggedInv
  BY TaggedInitInv
<1>2. TaggedInv /\ [TaggedNext]_taggedVars => TaggedInv'
  BY TaggedNextInv
<1>3. TaggedInv => TokensConserved
  BY DEF TaggedInv
<1> QED BY <1>1, <1>2, <1>3, PTL DEF TaggedSpec

=============================================================================
