-------------------------- MODULE CondVars_proofs ---------------------------
(***************************************************************************)
(* NobodyOversleeps of CondVarQueue.tla, and the refinement of             *)
(* BoundedQueue.tla, for every finite set of producers and consumers and   *)
(* every capacity.                                                         *)
(*                                                                         *)
(* Who sleeps or is bound to fall asleep, because no notification has come *)
(* since it read the counter, found the queue full (or empty).  What has   *)
(* changed since then, somebody is about to announce or somebody awake     *)
(* will find.                                                              *)
(***************************************************************************)
EXTENDS CondVarQueue, FiniteSetTheorems, SequenceTheorems, TLAPS

Side(cv) == IF cv = "not_full" THEN Producers ELSE Consumers

(* In Wait on cv, and not notified since the load of the counter. *)
Fresh(cv) == {t \in Side(cv) : pc[t] \in {"unlock", "sleep"} /\ seen[cv][t] = futex[cv]}

(* Awake of a thread that waits on cv. *)
Up(cv, t) ==
    \/ pc[t] = "call" /\ t \notin parked[cv]
    \/ pc[t] \in {"unlock", "sleep"} /\ seen[cv][t] # futex[cv]

Announcing == {p \in Producers : pc[p] = "add"}
Notifying == {p \in Producers : pc[p] \in {"add", "wake"}}
Coming == {c \in Consumers : Up("not_empty", c) \/ pc[c] \in {"add", "wake", "leave"}}
Ready == {p \in Producers : Up("not_full", p)}
Removing == {c \in Consumers : pc[c] = "leave"}

(* Between the load of the counter and the release, and in Take from the   *)
(* condition to the removal, mutex_ is held.                               *)
Holding == \A t \in Waiters :
    /\ pc[t] = "unlock" => holder = t
    /\ t \in Consumers /\ pc[t] \in {"add", "wake", "leave"} => holder = t
    /\ pc[t] = "idle" => holder # t

Carried == \A p \in Producers :
    /\ pc[p] \in {"call", "unlock", "sleep"} => value[p] \in Values
    /\ pc[p] \in {"add", "wake", "leave"} => value[p] = NoValue

(* A Take notifies before it removes, and meanwhile nobody finds the queue *)
(* full again.                                                             *)
Found == \A c \in Consumers :
    /\ pc[c] \in {"add", "wake", "leave"} => buffer # <<>>
    /\ pc[c] \in {"wake", "leave"} => Fresh("not_full") = {}

RoomCovered ==
    parked["not_full"] # {} \/ Fresh("not_full") # {} =>
        Capacity - Len(buffer) + Cardinality(Removing) <= Cardinality(Ready)

(* A thread yet to be parked was not there for the notifications that have *)
(* been counted: it depends on those to come.                              *)
ItemsCovered ==
    /\ parked["not_empty"] # {} =>
         Len(buffer) <= Cardinality(Notifying) + Cardinality(Coming)
    /\ Fresh("not_empty") # {} =>
         Len(buffer) <= Cardinality(Announcing) + Cardinality(Coming)

IInv ==
    TypeOK /\ Holding /\ Carried /\ Found /\ RoomCovered /\ ItemsCovered

----------------------------------------------------------------------------
(* Sets of threads, and steps *)

LEMMA Sides ==
    /\ Producers \subseteq Waiters /\ Consumers \subseteq Waiters
    /\ \A p \in Producers : p \notin Consumers /\ WaitsOn(p) = "not_full"
                              /\ Notifies(p) = "not_empty"
    /\ \A c \in Consumers : c \notin Producers /\ WaitsOn(c) = "not_empty"
                              /\ Notifies(c) = "not_full"
    /\ \A t \in Waiters : t \in Producers \/ t \in Consumers
    /\ Side("not_full") = Producers /\ Side("not_empty") = Consumers
    /\ "not_full" \in CondVars /\ "not_empty" \in CondVars
    /\ Capacity \in Nat \ {0} /\ Nobody \notin Waiters
    /\ CounterRange \in Nat \ {0, 1}
BY CondVarQueueAssumption DEF WaitsOn, Notifies, Side

LEMMA SetBounds ==
    ASSUME NEW S, NEW T, S \subseteq Waiters, T \subseteq Waiters
    PROVE  /\ Cardinality(S) \in Nat /\ Cardinality(T) \in Nat
           /\ S \subseteq T => Cardinality(S) <= Cardinality(T)
           /\ \A t : S \ {t} \subseteq T => Cardinality(S) <= Cardinality(T) + 1
           /\ \A u \in T \ S : S \subseteq T => Cardinality(S) + 1 <= Cardinality(T)
<1>1. IsFiniteSet(Waiters)
  BY CondVarQueueAssumption, FS_Union
<1>2. IsFiniteSet(S) /\ IsFiniteSet(T) /\ Cardinality(S) \in Nat /\ Cardinality(T) \in Nat
  BY <1>1, FS_Subset, FS_CardinalityType
<1>3. S \subseteq T => Cardinality(S) <= Cardinality(T)
  BY <1>2, FS_Subset
<1>4. ASSUME NEW t, S \ {t} \subseteq T PROVE Cardinality(S) <= Cardinality(T) + 1
  <2>1. /\ IsFiniteSet(T \cup {t})
        /\ Cardinality(T \cup {t}) <= Cardinality(T) + 1
    <3>1. IsFiniteSet(T \cup {t})
      BY <1>2, FS_AddElement
    <3>2. Cardinality(T \cup {t}) \in {Cardinality(T), Cardinality(T) + 1}
      BY <1>2, FS_AddElement
    <3> QED BY <1>2, <3>1, <3>2
  <2>2. S \subseteq T \cup {t}
    BY <1>4
  <2>3. Cardinality(S) <= Cardinality(T \cup {t}) /\ Cardinality(T \cup {t}) \in Nat
    BY <2>1, <2>2, FS_Subset, FS_CardinalityType
  <2> QED BY <1>2, <2>1, <2>3
<1>5. ASSUME NEW u \in T \ S, S \subseteq T PROVE Cardinality(S) + 1 <= Cardinality(T)
  <2>1. Cardinality(S \cup {u}) = Cardinality(S) + 1
    BY <1>2, <1>5, FS_AddElement
  <2>2. Cardinality(S \cup {u}) <= Cardinality(T)
    BY <1>2, <1>5, FS_Subset
  <2> QED BY <2>1, <2>2
<1> QED BY <1>2, <1>3, <1>4, <1>5

LEMMA Parts ==
    /\ Announcing \subseteq Waiters /\ Announcing' \subseteq Waiters
    /\ Notifying \subseteq Waiters /\ Notifying' \subseteq Waiters
    /\ Coming \subseteq Waiters /\ Coming' \subseteq Waiters
    /\ Ready \subseteq Waiters /\ Ready' \subseteq Waiters
    /\ Removing \subseteq Waiters /\ Removing' \subseteq Waiters
BY Sides DEF Announcing, Notifying, Coming, Ready, Removing

LEMMA GotoRules ==
    ASSUME NEW t \in Waiters, NEW from, NEW to \in Places, pc \in [Waiters -> Places],
           Goto(t, from, to)
    PROVE  /\ pc' \in [Waiters -> Places] /\ pc[t] = from /\ pc'[t] = to
           /\ \A u \in Waiters \ {t} : pc'[u] = pc[u]
BY DEF Goto

(* A step after which no more threads are asleep or bound to sleep, no     *)
(* fewer are awake, and which leaves no more room, or no more items.       *)
LEMMA RoomKept ==
    ASSUME RoomCovered, buffer \in Seq(Values), buffer' \in Seq(Values),
           Len(buffer) <= Len(buffer'),
           parked'["not_full"] # {} \/ Fresh("not_full")' # {} =>
             parked["not_full"] # {} \/ Fresh("not_full") # {},
           Ready \subseteq Ready', Removing' \subseteq Removing
    PROVE  RoomCovered'
<1> DEFINE m == Len(buffer)
           n == Len(buffer')
           a == Cardinality(Removing)
           b == Cardinality(Removing')
           c == Cardinality(Ready)
           d == Cardinality(Ready')
<1>1. m \in Nat /\ n \in Nat /\ m <= n
  BY LenProperties
<1>2. a \in Nat /\ b \in Nat /\ c \in Nat /\ d \in Nat /\ b <= a /\ c <= d
  BY Parts, SetBounds
<1>3. Capacity \in Nat
  BY Sides
<1>4. /\ parked["not_full"] # {} \/ Fresh("not_full") # {} => Capacity - m + a <= c
      /\ RoomCovered' <=> (parked'["not_full"] # {} \/ Fresh("not_full")' # {}
                             => Capacity - n + b <= d)
  BY DEF RoomCovered
<1> HIDE DEF m, n, a, b, c, d
<1>5. Capacity - m + a <= c => Capacity - n + b <= d
  BY <1>1, <1>2, <1>3
<1> QED BY <1>4, <1>5

LEMMA ItemsKept ==
    ASSUME ItemsCovered, buffer \in Seq(Values), buffer' \in Seq(Values),
           Len(buffer') <= Len(buffer),
           parked'["not_empty"] # {} => parked["not_empty"] # {} \/ Fresh("not_empty") # {},
           Fresh("not_empty")' # {} => Fresh("not_empty") # {} /\ Announcing \subseteq Announcing',
           Notifying \subseteq Notifying', Coming \subseteq Coming'
    PROVE  ItemsCovered'
<1> DEFINE m == Len(buffer)
           n == Len(buffer')
           a == Cardinality(Announcing)
           b == Cardinality(Announcing')
           c == Cardinality(Coming)
           d == Cardinality(Coming')
           e == Cardinality(Notifying)
           f == Cardinality(Notifying')
<1>1. m \in Nat /\ n \in Nat /\ n <= m
  BY LenProperties
<1>2. /\ a \in Nat /\ b \in Nat /\ c \in Nat /\ d \in Nat /\ e \in Nat /\ f \in Nat
      /\ c <= d /\ e <= f
  BY Parts, SetBounds
<1>3. a <= e
  BY Parts, SetBounds DEF Announcing, Notifying
<1>4. Fresh("not_empty")' # {} => a <= b
  BY Parts, SetBounds
<1>5. /\ parked["not_empty"] # {} => m <= e + c
      /\ Fresh("not_empty") # {} => m <= a + c
      /\ ItemsCovered' <=> /\ parked'["not_empty"] # {} => n <= f + d
                           /\ Fresh("not_empty")' # {} => n <= b + d
  BY DEF ItemsCovered
<1> HIDE DEF m, n, a, b, c, d, e, f
<1>6. m <= a + c \/ m <= e + c => n <= f + d
  BY <1>1, <1>2, <1>3
<1>7. m <= a + c /\ a <= b => n <= b + d
  BY <1>1, <1>2
<1> QED BY <1>4, <1>5, <1>6, <1>7

----------------------------------------------------------------------------
(* Steps that touch neither condition variable *)

(* What the parts of the invariant about sleep see of a step of t. *)
LEMMA CallKeeps ==
    ASSUME IInv, NEW t \in Waiters, Goto(t, "idle", "call"),
           UNCHANGED <<condVars, buffer, holder>>,
           \A p \in Producers \ {t} : value'[p] = value[p],
           value' \in [Waiters -> Values \cup {NoValue}],
           t \in Producers => value'[t] \in Values
    PROVE  IInv'
<1>1. /\ pc' \in [Waiters -> Places] /\ pc[t] = "idle" /\ pc'[t] = "call"
      /\ \A u \in Waiters \ {t} : pc'[u] = pc[u]
  BY GotoRules DEF IInv, TypeOK, Places
<1>2. /\ futex' = futex /\ seen' = seen /\ parked' = parked
      /\ buffer' = buffer /\ holder' = holder
  BY DEF condVars
<1>3. TypeOK'
  BY <1>1, <1>2, Sides DEF IInv, TypeOK, CondVarTypeOK, Holding
<1>4. Holding' /\ Carried'
  BY <1>1, <1>2, Sides DEF IInv, Holding, Carried
<1>5. \A cv \in CondVars : Fresh(cv)' = Fresh(cv)
  BY <1>1, <1>2, Sides, CondVarQueueAssumption DEF Fresh, Side
<1>6. Found'
  BY <1>1, <1>2, <1>5, Sides DEF IInv, Found
<1>7. /\ Ready \subseteq Ready' /\ Coming \subseteq Coming' /\ Removing' \subseteq Removing
      /\ Notifying \subseteq Notifying' /\ Announcing \subseteq Announcing'
  BY <1>1, <1>2, Sides DEF Ready, Coming, Removing, Notifying, Announcing, Up
<1>8. buffer \in Seq(Values) /\ Len(buffer) <= Len(buffer')
  BY <1>2, LenProperties DEF IInv, TypeOK
<1>9. RoomCovered' /\ ItemsCovered'
  BY <1>2, <1>5, <1>7, <1>8, Sides, RoomKept, ItemsKept DEF IInv
<1> QED BY <1>3, <1>4, <1>6, <1>9 DEF IInv


(* Steps that leave buffer and condition variables alone, between places   *)
(* where nobody's count is affected.                                       *)
LEMMA QuietKeeps ==
    ASSUME IInv, NEW t \in Waiters, NEW from, NEW to, Goto(t, from, to),
           <<from, to>> \in {<<"leave", "idle">>, <<"return", "idle">>, <<"unlock", "sleep">>},
           from = "leave" => t \in Producers,
           UNCHANGED <<condVars, buffer>>,
           holder' \in {holder, Nobody}, from = "unlock" => holder' = Nobody,
           holder' = Nobody => holder \in {t, Nobody},
           from = "leave" => holder' # t,
           value' \in [Waiters -> Values \cup {NoValue}],
           \A u \in Waiters \ {t} : value'[u] = value[u],
           to # "idle" => value'[t] = value[t]
    PROVE  IInv'
<1>1. /\ pc' \in [Waiters -> Places] /\ pc[t] = from /\ pc'[t] = to
      /\ \A u \in Waiters \ {t} : pc'[u] = pc[u]
  BY GotoRules DEF IInv, TypeOK, Places
<1>2. futex' = futex /\ seen' = seen /\ parked' = parked /\ buffer' = buffer
  BY DEF condVars
<1>3. /\ from \in {"leave", "return", "unlock"} /\ to \in {"idle", "sleep"}
      /\ to = "sleep" <=> from = "unlock"
  OBVIOUS
<1>4. TypeOK'
  BY <1>1, <1>2, <1>3, Sides DEF IInv, TypeOK, CondVarTypeOK, Holding
<1>5. Holding'
  BY <1>1, <1>2, <1>3, Sides DEF IInv, Holding, TypeOK
<1>6. Carried'
  BY <1>1, <1>2, <1>3, Sides DEF IInv, Carried
<1>7. \A cv \in CondVars : Fresh(cv)' = Fresh(cv)
  BY <1>1, <1>2, <1>3, Sides, CondVarQueueAssumption DEF Fresh, Side
<1>8. Found'
  BY <1>1, <1>2, <1>3, <1>7, Sides DEF IInv, Found
<1>9. /\ Ready \subseteq Ready' /\ Coming \subseteq Coming' /\ Removing' \subseteq Removing
      /\ Notifying \subseteq Notifying' /\ Announcing \subseteq Announcing'
  BY <1>1, <1>2, <1>3, Sides DEF Ready, Coming, Removing, Notifying, Announcing, Up
<1>10. buffer \in Seq(Values) /\ Len(buffer) <= Len(buffer')
  BY <1>2, LenProperties DEF IInv, TypeOK
<1>11. RoomCovered' /\ ItemsCovered'
  BY <1>2, <1>7, <1>9, <1>10, Sides, RoomKept, ItemsKept DEF IInv
<1> QED BY <1>4, <1>5, <1>6, <1>8, <1>11 DEF IInv

LEMMA PutLeavesKeeps ==
    ASSUME IInv, NEW p \in Producers, PutLeaves(p) PROVE IInv'
<1>1. p \in Waiters /\ p # Nobody /\ Goto(p, "leave", "idle") /\ UNCHANGED <<condVars, buffer, value>>
  BY Sides DEF PutLeaves
<1>2. /\ holder' \in {holder, Nobody} /\ holder' # p
      /\ holder' = Nobody => holder \in {p, Nobody}
  BY <1>1 DEF PutLeaves
<1>3. value' = value /\ value \in [Waiters -> Values \cup {NoValue}]
  BY <1>1 DEF IInv, TypeOK
<1> QED BY <1>1, <1>2, <1>3, QuietKeeps

LEMMA TakeReturnsKeeps ==
    ASSUME IInv, NEW c \in Consumers, TakeReturns(c) PROVE IInv'
<1>1. c \in Waiters /\ Goto(c, "return", "idle") /\ UNCHANGED <<condVars, buffer, holder>>
  BY Sides DEF TakeReturns
<1>2. /\ value' \in [Waiters -> Values \cup {NoValue}]
      /\ \A u \in Waiters \ {c} : value'[u] = value[u]
  BY <1>1 DEF IInv, TypeOK, TakeReturns
<1>3. holder' = Nobody => holder \in {c, Nobody}
  BY <1>1
<1> QED BY <1>1, <1>2, <1>3, QuietKeeps

LEMMA UnlocksKeeps ==
    ASSUME IInv, NEW t \in Waiters, Unlocks(t) PROVE IInv'
<1>1. /\ Goto(t, "unlock", "sleep") /\ holder' = Nobody /\ UNCHANGED <<condVars, buffer>>
      /\ value' = value
  BY DEF Unlocks
<1>2. holder = t
  BY <1>1 DEF IInv, Holding, Goto
<1>3. value \in [Waiters -> Values \cup {NoValue}]
  BY DEF IInv, TypeOK
<1> QED BY <1>1, <1>2, <1>3, QuietKeeps

LEMMA PutCalledKeeps ==
    ASSUME IInv, NEW p \in Producers, PutCalled(p) PROVE IInv'
<1>1. PICK v \in Values : value' = [value EXCEPT ![p] = v]
  BY DEF PutCalled
<1>2. p \in Waiters /\ value \in [Waiters -> Values \cup {NoValue}]
  BY Sides DEF IInv, TypeOK
<1>3. /\ value' \in [Waiters -> Values \cup {NoValue}] /\ value'[p] \in Values
      /\ \A q \in Producers \ {p} : value'[q] = value[q]
  BY <1>1, <1>2, Sides
<1>4. Goto(p, "idle", "call") /\ UNCHANGED <<condVars, buffer, holder>>
  BY DEF PutCalled
<1> QED BY <1>2, <1>3, <1>4, CallKeeps

LEMMA TakeCalledKeeps ==
    ASSUME IInv, NEW c \in Consumers, TakeCalled(c) PROVE IInv'
<1>1. c \in Waiters /\ c \notin Producers /\ value \in [Waiters -> Values \cup {NoValue}]
  BY Sides DEF IInv, TypeOK
<1>2. Goto(c, "idle", "call") /\ UNCHANGED <<condVars, buffer, holder>> /\ value' = value
  BY DEF TakeCalled
<1> QED BY <1>1, <1>2, CallKeeps


----------------------------------------------------------------------------
(* Steps under the mutex *)

(* Whoever locks mutex_ was not inside, and no Take is between its         *)
(* condition and its removal.                                              *)
LEMMA EnterRules ==
    ASSUME IInv, NEW t \in Waiters, NEW to \in Places, NEW cv, Enters(t, cv, to)
    PROVE  /\ pc' \in [Waiters -> Places] /\ pc[t] = "call" /\ pc'[t] = to
           /\ \A u \in Waiters \ {t} : pc'[u] = pc[u]
           /\ holder = Nobody /\ t \notin parked[cv]
           /\ \A c \in Consumers : pc[c] \notin {"add", "wake", "leave"}
           /\ \A u \in Waiters : pc[u] # "unlock"
<1>1. /\ pc' \in [Waiters -> Places] /\ pc[t] = "call" /\ pc'[t] = to
      /\ \A u \in Waiters \ {t} : pc'[u] = pc[u]
  BY GotoRules DEF IInv, TypeOK, Enters
<1>2. holder = Nobody /\ t \notin parked[cv]
  BY DEF Enters
<1>3. \A u \in Waiters : holder # u
  BY <1>2, Sides
<1> QED BY <1>1, <1>2, <1>3, Sides DEF IInv, Holding

(* The condition fails: whoever is going to sleep finds nothing there. *)
LEMMA PutWaitsKeeps ==
    ASSUME IInv, NEW p \in Producers, PutWaits(p) PROVE IInv'
<1>1. /\ Enters(p, "not_full", "unlock") /\ p \in Waiters /\ p \notin Consumers
      /\ Len(buffer) = Capacity /\ holder' = p
      /\ seen' = [seen EXCEPT !["not_full"][p] = futex["not_full"]]
      /\ futex' = futex /\ parked' = parked /\ buffer' = buffer /\ value' = value
  BY Sides DEF PutWaits, Load
<1>2. /\ pc' \in [Waiters -> Places] /\ pc[p] = "call" /\ pc'[p] = "unlock"
      /\ \A u \in Waiters \ {p} : pc'[u] = pc[u]
      /\ holder = Nobody /\ p \notin parked["not_full"]
      /\ \A c \in Consumers : pc[c] \notin {"add", "wake", "leave"}
      /\ \A u \in Waiters : pc[u] # "unlock"
  BY <1>1, EnterRules DEF Places
<1>3. /\ seen' \in [CondVars -> [Waiters -> 0..CounterRange - 1 \cup {Unseen}]]
      /\ seen'["not_empty"] = seen["not_empty"]
  BY <1>1, Sides DEF IInv, TypeOK, CondVarTypeOK
<1>4. TypeOK'
  BY <1>1, <1>2, <1>3, Sides DEF IInv, TypeOK, CondVarTypeOK
<1>5. Holding'
  BY <1>1, <1>2, Sides DEF IInv, Holding
<1>6. Carried'
  BY <1>1, <1>2, Sides DEF IInv, Carried
<1>7. Found'
  BY <1>1, <1>2, Sides DEF IInv, Found
<1>8. Removing' = {}
  BY <1>1, <1>2, Sides DEF Removing
<1>9. RoomCovered'
  <2>1. Capacity - Len(buffer') + Cardinality(Removing') = 0
    BY <1>1, <1>8, FS_EmptySet, Sides
  <2>2. Cardinality(Ready') \in Nat
    BY Parts, SetBounds
  <2> QED BY <2>1, <2>2 DEF RoomCovered
<1>10. ItemsCovered'
  <2>1. /\ Fresh("not_empty")' = Fresh("not_empty")
        /\ Coming \subseteq Coming'
    BY <1>1, <1>2, <1>3, Sides DEF Fresh, Side, Coming, Up
  <2>2. Notifying \subseteq Notifying' /\ Announcing \subseteq Announcing'
    BY <1>1, <1>2, Sides DEF Notifying, Announcing
  <2>3. buffer \in Seq(Values) /\ Len(buffer') <= Len(buffer)
    BY <1>1, LenProperties DEF IInv, TypeOK
  <2> QED BY <1>1, <2>1, <2>2, <2>3, ItemsKept DEF IInv
<1> QED BY <1>4, <1>5, <1>6, <1>7, <1>9, <1>10 DEF IInv

LEMMA TakeWaitsKeeps ==
    ASSUME IInv, NEW c \in Consumers, TakeWaits(c) PROVE IInv'
<1>1. /\ Enters(c, "not_empty", "unlock") /\ c \in Waiters /\ c \notin Producers
      /\ buffer = <<>> /\ holder' = c
      /\ seen' = [seen EXCEPT !["not_empty"][c] = futex["not_empty"]]
      /\ futex' = futex /\ parked' = parked /\ buffer' = buffer /\ value' = value
  BY Sides DEF TakeWaits, Load
<1>2. /\ pc' \in [Waiters -> Places] /\ pc[c] = "call" /\ pc'[c] = "unlock"
      /\ \A u \in Waiters \ {c} : pc'[u] = pc[u]
      /\ holder = Nobody /\ c \notin parked["not_empty"]
      /\ \A d \in Consumers : pc[d] \notin {"add", "wake", "leave"}
      /\ \A u \in Waiters : pc[u] # "unlock"
  BY <1>1, EnterRules DEF Places
<1>3. /\ seen' \in [CondVars -> [Waiters -> 0..CounterRange - 1 \cup {Unseen}]]
      /\ seen'["not_full"] = seen["not_full"]
  BY <1>1, Sides DEF IInv, TypeOK, CondVarTypeOK
<1>4. TypeOK'
  BY <1>1, <1>2, <1>3, Sides DEF IInv, TypeOK, CondVarTypeOK
<1>5. Holding'
  BY <1>1, <1>2, Sides DEF IInv, Holding
<1>6. Carried'
  BY <1>1, <1>2, Sides DEF IInv, Carried
<1>7. Found'
  BY <1>1, <1>2, Sides DEF IInv, Found
<1>8. RoomCovered'
  <2>1. /\ Fresh("not_full")' = Fresh("not_full")
        /\ Ready \subseteq Ready' /\ Removing' \subseteq Removing
    BY <1>1, <1>2, <1>3, Sides DEF Fresh, Side, Ready, Removing, Up
  <2>2. buffer \in Seq(Values) /\ Len(buffer) <= Len(buffer')
    BY <1>1, LenProperties DEF IInv, TypeOK
  <2> QED BY <1>1, <2>1, <2>2, RoomKept DEF IInv
<1>9. ItemsCovered'
  <2>1. Len(buffer') = 0
    BY <1>1
  <2>2. /\ Cardinality(Coming') \in Nat /\ Cardinality(Announcing') \in Nat
        /\ Cardinality(Notifying') \in Nat
    BY Parts, SetBounds
  <2> QED BY <2>1, <2>2 DEF ItemsCovered
<1> QED BY <1>4, <1>5, <1>6, <1>7, <1>8, <1>9 DEF IInv

LEMMA TakeFindsKeeps ==
    ASSUME IInv, NEW c \in Consumers, TakeFinds(c) PROVE IInv'
<1>1. /\ Enters(c, "not_empty", "add") /\ c \in Waiters /\ c \notin Producers
      /\ buffer # <<>> /\ holder' = c
      /\ futex' = futex /\ parked' = parked /\ seen' = seen /\ buffer' = buffer /\ value' = value
  BY Sides DEF TakeFinds, condVars
<1>2. /\ pc' \in [Waiters -> Places] /\ pc[c] = "call" /\ pc'[c] = "add"
      /\ \A u \in Waiters \ {c} : pc'[u] = pc[u]
      /\ holder = Nobody /\ c \notin parked["not_empty"]
      /\ \A d \in Consumers : pc[d] \notin {"add", "wake", "leave"}
      /\ \A u \in Waiters : pc[u] # "unlock"
  BY <1>1, EnterRules DEF Places
<1>3. TypeOK'
  BY <1>1, <1>2, Sides DEF IInv, TypeOK, CondVarTypeOK
<1>4. Holding'
  BY <1>1, <1>2, Sides DEF IInv, Holding
<1>5. Carried'
  BY <1>1, <1>2, Sides DEF IInv, Carried
<1>6. Found'
  BY <1>1, <1>2, Sides DEF IInv, Found
<1>7. \A cv \in CondVars : Fresh(cv)' = Fresh(cv)
  BY <1>1, <1>2, Sides, CondVarQueueAssumption DEF Fresh, Side
<1>8. /\ Ready \subseteq Ready' /\ Coming \subseteq Coming' /\ Removing' \subseteq Removing
      /\ Notifying \subseteq Notifying' /\ Announcing \subseteq Announcing'
  BY <1>1, <1>2, Sides DEF Ready, Coming, Removing, Notifying, Announcing, Up
<1>9. buffer \in Seq(Values) /\ Len(buffer) <= Len(buffer')
  BY <1>1, LenProperties DEF IInv, TypeOK
<1>10. RoomCovered' /\ ItemsCovered'
  BY <1>1, <1>7, <1>8, <1>9, Sides, RoomKept, ItemsKept DEF IInv
<1> QED BY <1>3, <1>4, <1>5, <1>6, <1>10 DEF IInv


(* One awake Put has taken the room, and will announce the item. *)
LEMMA PutInsertsKeeps ==
    ASSUME IInv, NEW p \in Producers, PutInserts(p) PROVE IInv'
<1>1. /\ Enters(p, "not_full", "add") /\ p \in Waiters /\ p \notin Consumers
      /\ Len(buffer) # Capacity /\ holder' \in {p, Nobody}
      /\ buffer' = Append(buffer, value[p]) /\ value' = [value EXCEPT ![p] = NoValue]
      /\ futex' = futex /\ parked' = parked /\ seen' = seen
  BY Sides DEF PutInserts, condVars
<1>2. /\ pc' \in [Waiters -> Places] /\ pc[p] = "call" /\ pc'[p] = "add"
      /\ \A u \in Waiters \ {p} : pc'[u] = pc[u]
      /\ holder = Nobody /\ p \notin parked["not_full"]
      /\ \A c \in Consumers : pc[c] \notin {"add", "wake", "leave"}
      /\ \A u \in Waiters : pc[u] # "unlock"
  BY <1>1, EnterRules DEF Places
<1>3. value[p] \in Values
  BY <1>2 DEF IInv, Carried
<1>4. /\ buffer \in Seq(Values) /\ buffer' \in Seq(Values)
      /\ Len(buffer) \in Nat /\ Len(buffer') = Len(buffer) + 1 /\ Len(buffer) < Capacity
  BY <1>1, <1>3, AppendProperties, LenProperties, Sides DEF IInv, TypeOK
<1>5. /\ value' \in [Waiters -> Values \cup {NoValue}] /\ value'[p] = NoValue
      /\ \A u \in Waiters \ {p} : value'[u] = value[u]
  BY <1>1 DEF IInv, TypeOK
<1>6. TypeOK'
  <2>1. Len(buffer') <= Capacity
    BY <1>4, Sides
  <2> QED BY <1>1, <1>2, <1>4, <1>5, <2>1, Sides DEF IInv, TypeOK, CondVarTypeOK
<1>7. Holding'
  BY <1>1, <1>2, Sides DEF IInv, Holding
<1>8. Carried'
  BY <1>2, <1>5, Sides DEF IInv, Carried
<1>9. Found'
  BY <1>1, <1>2, Sides DEF IInv, Found
<1>10. \A cv \in CondVars : Fresh(cv)' = Fresh(cv)
  BY <1>1, <1>2, Sides, CondVarQueueAssumption DEF Fresh, Side
<1>11. RoomCovered'
  <2>1. Ready \ {p} \subseteq Ready' /\ Removing' \subseteq Removing
    BY <1>1, <1>2, Sides DEF Ready, Removing, Up
  <2>2. /\ Cardinality(Ready) \in Nat /\ Cardinality(Ready') \in Nat
        /\ Cardinality(Ready) <= Cardinality(Ready') + 1
        /\ Cardinality(Removing) \in Nat /\ Cardinality(Removing') \in Nat
        /\ Cardinality(Removing') <= Cardinality(Removing)
    BY <2>1, Parts, SetBounds
  <2>3. Capacity - Len(buffer) + Cardinality(Removing) <= Cardinality(Ready) =>
          Capacity - Len(buffer') + Cardinality(Removing') <= Cardinality(Ready')
    BY <1>4, <2>2, Sides
  <2> QED BY <1>1, <1>10, <2>3, Sides DEF RoomCovered, IInv
<1>12. ItemsCovered'
  <2>1. /\ Coming \subseteq Coming'
        /\ Notifying \subseteq Notifying' /\ p \in Notifying' \ Notifying
        /\ Announcing \subseteq Announcing' /\ p \in Announcing' \ Announcing
    BY <1>1, <1>2, Sides DEF Coming, Up, Notifying, Announcing
  <2>2. /\ Cardinality(Coming) \in Nat /\ Cardinality(Coming') \in Nat
        /\ Cardinality(Coming) <= Cardinality(Coming')
        /\ Cardinality(Notifying) \in Nat /\ Cardinality(Notifying') \in Nat
        /\ Cardinality(Notifying) + 1 <= Cardinality(Notifying')
        /\ Cardinality(Announcing) \in Nat /\ Cardinality(Announcing') \in Nat
        /\ Cardinality(Announcing) + 1 <= Cardinality(Announcing')
    BY <2>1, Parts, SetBounds
  <2>3. /\ Len(buffer) <= Cardinality(Notifying) + Cardinality(Coming) =>
             Len(buffer') <= Cardinality(Notifying') + Cardinality(Coming')
        /\ Len(buffer) <= Cardinality(Announcing) + Cardinality(Coming) =>
             Len(buffer') <= Cardinality(Announcing') + Cardinality(Coming')
    BY <1>4, <2>2
  <2> QED BY <1>1, <1>10, <2>3, Sides DEF ItemsCovered, IInv
<1> QED BY <1>6, <1>7, <1>8, <1>9, <1>11, <1>12 DEF IInv

(* A Take that removes makes the room it has announced. *)
LEMMA TakeRemovesKeeps ==
    ASSUME IInv, NEW c \in Consumers, TakeRemoves(c) PROVE IInv'
<1>1. /\ Goto(c, "leave", "return") /\ c \in Waiters /\ c \notin Producers
      /\ holder' = Nobody /\ buffer' = Tail(buffer)
      /\ value' = [value EXCEPT ![c] = Head(buffer)]
      /\ futex' = futex /\ parked' = parked /\ seen' = seen
  BY Sides DEF TakeRemoves, condVars
<1>2. /\ pc' \in [Waiters -> Places] /\ pc[c] = "leave" /\ pc'[c] = "return"
      /\ \A u \in Waiters \ {c} : pc'[u] = pc[u]
  BY <1>1, GotoRules DEF IInv, TypeOK, Places
<1>3. holder = c /\ buffer # <<>>
  BY <1>1, <1>2 DEF IInv, Holding, Found
<1>4. /\ buffer \in Seq(Values) /\ buffer' \in Seq(Values) /\ Head(buffer) \in Values
      /\ Len(buffer) \in Nat /\ Len(buffer') = Len(buffer) - 1 /\ Len(buffer) <= Capacity
      /\ Len(buffer') \in Nat
  BY <1>1, <1>3, HeadTailProperties, LenProperties DEF IInv, TypeOK
<1>5. /\ value' \in [Waiters -> Values \cup {NoValue}]
      /\ \A u \in Waiters \ {c} : value'[u] = value[u]
  BY <1>1, <1>4 DEF IInv, TypeOK
<1>6. TypeOK'
  <2>1. Len(buffer') <= Capacity
    BY <1>4, Sides
  <2> QED BY <1>1, <1>2, <1>4, <1>5, <2>1, Sides DEF IInv, TypeOK, CondVarTypeOK
<1>7. Holding'
  BY <1>1, <1>2, <1>3, Sides DEF IInv, Holding
<1>8. Carried'
  BY <1>1, <1>2, <1>5, Sides DEF IInv, Carried
<1>9. \A d \in Consumers : pc'[d] \notin {"add", "wake", "leave"}
  BY <1>1, <1>2, <1>3, Sides DEF IInv, Holding
<1>10. Found'
  BY <1>9 DEF Found
<1>11. \A cv \in CondVars : Fresh(cv)' = Fresh(cv)
  BY <1>1, <1>2, Sides, CondVarQueueAssumption DEF Fresh, Side
<1>12. RoomCovered'
  <2>1. /\ Ready \subseteq Ready' /\ Removing' \subseteq Removing
        /\ c \in Removing \ Removing'
    BY <1>1, <1>2, Sides DEF Ready, Removing, Up
  <2>2. /\ Cardinality(Ready) \in Nat /\ Cardinality(Ready') \in Nat
        /\ Cardinality(Ready) <= Cardinality(Ready')
        /\ Cardinality(Removing) \in Nat /\ Cardinality(Removing') \in Nat
        /\ Cardinality(Removing') + 1 <= Cardinality(Removing)
    BY <2>1, Parts, SetBounds
  <2>3. Capacity - Len(buffer) + Cardinality(Removing) <= Cardinality(Ready) =>
          Capacity - Len(buffer') + Cardinality(Removing') <= Cardinality(Ready')
    BY <1>4, <2>2, Sides
  <2> QED BY <1>1, <1>11, <2>3, Sides DEF RoomCovered, IInv
<1>13. ItemsCovered'
  <2>1. /\ Coming \ {c} \subseteq Coming'
        /\ Notifying \subseteq Notifying' /\ Announcing \subseteq Announcing'
    BY <1>1, <1>2, Sides DEF Coming, Up, Notifying, Announcing
  <2>2. /\ Cardinality(Coming) \in Nat /\ Cardinality(Coming') \in Nat
        /\ Cardinality(Coming) <= Cardinality(Coming') + 1
        /\ Cardinality(Notifying) \in Nat /\ Cardinality(Notifying') \in Nat
        /\ Cardinality(Notifying) <= Cardinality(Notifying')
        /\ Cardinality(Announcing) \in Nat /\ Cardinality(Announcing') \in Nat
        /\ Cardinality(Announcing) <= Cardinality(Announcing')
    BY <2>1, Parts, SetBounds
  <2>3. /\ Len(buffer) <= Cardinality(Notifying) + Cardinality(Coming) =>
             Len(buffer') <= Cardinality(Notifying') + Cardinality(Coming')
        /\ Len(buffer) <= Cardinality(Announcing) + Cardinality(Coming) =>
             Len(buffer') <= Cardinality(Announcing') + Cardinality(Coming')
    BY <1>4, <2>2
  <2> QED BY <1>1, <1>11, <2>3, Sides DEF ItemsCovered, IInv
<1> QED BY <1>6, <1>7, <1>8, <1>10, <1>12, <1>13 DEF IInv


----------------------------------------------------------------------------
(* Steps of Wait and NotifyOne *)

(* The futex call parks who was bound to sleep, and nobody else. *)
LEMMA SleepsKeeps ==
    ASSUME IInv, NEW t \in Waiters, Sleeps(t) PROVE IInv'
<1> DEFINE cv == WaitsOn(t)
<1>1. /\ pc' \in [Waiters -> Places] /\ pc[t] = "sleep" /\ pc'[t] = "call"
      /\ \A u \in Waiters \ {t} : pc'[u] = pc[u]
  BY GotoRules DEF IInv, TypeOK, Places, Sleeps
<1>2. /\ holder' = holder /\ buffer' = buffer /\ value' = value /\ futex' = futex
      /\ seen' = [seen EXCEPT ![cv][t] = Unseen]
      /\ parked' = IF futex[cv] = seen[cv][t]
                     THEN [parked EXCEPT ![cv] = @ \cup {t}] ELSE parked
  BY DEF Sleeps, FutexWait
<1>3. cv \in CondVars /\ t \in Side(cv)
  BY Sides
<1>4. /\ seen' \in [CondVars -> [Waiters -> 0..CounterRange - 1 \cup {Unseen}]]
      /\ \A d \in CondVars, u \in Waiters : d # cv \/ u # t => seen'[d][u] = seen[d][u]
  BY <1>2, <1>3 DEF IInv, TypeOK, CondVarTypeOK
<1>5. /\ parked' \in [CondVars -> SUBSET Waiters]
      /\ \A d \in CondVars \ {cv} : parked'[d] = parked[d]
      /\ parked'[cv] = IF futex[cv] = seen[cv][t] THEN parked[cv] \cup {t} ELSE parked[cv]
  BY <1>2, <1>3 DEF IInv, TypeOK, CondVarTypeOK
<1>6. TypeOK'
  <2>1. CondVarTypeOK'
    BY <1>2, <1>4, <1>5 DEF IInv, TypeOK, CondVarTypeOK
  <2>2. /\ parked'["not_full"] \subseteq {p \in Producers : pc'[p] = "call"}
        /\ parked'["not_empty"] \subseteq {c \in Consumers : pc'[c] = "call"}
    BY <1>1, <1>3, <1>5, Sides DEF IInv, TypeOK
  <2>3. \A u \in Waiters : pc'[u] \in {"call", "sleep", "return"} => holder' # u
    BY <1>1, <1>2 DEF IInv, TypeOK
  <2> QED BY <1>1, <1>2, <2>1, <2>2, <2>3 DEF IInv, TypeOK
<1>7. Holding'
  BY <1>1, <1>2, Sides DEF IInv, Holding
<1>8. Carried'
  BY <1>1, <1>2, Sides DEF IInv, Carried
<1>9. \A d \in CondVars : Fresh(d)' \subseteq Fresh(d)
  BY <1>1, <1>2, <1>4, Sides, CondVarQueueAssumption DEF Fresh, Side
<1>10. Found'
  BY <1>1, <1>2, <1>9, Sides DEF IInv, Found
<1>11. \A d \in CondVars : parked'[d] # {} => parked[d] # {} \/ Fresh(d) # {}
  BY <1>1, <1>3, <1>5, Sides DEF Fresh
<1>12. /\ Removing' \subseteq Removing
       /\ Notifying \subseteq Notifying' /\ Announcing \subseteq Announcing'
  BY <1>1, Sides DEF Removing, Notifying, Announcing
<1>13. \A d \in CondVars : \A u \in Side(d) : Up(d, u) => Up(d, u)'
  <2> SUFFICES ASSUME NEW d \in CondVars, NEW u \in Side(d), Up(d, u) PROVE Up(d, u)'
    OBVIOUS
  <2>1. u \in Waiters
    BY Sides DEF Side
  <2>2. CASE u # t
    BY <1>1, <1>2, <1>4, <1>5, <2>1, <2>2 DEF Up
  <2>3. CASE u = t
    <3>1. d = cv
      BY <2>3, <1>3, Sides, CondVarQueueAssumption DEF Side
    <3>2. seen[cv][t] # futex[cv] /\ t \notin parked[cv]
      BY <1>1, <2>3, <3>1, Sides DEF Up, IInv, TypeOK
    <3> QED BY <1>1, <1>5, <2>3, <3>1, <3>2 DEF Up
  <2> QED BY <2>2, <2>3
<1>14. Ready \subseteq Ready' /\ Coming \subseteq Coming'
  BY <1>1, <1>13, Sides DEF Ready, Coming
<1>15. buffer \in Seq(Values) /\ Len(buffer) <= Len(buffer')
  BY <1>2, LenProperties DEF IInv, TypeOK
<1>16. RoomCovered' /\ ItemsCovered'
  <2> HIDE DEF cv
  <2> QED BY <1>2, <1>9, <1>11, <1>12, <1>14, <1>15, Sides, RoomKept, ItemsKept DEF IInv
<1> QED BY <1>6, <1>7, <1>8, <1>10, <1>16 DEF IInv

LEMMA ReturnsKeeps ==
    ASSUME IInv, NEW t \in Waiters, Returns(t) PROVE IInv'
<1> DEFINE cv == WaitsOn(t)
<1>1. /\ pc' = pc /\ holder' = holder /\ buffer' = buffer /\ value' = value
      /\ futex' = futex /\ seen' = seen
      /\ parked' = [parked EXCEPT ![cv] = @ \ {t}]
  BY DEF Returns, SpuriousReturn
<1>2. /\ parked' \in [CondVars -> SUBSET Waiters]
      /\ \A d \in CondVars : parked'[d] \subseteq parked[d]
  BY <1>1, Sides DEF IInv, TypeOK, CondVarTypeOK
<1>3. TypeOK'
  BY <1>1, <1>2, Sides DEF IInv, TypeOK, CondVarTypeOK
<1>4. Holding' /\ Carried'
  BY <1>1 DEF IInv, Holding, Carried
<1>5. \A d \in CondVars : Fresh(d)' = Fresh(d)
  BY <1>1 DEF Fresh
<1>6. Found'
  BY <1>1, <1>5, Sides DEF IInv, Found
<1>7. /\ Ready \subseteq Ready' /\ Coming \subseteq Coming' /\ Removing' \subseteq Removing
      /\ Notifying \subseteq Notifying' /\ Announcing \subseteq Announcing'
  BY <1>1, <1>2, Sides DEF Ready, Coming, Removing, Notifying, Announcing, Up
<1>8. buffer \in Seq(Values) /\ Len(buffer) <= Len(buffer')
  BY <1>1, LenProperties DEF IInv, TypeOK
<1>9. RoomCovered' /\ ItemsCovered'
  BY <1>1, <1>2, <1>5, <1>7, <1>8, Sides, RoomKept, ItemsKept DEF IInv
<1> QED BY <1>3, <1>4, <1>6, <1>9 DEF IInv

(* After fetch_add nobody in Wait has seen the present counter. *)
LEMMA AddsKeeps ==
    ASSUME IInv, NEW t \in Waiters, Adds(t) PROVE IInv'
<1> DEFINE cv == Notifies(t)
           next == (futex[cv] + 1) % CounterRange
<1>1. /\ pc' \in [Waiters -> Places] /\ pc[t] = "add" /\ pc'[t] = "wake"
      /\ \A u \in Waiters \ {t} : pc'[u] = pc[u]
  BY GotoRules DEF IInv, TypeOK, Places, Adds
<1>2. /\ holder' = holder /\ buffer' = buffer /\ value' = value
      /\ seen' = seen /\ parked' = parked
      /\ futex' = [futex EXCEPT ![cv] = next]
      /\ \A u \in Waiters : seen[cv][u] # next
  BY DEF Adds, FetchAdd, Laps
<1>3. cv \in CondVars
  BY Sides
<1>4. next \in 0..CounterRange - 1
  <2>1. futex[cv] \in Nat
    BY <1>3, Sides DEF IInv, TypeOK, CondVarTypeOK
  <2> HIDE DEF cv
  <2> QED BY <2>1, Sides
<1> HIDE DEF next
<1>5. /\ futex' \in [CondVars -> 0..CounterRange - 1] /\ futex'[cv] = next
      /\ \A d \in CondVars \ {cv} : futex'[d] = futex[d]
  BY <1>2, <1>3, <1>4 DEF IInv, TypeOK, CondVarTypeOK
<1>6. TypeOK'
  BY <1>1, <1>2, <1>5, Sides DEF IInv, TypeOK, CondVarTypeOK
<1>7. Holding'
  BY <1>1, <1>2, Sides DEF IInv, Holding
<1>8. Carried'
  BY <1>1, <1>2, Sides DEF IInv, Carried
<1>9. Fresh(cv)' = {}
  BY <1>2, <1>5, Sides DEF Fresh, Side
<1>10. \A d \in CondVars \ {cv} : Fresh(d)' = Fresh(d)
  <2> SUFFICES ASSUME NEW d \in CondVars \ {cv} PROVE Fresh(d)' = Fresh(d)
    OBVIOUS
  <2>1. Side(d) \subseteq Waiters
    BY Sides DEF Side
  <2> QED BY <1>1, <1>2, <1>5, <2>1 DEF Fresh
<1>11. Found'
  <2>1. \A c \in Consumers : pc'[c] \in {"add", "wake", "leave"} => buffer' # <<>>
    BY <1>1, <1>2, Sides DEF IInv, Found
  <2>2. \A c \in Consumers : pc'[c] \in {"wake", "leave"} => Fresh("not_full")' = {}
    BY <1>1, <1>9, <1>10, Sides DEF IInv, Found
  <2> QED BY <2>1, <2>2 DEF Found
<1>12. \A d \in CondVars : \A u \in Side(d) : Up(d, u) => Up(d, u)'
  <2> SUFFICES ASSUME NEW d \in CondVars, NEW u \in Side(d), Up(d, u) PROVE Up(d, u)'
    OBVIOUS
  <2>1. u \in Waiters /\ u # t
    BY <1>1, Sides DEF Side, Up
  <2> QED BY <1>1, <1>2, <1>5, <2>1 DEF Up
<1>13. /\ Ready \subseteq Ready' /\ Coming \subseteq Coming' /\ Removing' \subseteq Removing
       /\ Notifying \subseteq Notifying'
  BY <1>1, <1>12, Sides DEF Ready, Coming, Removing, Notifying
<1>14. Fresh("not_empty")' # {} => Announcing \subseteq Announcing'
  BY <1>1, <1>9, Sides DEF Announcing
<1>15. \A d \in CondVars : Fresh(d)' # {} => Fresh(d) # {}
  BY <1>9, <1>10
<1>16. buffer \in Seq(Values) /\ Len(buffer) <= Len(buffer')
  BY <1>2, LenProperties DEF IInv, TypeOK
<1>17. RoomCovered' /\ ItemsCovered'
  BY <1>2, <1>13, <1>14, <1>15, <1>16, Sides, RoomKept, ItemsKept DEF IInv
<1> QED BY <1>6, <1>7, <1>8, <1>11, <1>17 DEF IInv


(* A parked thread, if there is one, is awake after FutexWakeOne. *)
LEMMA WakesKeeps ==
    ASSUME IInv, NEW t \in Waiters, Wakes(t) PROVE IInv'
<1> DEFINE cv == Notifies(t)
<1>1. /\ pc' \in [Waiters -> Places] /\ pc[t] = "wake" /\ pc'[t] = "leave"
      /\ \A u \in Waiters \ {t} : pc'[u] = pc[u]
  BY GotoRules DEF IInv, TypeOK, Places, Wakes
<1>2. /\ holder' = holder /\ buffer' = buffer /\ value' = value
      /\ seen' = seen /\ futex' = futex
      /\ \/ parked[cv] = {} /\ parked' = parked
         \/ \E u \in parked[cv] : parked' = [parked EXCEPT ![cv] = @ \ {u}]
  BY DEF Wakes, FutexWakeOne
<1>3. cv \in CondVars /\ \A u \in Waiters : pc'[u] = "call" <=> pc[u] = "call"
  BY <1>1, Sides
<1>4. /\ parked' \in [CondVars -> SUBSET Waiters]
      /\ \A d \in CondVars \ {cv} : parked'[d] = parked[d]
      /\ \/ parked[cv] = {} /\ parked'[cv] = {}
         \/ \E u \in parked[cv] : parked'[cv] = parked[cv] \ {u}
  BY <1>2, <1>3 DEF IInv, TypeOK, CondVarTypeOK
<1>5. \A d \in CondVars : parked'[d] \subseteq parked[d]
  BY <1>4
<1>6. TypeOK'
  <2>1. CondVarTypeOK'
    BY <1>2, <1>4 DEF IInv, TypeOK, CondVarTypeOK
  <2>2. /\ parked'["not_full"] \subseteq {p \in Producers : pc'[p] = "call"}
        /\ parked'["not_empty"] \subseteq {c \in Consumers : pc'[c] = "call"}
    BY <1>3, <1>5, Sides DEF IInv, TypeOK
  <2>3. \A u \in Waiters : pc'[u] \in {"call", "sleep", "return"} => holder' # u
    BY <1>1, <1>2 DEF IInv, TypeOK
  <2> QED BY <1>1, <1>2, <2>1, <2>2, <2>3 DEF IInv, TypeOK
<1>7. Holding'
  BY <1>1, <1>2, Sides DEF IInv, Holding
<1>8. Carried'
  BY <1>1, <1>2, Sides DEF IInv, Carried
<1>9. \A d \in CondVars : Fresh(d)' = Fresh(d)
  <2> SUFFICES ASSUME NEW d \in CondVars PROVE Fresh(d)' = Fresh(d)
    OBVIOUS
  <2>1. Side(d) \subseteq Waiters
    BY Sides DEF Side
  <2> QED BY <1>1, <1>2, <2>1 DEF Fresh
<1>10. Found'
  BY <1>1, <1>2, <1>9, Sides DEF IInv, Found
<1>11. \A d \in CondVars : \A u \in Side(d) : Up(d, u) => Up(d, u)'
  <2> SUFFICES ASSUME NEW d \in CondVars, NEW u \in Side(d), Up(d, u) PROVE Up(d, u)'
    OBVIOUS
  <2>1. u \in Waiters /\ u # t
    BY <1>1, Sides DEF Side, Up
  <2> QED BY <1>1, <1>2, <1>5, <2>1 DEF Up
<1>12. Ready \subseteq Ready' /\ Coming \subseteq Coming' /\ Announcing \subseteq Announcing'
  BY <1>1, <1>11, Sides DEF Ready, Coming, Announcing
<1>13. parked'[cv] # {} => \E u \in Side(cv) : u \in Waiters /\ ~Up(cv, u) /\ Up(cv, u)'
  <2> SUFFICES ASSUME parked'[cv] # {}
               PROVE  \E u \in Side(cv) : u \in Waiters /\ ~Up(cv, u) /\ Up(cv, u)'
    OBVIOUS
  <2>1. PICK u \in parked[cv] : parked'[cv] = parked[cv] \ {u}
    BY <1>4
  <2>2. u \in Side(cv) /\ pc[u] = "call" /\ u \in Waiters
    BY Sides, CondVarQueueAssumption DEF IInv, TypeOK, Side
  <2>3. ~Up(cv, u)
    BY <2>2 DEF Up
  <2>4. Up(cv, u)'
    BY <1>3, <2>1, <2>2, Sides DEF Up
  <2> QED BY <2>2, <2>3, <2>4
<1>14. /\ buffer \in Seq(Values) /\ buffer' \in Seq(Values) /\ Len(buffer) \in Nat
       /\ Len(buffer') = Len(buffer)
       /\ Len(buffer) <= Len(buffer') /\ Len(buffer') <= Len(buffer)
  BY <1>2, LenProperties DEF IInv, TypeOK
<1>15. ASSUME t \in Producers PROVE RoomCovered' /\ ItemsCovered'
  <2>1. cv = "not_empty" /\ parked'["not_full"] = parked["not_full"]
    BY <1>4, <1>15, Sides
  <2>2. Removing' \subseteq Removing
    BY <1>1, <1>15, Sides DEF Removing
  <2>3. RoomCovered'
    BY <1>9, <1>12, <1>14, <2>1, <2>2, Sides, RoomKept DEF IInv
  <2>4. Notifying \ {t} \subseteq Notifying'
    BY <1>1, Sides DEF Notifying
  <2>5. /\ Cardinality(Coming) \in Nat /\ Cardinality(Coming') \in Nat
        /\ Cardinality(Coming) <= Cardinality(Coming')
        /\ Cardinality(Notifying) \in Nat /\ Cardinality(Notifying') \in Nat
        /\ Cardinality(Notifying) <= Cardinality(Notifying') + 1
        /\ Cardinality(Announcing) \in Nat /\ Cardinality(Announcing') \in Nat
        /\ Cardinality(Announcing) <= Cardinality(Announcing')
    BY <1>12, <2>4, Parts, SetBounds
  <2>6. parked'["not_empty"] # {} => Cardinality(Coming) + 1 <= Cardinality(Coming')
    <3> SUFFICES ASSUME parked'["not_empty"] # {}
                 PROVE  Cardinality(Coming) + 1 <= Cardinality(Coming')
      OBVIOUS
    <3>1. PICK u \in Consumers : u \in Waiters /\ ~Up("not_empty", u) /\ Up("not_empty", u)'
      BY <1>13, <2>1, Sides
    <3>2. u \in Coming'
      BY <3>1 DEF Coming
    <3>3. u \notin Coming
      <4>1. pc'[u] \in {"call", "unlock", "sleep"}
        BY <3>1 DEF Up
      <4>2. u # t
        BY <1>1, <4>1
      <4> QED BY <1>1, <3>1, <4>1, <4>2 DEF Coming
    <3> QED BY <1>12, <3>2, <3>3, Parts, SetBounds
  <2>7. parked'["not_empty"] # {} => parked["not_empty"] # {}
    BY <1>5, Sides
  <2>8. /\ Len(buffer) <= Cardinality(Notifying) + Cardinality(Coming)
             /\ Cardinality(Coming) + 1 <= Cardinality(Coming') =>
             Len(buffer') <= Cardinality(Notifying') + Cardinality(Coming')
        /\ Len(buffer) <= Cardinality(Announcing) + Cardinality(Coming) =>
             Len(buffer') <= Cardinality(Announcing') + Cardinality(Coming')
    BY <1>14, <2>5
  <2>9. ItemsCovered'
    BY <1>9, <2>6, <2>7, <2>8, Sides DEF ItemsCovered, IInv
  <2> QED BY <2>3, <2>9
<1>16. ASSUME t \in Consumers PROVE RoomCovered' /\ ItemsCovered'
  <2>1. /\ cv = "not_full" /\ parked'["not_empty"] = parked["not_empty"]
        /\ Notifying \subseteq Notifying'
    BY <1>1, <1>4, <1>16, Sides DEF Notifying
  <2>2. ItemsCovered'
    BY <1>9, <1>12, <1>14, <2>1, Sides, ItemsKept DEF IInv
  <2>3. Fresh("not_full")' = {}
    BY <1>1, <1>9, <1>16, Sides DEF IInv, Found
  <2>4. Removing' \ {t} \subseteq Removing
    BY <1>1, Sides DEF Removing
  <2>5. /\ Cardinality(Ready) \in Nat /\ Cardinality(Ready') \in Nat
        /\ Cardinality(Removing) \in Nat /\ Cardinality(Removing') \in Nat
        /\ Cardinality(Removing') <= Cardinality(Removing) + 1
    BY <2>4, Parts, SetBounds
  <2>6. parked'["not_full"] # {} => Cardinality(Ready) + 1 <= Cardinality(Ready')
    <3> SUFFICES ASSUME parked'["not_full"] # {}
                 PROVE  Cardinality(Ready) + 1 <= Cardinality(Ready')
      OBVIOUS
    <3>1. PICK u \in Producers : u \in Waiters /\ ~Up("not_full", u) /\ Up("not_full", u)'
      BY <1>13, <2>1, Sides
    <3>2. u \in Ready' \ Ready
      BY <3>1 DEF Ready
    <3> QED BY <1>12, <3>2, Parts, SetBounds
  <2>7. parked'["not_full"] # {} => parked["not_full"] # {}
    BY <1>5, Sides
  <2>8. Capacity - Len(buffer) + Cardinality(Removing) <= Cardinality(Ready)
             /\ Cardinality(Ready) + 1 <= Cardinality(Ready') =>
             Capacity - Len(buffer') + Cardinality(Removing') <= Cardinality(Ready')
    BY <1>14, <2>5, Sides
  <2>9. RoomCovered'
    BY <2>3, <2>6, <2>7, <2>8 DEF RoomCovered, IInv
  <2> QED BY <2>2, <2>9
<1>17. RoomCovered' /\ ItemsCovered'
  BY <1>15, <1>16, Sides
<1> QED BY <1>6, <1>7, <1>8, <1>10, <1>17 DEF IInv

----------------------------------------------------------------------------
LEMMA InitIInv == Init => IInv
<1> SUFFICES ASSUME Init PROVE IInv
  OBVIOUS
<1>1. /\ futex = [cv \in CondVars |-> 0] /\ parked = [cv \in CondVars |-> {}]
      /\ seen = [cv \in CondVars |-> [t \in Waiters |-> Unseen]]
      /\ buffer = <<>> /\ holder = Nobody
      /\ pc = [t \in Waiters |-> "idle"] /\ value = [t \in Waiters |-> NoValue]
  BY DEF Init, CondVarInit
<1>2. CondVarTypeOK
  <2>1. 0 \in 0..CounterRange - 1
    BY Sides
  <2> QED BY <1>1, <2>1 DEF CondVarTypeOK
<1>3. buffer \in Seq(Values) /\ Len(buffer) <= Capacity
  BY <1>1, Sides
<1>4. TypeOK
  BY <1>1, <1>2, <1>3, Sides DEF TypeOK, Places
<1>5. Holding /\ Carried /\ Found
  BY <1>1, Sides DEF Holding, Carried, Found
<1>6. Fresh("not_full") = {} /\ Fresh("not_empty") = {}
  BY <1>1, Sides DEF Fresh
<1>7. RoomCovered /\ ItemsCovered
  BY <1>1, <1>6, Sides DEF RoomCovered, ItemsCovered
<1> QED BY <1>4, <1>5, <1>7 DEF IInv

LEMMA NextIInv == IInv /\ [Next]_vars => IInv'
<1> SUFFICES ASSUME IInv, [Next]_vars PROVE IInv'
  OBVIOUS
<1>1. ASSUME NEW p \in Producers, PutCalled(p) PROVE IInv'
  BY <1>1, PutCalledKeeps
<1>2. ASSUME NEW c \in Consumers, TakeCalled(c) PROVE IInv'
  BY <1>2, TakeCalledKeeps
<1>3. ASSUME NEW p \in Producers, Put(p) PROVE IInv'
  BY <1>3, PutWaitsKeeps, PutInsertsKeeps, PutLeavesKeeps DEF Put
<1>4. ASSUME NEW c \in Consumers, Take(c) PROVE IInv'
  BY <1>4, TakeWaitsKeeps, TakeFindsKeeps, TakeRemovesKeeps, TakeReturnsKeeps DEF Take
<1>5. ASSUME NEW t \in Waiters, Unlocks(t) \/ Sleeps(t) \/ Adds(t) \/ Wakes(t) \/ Returns(t)
      PROVE  IInv'
  BY <1>5, UnlocksKeeps, SleepsKeeps, AddsKeeps, WakesKeeps, ReturnsKeeps
<1>6. ASSUME UNCHANGED vars PROVE IInv'
  <2>1. /\ futex' = futex /\ seen' = seen /\ parked' = parked /\ buffer' = buffer
        /\ holder' = holder /\ pc' = pc /\ value' = value
    BY <1>6 DEF vars, condVars
  <2>2. TypeOK' /\ Holding' /\ Carried'
    BY <2>1 DEF IInv, TypeOK, CondVarTypeOK, Holding, Carried
  <2>3. /\ \A cv \in CondVars : Fresh(cv)' = Fresh(cv)
        /\ Removing' = Removing /\ Ready' = Ready /\ Notifying' = Notifying
        /\ Announcing' = Announcing /\ Coming' = Coming
    BY <2>1 DEF Fresh, Removing, Ready, Notifying, Announcing, Coming, Up
  <2> QED BY <2>1, <2>2, <2>3, Sides DEF IInv, Found, RoomCovered, ItemsCovered
<1> QED BY <1>1, <1>2, <1>3, <1>4, <1>5, <1>6 DEF Next, Continue

LEMMA Invariance == Spec => []IInv
BY InitIInv, NextIInv, PTL DEF Spec

(* For any producers, consumers and capacity: the buffer stays within its  *)
(* capacity and a parked thread stands at the loop condition of its side   *)
(* (stress.cpp:97-136).                                                     *)
THEOREM TypeCorrect == Spec => []TypeOK
<1>1. IInv => TypeOK
  BY DEF IInv
<1> QED BY <1>1, Invariance, PTL

(* For any producers, consumers and capacity, while the counter of         *)
(* notifications does not go round within one Wait: nobody sleeps beside   *)
(* an item or a free slot that nobody is about to announce or to take      *)
(* (condvar.hpp:14-24).                                                    *)
THEOREM NobodySleepsBesideWork == Spec => []NobodyOversleeps
<1>1. IInv => NobodyOversleeps
  <2> SUFFICES ASSUME IInv PROVE NobodyOversleeps
    OBVIOUS
  <2>1. /\ \A p \in Producers : Awake(p) <=> Up("not_full", p)
        /\ \A c \in Consumers : Awake(c) <=> Up("not_empty", c)
    BY Sides DEF Awake, Up
  <2>2. /\ {p \in Producers : Awake(p)} = Ready
        /\ {c \in Consumers : Awake(c) \/ pc[c] \in {"add", "wake", "leave"}} = Coming
    BY <2>1 DEF Ready, Coming
  <2>3. Cardinality(Removing) \in Nat /\ Cardinality(Ready) \in Nat
    BY Parts, SetBounds
  <2>4. Len(buffer) \in Nat /\ Capacity \in Nat
    BY LenProperties, Sides DEF IInv, TypeOK
  <2>5. Capacity - Len(buffer) + Cardinality(Removing) <= Cardinality(Ready)
          => Capacity - Len(buffer) <= Cardinality(Ready)
    BY <2>3, <2>4
  <2> QED BY <2>2, <2>5 DEF NobodyOversleeps, IInv, RoomCovered, ItemsCovered, Notifying
<1> QED BY <1>1, Invariance, PTL


----------------------------------------------------------------------------
(* The abstract mode of a thread, as the refinement mapping has it.        *)
Mode(t) == IF pc[t] = "idle" THEN "idle"
           ELSE IF pc[t] \in Served(t) THEN "served" ELSE "waiting"

ModeMap == [t \in Waiters |-> Mode(t)]

(* Leaving idle is a call, entering Served is being served, and the mode   *)
(* moves with its thread alone.                                            *)
LEMMA ModeMoves ==
    ASSUME TypeOK, NEW t \in Waiters, NEW from, NEW to \in Places, Goto(t, from, to)
    PROVE  /\ ModeMap[t] = IF from = "idle" THEN "idle"
                           ELSE IF from \in Served(t) THEN "served" ELSE "waiting"
           /\ ModeMap' = [ModeMap EXCEPT ![t] =
                            IF to = "idle" THEN "idle"
                            ELSE IF to \in Served(t) THEN "served" ELSE "waiting"]
<1>1. pc[t] = from /\ pc'[t] = to /\ \A u \in Waiters \ {t} : pc'[u] = pc[u]
  BY GotoRules DEF TypeOK
<1>2. /\ \A u \in Waiters \ {t} : Mode(u)' = Mode(u)
      /\ Mode(t)' = IF to = "idle" THEN "idle"
                    ELSE IF to \in Served(t) THEN "served" ELSE "waiting"
      /\ Mode(t) = IF from = "idle" THEN "idle"
                   ELSE IF from \in Served(t) THEN "served" ELSE "waiting"
  BY <1>1 DEF Mode, Served
<1> HIDE DEF Mode
<1>3. ModeMap' = [u \in Waiters |-> Mode(u)'] /\ ModeMap = [u \in Waiters |-> Mode(u)]
  BY DEF ModeMap
<1> QED BY <1>2, <1>3

LEMMA ModeStays ==
    ASSUME TypeOK, NEW t \in Waiters, NEW from, NEW to \in Places, Goto(t, from, to),
           from # "idle", to # "idle", from \in Served(t) <=> to \in Served(t)
    PROVE  ModeMap' = ModeMap
<1>1. ModeMap' = [ModeMap EXCEPT ![t] = ModeMap[t]]
  BY ModeMoves
<1> QED BY <1>1 DEF ModeMap

LEMMA ServedPlaces ==
    /\ \A p \in Producers : Served(p) = {"add", "wake", "leave"}
    /\ \A c \in Consumers : Served(c) = {"return"}
BY Sides DEF Served

(* A Put is served when it inserts, a Take when it removes. *)
LEMMA PutRefines ==
    ASSUME IInv, NEW p \in Producers, PutCalled(p) \/ Put(p)
    PROVE  \/ Queue!CallPut(p) \/ Queue!Accept(p) \/ Queue!Return(p)
           \/ UNCHANGED <<buffer, ModeMap, value>>
<1>1. /\ TypeOK /\ p \in Waiters /\ Served(p) = {"add", "wake", "leave"}
      /\ {"idle", "call", "unlock", "add"} \subseteq Places
  BY Sides, ServedPlaces DEF IInv, Places
<1>2. CASE PutCalled(p)
  <2>1. /\ Goto(p, "idle", "call") /\ buffer' = buffer
        /\ \E v \in Values : value' = [value EXCEPT ![p] = v]
    BY <1>2 DEF PutCalled
  <2>2. ModeMap[p] = "idle" /\ ModeMap' = [ModeMap EXCEPT ![p] = "waiting"]
    BY <1>1, <2>1, ModeMoves
  <2> QED BY <2>1, <2>2 DEF Queue!CallPut, ModeMap, Mode
<1>3. CASE PutWaits(p)
  <2>1. Goto(p, "call", "unlock") /\ buffer' = buffer /\ value' = value
    BY <1>3 DEF PutWaits, Enters
  <2> QED BY <1>1, <2>1, ModeStays
<1>4. CASE PutInserts(p)
  <2>1. /\ Goto(p, "call", "add") /\ Len(buffer) # Capacity
        /\ buffer' = Append(buffer, value[p]) /\ value' = [value EXCEPT ![p] = NoValue]
    BY <1>4 DEF PutInserts, Enters
  <2>2. Len(buffer) < Capacity
    BY <2>1, LenProperties, Sides DEF IInv, TypeOK
  <2>3. ModeMap[p] = "waiting" /\ ModeMap' = [ModeMap EXCEPT ![p] = "served"]
    BY <1>1, <2>1, ModeMoves
  <2> QED BY <2>1, <2>2, <2>3 DEF Queue!Accept, ModeMap, Mode
<1>5. CASE PutLeaves(p)
  <2>1. Goto(p, "leave", "idle") /\ buffer' = buffer /\ value' = value
    BY <1>5 DEF PutLeaves
  <2>2. ModeMap[p] = "served" /\ ModeMap' = [ModeMap EXCEPT ![p] = "idle"]
    BY <1>1, <2>1, ModeMoves
  <2>3. value[p] = NoValue /\ value \in [Waiters -> Values \cup {NoValue}]
    BY <1>1, <2>1 DEF IInv, Carried, TypeOK, Goto
  <2>4. value' = [value EXCEPT ![p] = NoValue]
    BY <1>1, <2>1, <2>3
  <2> QED BY <2>1, <2>2, <2>4 DEF Queue!Return, ModeMap, Mode
<1> QED BY <1>2, <1>3, <1>4, <1>5 DEF Put

LEMMA TakeRefines ==
    ASSUME IInv, NEW c \in Consumers, TakeCalled(c) \/ Take(c)
    PROVE  \/ Queue!CallTake(c) \/ Queue!Deliver(c) \/ Queue!Return(c)
           \/ UNCHANGED <<buffer, ModeMap, value>>
<1>1. /\ TypeOK /\ c \in Waiters /\ Served(c) = {"return"}
      /\ {"idle", "call", "unlock", "add", "return"} \subseteq Places
  BY Sides, ServedPlaces DEF IInv, Places
<1>2. CASE TakeCalled(c)
  <2>1. Goto(c, "idle", "call") /\ buffer' = buffer /\ value' = value
    BY <1>2 DEF TakeCalled
  <2>2. ModeMap[c] = "idle" /\ ModeMap' = [ModeMap EXCEPT ![c] = "waiting"]
    BY <1>1, <2>1, ModeMoves
  <2> QED BY <2>1, <2>2 DEF Queue!CallTake, ModeMap, Mode
<1>3. CASE TakeWaits(c)
  <2>1. Goto(c, "call", "unlock") /\ buffer' = buffer /\ value' = value
    BY <1>3 DEF TakeWaits, Enters
  <2> QED BY <1>1, <2>1, ModeStays
<1>4. CASE TakeFinds(c)
  <2>1. Goto(c, "call", "add") /\ buffer' = buffer /\ value' = value
    BY <1>4 DEF TakeFinds, Enters
  <2> QED BY <1>1, <2>1, ModeStays
<1>5. CASE TakeRemoves(c)
  <2>1. /\ Goto(c, "leave", "return")
        /\ buffer' = Tail(buffer) /\ value' = [value EXCEPT ![c] = Head(buffer)]
    BY <1>5 DEF TakeRemoves
  <2>2. buffer # <<>>
    BY <2>1 DEF IInv, Found, Goto
  <2>3. ModeMap[c] = "waiting" /\ ModeMap' = [ModeMap EXCEPT ![c] = "served"]
    BY <1>1, <2>1, ModeMoves
  <2> QED BY <2>1, <2>2, <2>3 DEF Queue!Deliver, ModeMap, Mode
<1>6. CASE TakeReturns(c)
  <2>1. /\ Goto(c, "return", "idle") /\ buffer' = buffer
        /\ value' = [value EXCEPT ![c] = NoValue]
    BY <1>6 DEF TakeReturns
  <2>2. ModeMap[c] = "served" /\ ModeMap' = [ModeMap EXCEPT ![c] = "idle"]
    BY <1>1, <2>1, ModeMoves
  <2> QED BY <2>1, <2>2 DEF Queue!Return, ModeMap, Mode
<1> QED BY <1>2, <1>3, <1>4, <1>5, <1>6 DEF Take

(* Waiting and notifying are invisible. *)
LEMMA WaitRefines ==
    ASSUME IInv, NEW t \in Waiters, Unlocks(t) \/ Sleeps(t) \/ Adds(t) \/ Wakes(t) \/ Returns(t)
    PROVE  UNCHANGED <<buffer, ModeMap, value>>
<1>1. /\ TypeOK /\ {"unlock", "sleep", "call", "add", "wake", "leave"} \subseteq Places
      /\ \/ Served(t) = {"add", "wake", "leave"}
         \/ Served(t) = {"return"}
  BY ServedPlaces, Sides DEF IInv, Places
<1>2. buffer' = buffer /\ value' = value
  BY DEF Unlocks, Sleeps, Adds, Wakes, Returns
<1>3. CASE Unlocks(t)
  <2>1. Goto(t, "unlock", "sleep")
    BY <1>3 DEF Unlocks
  <2> QED BY <1>1, <1>2, <2>1, ModeStays
<1>4. CASE Sleeps(t)
  <2>1. Goto(t, "sleep", "call")
    BY <1>4 DEF Sleeps
  <2> QED BY <1>1, <1>2, <2>1, ModeStays
<1>5. CASE Adds(t)
  <2>1. Goto(t, "add", "wake")
    BY <1>5 DEF Adds
  <2> QED BY <1>1, <1>2, <2>1, ModeStays
<1>6. CASE Wakes(t)
  <2>1. Goto(t, "wake", "leave")
    BY <1>6 DEF Wakes
  <2> QED BY <1>1, <1>2, <2>1, ModeStays
<1>7. CASE Returns(t)
  <2>1. pc' = pc
    BY <1>7 DEF Returns
  <2> QED BY <1>2, <2>1 DEF ModeMap, Mode
<1> QED BY <1>3, <1>4, <1>5, <1>6, <1>7

LEMMA QueueStep == IInv /\ [Next]_vars => [Queue!Next]_(Queue!vars)
<1> SUFFICES ASSUME IInv, [Next]_vars PROVE [Queue!Next]_(Queue!vars)
  OBVIOUS
<1>1. UNCHANGED <<buffer, ModeMap, value>> => UNCHANGED Queue!vars
  BY DEF ModeMap, Mode, Queue!vars
<1>2. ASSUME NEW p \in Producers, PutCalled(p) \/ Put(p) PROVE [Queue!Next]_(Queue!vars)
  <2>1. \/ Queue!CallPut(p) \/ Queue!Accept(p) \/ Queue!Return(p)
        \/ UNCHANGED Queue!vars
    BY <1>1, <1>2, PutRefines
  <2> QED BY <2>1 DEF Queue!Next, Queue!Threads
<1>3. ASSUME NEW c \in Consumers, TakeCalled(c) \/ Take(c) PROVE [Queue!Next]_(Queue!vars)
  <2>1. \/ Queue!CallTake(c) \/ Queue!Deliver(c) \/ Queue!Return(c)
        \/ UNCHANGED Queue!vars
    BY <1>1, <1>3, TakeRefines
  <2> QED BY <2>1 DEF Queue!Next, Queue!Threads
<1>4. ASSUME NEW t \in Waiters, Unlocks(t) \/ Sleeps(t) \/ Adds(t) \/ Wakes(t) \/ Returns(t)
      PROVE  UNCHANGED Queue!vars
  BY <1>1, <1>4, WaitRefines
<1>5. ASSUME UNCHANGED vars PROVE UNCHANGED Queue!vars
  BY <1>1, <1>5 DEF vars, ModeMap, Mode
<1> QED BY <1>2, <1>3, <1>4, <1>5 DEF Next, Continue

LEMMA QueueInit == Init => Queue!Init
<1> SUFFICES ASSUME Init PROVE Queue!Init
  OBVIOUS
<1>1. /\ buffer = <<>> /\ value = [t \in Waiters |-> NoValue]
      /\ \A t \in Waiters : pc[t] = "idle"
  BY DEF Init
<1>2. ModeMap = [t \in Waiters |-> "idle"]
  BY <1>1 DEF ModeMap, Mode
<1>3. Waiters = Producers \cup Consumers
  BY CondVarQueueAssumption
<1> QED BY <1>1, <1>2, <1>3 DEF Queue!Init, Queue!Threads, ModeMap, Mode

(* The queue of condition variables keeps the abstract queue's promises of *)
(* safety (stress.cpp:97-139): items leave in the order they came, each    *)
(* once, and never more than the capacity are inside.                      *)
THEOREM Refinement == Spec => Queue!Spec
BY QueueInit, QueueStep, Invariance, PTL DEF Spec, Queue!Spec

=============================================================================
