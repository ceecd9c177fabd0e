------------------------- MODULE EventLoops_proofs --------------------------
(***************************************************************************)
(* Proofs about the programs that live on an asio event loop: what the     *)
(* operations of the pool (EventLoopPool) do to its queues and to its      *)
(* count of outstanding work, that Join keeps the pool's promise to tasks  *)
(* (TaskLoop), that an echo session conserves bytes (EchoServer), and who  *)
(* dispatches a fiber, whose handler it is, which coroutine runs on whose  *)
(* thread, and where the stacks are (Fibers), and how coroutines nest and  *)
(* exceptions climb (CoroutineTasks).                                      *)
(***************************************************************************)
EXTENDS TaskLoop, EchoServer, Fibers, CoroutineTasks, FiniteSetTheorems, SequenceTheorems, TLAPS

----------------------------------------------------------------------------
(* Queues of handlers *)

In(x, s) == \E i \in DOMAIN s : s[i] = x

Distinct(s) == \A i, j \in DOMAIN s : s[i] = s[j] => i = j

(* Concatenation, by a name that the provers do not look behind. *)
Cat(s, t) == s \o t

LEMMA AppendRules ==
    ASSUME NEW X, NEW s \in Seq(X), NEW e \in X
    PROVE  /\ Append(s, e) \in Seq(X) /\ Len(Append(s, e)) = Len(s) + 1
           /\ \A x : In(x, Append(s, e)) <=> In(x, s) \/ x = e
           /\ Distinct(Append(s, e)) <=> Distinct(s) /\ ~In(e, s)
<1> DEFINE n == Len(s)
           a == Append(s, e)
<1>1. /\ n \in Nat /\ DOMAIN s = 1..n /\ a \in Seq(X) /\ Len(a) = n + 1
      /\ DOMAIN a = 1..(n + 1)
      /\ \A i \in 1..n : a[i] = s[i]
      /\ a[n + 1] = e
  BY AppendProperties, LenProperties
<1> HIDE DEF n, a
<1>2. ASSUME NEW x PROVE In(x, a) <=> In(x, s) \/ x = e
  BY <1>1 DEF In
<1>3. Distinct(a) <=> Distinct(s) /\ ~In(e, s)
  BY <1>1 DEF Distinct, In
<1> QED BY <1>1, <1>2, <1>3 DEF n, a

LEMMA HeadRules ==
    ASSUME NEW X, NEW s \in Seq(X), s # <<>>
    PROVE  /\ Head(s) \in X /\ Tail(s) \in Seq(X) /\ Len(Tail(s)) = Len(s) - 1
           /\ \A x : In(x, s) <=> In(x, Tail(s)) \/ x = Head(s)
           /\ Distinct(s) <=> Distinct(Tail(s)) /\ ~In(Head(s), Tail(s))
<1> DEFINE n == Len(s)
           h == Head(s)
           t == Tail(s)
<1>1. /\ n \in Nat \ {0} /\ DOMAIN s = 1..n /\ t \in Seq(X) /\ Len(t) = n - 1
      /\ DOMAIN t = 1..(n - 1) /\ h \in X
      /\ \A i \in 1..(n - 1) : t[i] = s[i + 1]
      /\ s[1] = h
  BY HeadTailProperties, LenProperties, EmptySeq
<1> HIDE DEF n, h, t
<1>2. ASSUME NEW i \in 1..n PROVE i = 1 \/ \E k \in 1..(n - 1) : i = k + 1 /\ s[i] = t[k]
  <2>1. CASE i # 1
    <3>1. i - 1 \in 1..(n - 1) /\ i = (i - 1) + 1
      BY <1>1, <2>1
    <3> QED BY <1>1, <3>1
  <2> QED BY <2>1
<1>3. ASSUME NEW k \in 1..(n - 1) PROVE k + 1 \in 1..n /\ k + 1 # 1 /\ s[k + 1] = t[k]
  BY <1>1
<1>4. ASSUME NEW x PROVE In(x, s) <=> In(x, t) \/ x = h
  <2>1. In(x, t) => In(x, s)
    BY <1>1, <1>3 DEF In
  <2>2. x = h => In(x, s)
    BY <1>1 DEF In
  <2>3. ASSUME In(x, s), x # h PROVE In(x, t)
    BY <1>1, <1>2, <2>3 DEF In
  <2> QED BY <2>1, <2>2, <2>3
<1>5. ASSUME Distinct(s) PROVE Distinct(t) /\ ~In(h, t)
  <2>1. ASSUME NEW i \in 1..(n - 1), NEW j \in 1..(n - 1), t[i] = t[j] PROVE i = j
    <3>1. i + 1 = j + 1
      BY <1>1, <1>3, <1>5, <2>1 DEF Distinct
    <3> QED BY <1>1, <3>1
  <2>2. ASSUME NEW i \in 1..(n - 1), t[i] = h PROVE FALSE
    BY <1>1, <1>3, <1>5, <2>2, SMTT(30) DEF Distinct
  <2> QED BY <1>1, <2>1, <2>2 DEF Distinct, In
<1>6. ASSUME Distinct(t), ~In(h, t) PROVE Distinct(s)
  <2> SUFFICES ASSUME NEW i \in 1..n, NEW j \in 1..n, s[i] = s[j] PROVE i = j
    BY <1>1 DEF Distinct
  <2>1. ASSUME NEW k \in 1..(n - 1), s[1] = t[k] PROVE FALSE
    BY <1>1, <1>6, <2>1 DEF In
  <2>2. ASSUME NEW k \in 1..(n - 1), NEW l \in 1..(n - 1), t[k] = t[l] PROVE k = l
    BY <1>1, <1>6, <2>2 DEF Distinct
  <2> QED BY <1>2, <2>1, <2>2
<1> QED BY <1>1, <1>4, <1>5, <1>6 DEF n, h, t

LEMMA LastRules ==
    ASSUME NEW X, NEW s \in Seq(X), s # <<>>
    PROVE  LET e == s[Len(s)]
               r == SubSeq(s, 1, Len(s) - 1)
           IN  /\ e \in X /\ r \in Seq(X) /\ Len(r) = Len(s) - 1
               /\ \A x : In(x, s) <=> In(x, r) \/ x = e
               /\ Distinct(s) <=> Distinct(r) /\ ~In(e, r)
<1> DEFINE n == Len(s)
           e == s[n]
           r == SubSeq(s, 1, n - 1)
<1>1. n \in Nat \ {0} /\ DOMAIN s = 1..n /\ \A i \in 1..n : s[i] \in X
  BY LenProperties, EmptySeq, ElementOfSeq
<1> HIDE DEF n
<1>2. /\ 1 \in Int /\ n - 1 \in Int /\ n - 1 >= 0 /\ n \in 1..n
      /\ \A i \in 1..(n - 1) : i \in 1..n /\ i # n
      /\ \A i \in 1..n : i = n \/ i \in 1..(n - 1)
  BY <1>1
<1>3. /\ r \in Seq(X) /\ Len(r) = n - 1 /\ DOMAIN r = 1..(n - 1)
      /\ \A i \in 1..(n - 1) : r[i] = s[i]
  <2>1. /\ r \in Seq(X) /\ Len(r) = IF 1 <= n - 1 THEN (n - 1) - 1 + 1 ELSE 0
        /\ \A i \in 1..((n - 1) - 1 + 1) : r[i] = s[1 + i - 1]
    BY <1>1, <1>2, SubSeqProperties
  <2> HIDE DEF r
  <2>2. (n - 1) - 1 + 1 = n - 1 /\ \A i \in 1..(n - 1) : 1 + i - 1 = i
    BY <1>2
  <2>3. Len(r) = n - 1
    BY <1>2, <2>1
  <2> QED BY <2>1, <2>2, <2>3, LenProperties
<1>4. s[n] = e /\ e \in X
  BY <1>1, <1>2
<1> HIDE DEF e, r
<1>5. \A x : In(x, s) <=> In(x, r) \/ x = e
  BY <1>1, <1>2, <1>3, <1>4 DEF In
<1>6. Distinct(s) => Distinct(r) /\ ~In(e, r)
  BY <1>1, <1>2, <1>3, <1>4 DEF Distinct, In
<1>7. Distinct(r) /\ ~In(e, r) => Distinct(s)
  BY <1>1, <1>2, <1>3, <1>4 DEF Distinct, In
<1> QED BY <1>3, <1>4, <1>5, <1>6, <1>7 DEF n, e, r

LEMMA CatRules ==
    ASSUME NEW X, NEW s \in Seq(X), NEW t \in Seq(X)
    PROVE  /\ Cat(s, t) \in Seq(X) /\ Len(Cat(s, t)) = Len(s) + Len(t)
           /\ \A x : In(x, Cat(s, t)) <=> In(x, s) \/ In(x, t)
           /\ Distinct(Cat(s, t)) <=> /\ Distinct(s) /\ Distinct(t)
                                      /\ \A x : ~(In(x, s) /\ In(x, t))
<1> DEFINE m == Len(s)
           n == Len(t)
           c == Cat(s, t)
<1>1. /\ m \in Nat /\ DOMAIN s = 1..m /\ n \in Nat /\ DOMAIN t = 1..n
      /\ c \in Seq(X) /\ Len(c) = m + n /\ DOMAIN c = 1..(m + n)
      /\ \A i \in 1..(m + n) : c[i] = IF i <= m THEN s[i] ELSE t[i - m]
  BY ConcatProperties, LenProperties DEF Cat
<1> HIDE DEF m, n, c
<1>2. ASSUME NEW i \in 1..m PROVE i \in 1..(m + n) /\ c[i] = s[i]
  BY <1>1
<1>3. ASSUME NEW k \in 1..n PROVE m + k \in 1..(m + n) /\ c[m + k] = t[k] /\ m + k \notin 1..m
  <2>1. m + k \in 1..(m + n) /\ ~(m + k <= m) /\ (m + k) - m = k
    BY <1>1
  <2> QED BY <1>1, <2>1
<1>4. ASSUME NEW i \in 1..(m + n), i \notin 1..m PROVE \E k \in 1..n : i = m + k
  <2>1. i - m \in 1..n /\ i = m + (i - m)
    BY <1>1, <1>4
  <2> QED BY <2>1
<1>5. ASSUME NEW x PROVE In(x, c) <=> In(x, s) \/ In(x, t)
  <2>1. In(x, s) => In(x, c)
    BY <1>1, <1>2 DEF In
  <2>2. In(x, t) => In(x, c)
    BY <1>1, <1>3 DEF In
  <2>3. ASSUME In(x, c) PROVE In(x, s) \/ In(x, t)
    <3>1. PICK i \in 1..(m + n) : c[i] = x
      BY <1>1, <2>3 DEF In
    <3>2. CASE i \in 1..m
      BY <1>1, <1>2, <3>1, <3>2 DEF In
    <3>3. CASE i \notin 1..m
      BY <1>1, <1>3, <1>4, <3>1, <3>3 DEF In
    <3> QED BY <3>2, <3>3
  <2> QED BY <2>1, <2>2, <2>3
<1>6. ASSUME Distinct(c)
      PROVE  Distinct(s) /\ Distinct(t) /\ \A x : ~(In(x, s) /\ In(x, t))
  <2>1. ASSUME NEW i \in 1..(m + n), NEW j \in 1..(m + n), c[i] = c[j] PROVE i = j
    BY <1>1, <1>6, <2>1 DEF Distinct
  <2>2. Distinct(s)
    BY <1>1, <1>2, <2>1 DEF Distinct
  <2>3. ASSUME NEW i \in 1..n, NEW j \in 1..n, t[i] = t[j] PROVE i = j
    <3>1. m + i = m + j
      BY <1>3, <2>1, <2>3
    <3> QED BY <1>1, <3>1
  <2>4. ASSUME NEW x, In(x, s), In(x, t) PROVE FALSE
    BY <1>1, <1>2, <1>3, <2>1, <2>4 DEF In
  <2> QED BY <1>1, <2>2, <2>3, <2>4 DEF Distinct
<1>7. ASSUME Distinct(s), Distinct(t), \A x : ~(In(x, s) /\ In(x, t)) PROVE Distinct(c)
  <2>1. ASSUME NEW i \in 1..m, NEW j \in 1..m, s[i] = s[j] PROVE i = j
    BY <1>1, <1>7, <2>1 DEF Distinct
  <2>2. ASSUME NEW i \in 1..n, NEW j \in 1..n, t[i] = t[j] PROVE i = j
    BY <1>1, <1>7, <2>2 DEF Distinct
  <2>3. ASSUME NEW i \in 1..m, NEW j \in 1..n, s[i] = t[j] PROVE FALSE
    BY <1>1, <1>7, <2>3 DEF In
  <2>4. ASSUME NEW i \in 1..(m + n), NEW j \in 1..(m + n), c[i] = c[j] PROVE i = j
    <3>1. CASE i \in 1..m /\ j \in 1..m
      BY <1>2, <2>1, <2>4, <3>1
    <3>2. CASE i \in 1..m /\ j \notin 1..m
      BY <1>2, <1>3, <1>4, <2>3, <2>4, <3>2
    <3>3. CASE i \notin 1..m /\ j \in 1..m
      BY <1>2, <1>3, <1>4, <2>3, <2>4, <3>3
    <3>4. CASE i \notin 1..m /\ j \notin 1..m
      BY <1>3, <1>4, <2>2, <2>4, <3>4
    <3> QED BY <3>1, <3>2, <3>3, <3>4
  <2> QED BY <1>1, <2>4 DEF Distinct
<1> QED BY <1>1, <1>5, <1>6, <1>7 DEF m, n, c

(* Handlers in a queue and running handlers are of different things. *)
LEMMA HandlersFit ==
    ASSUME NEW X, IsFiniteSet(X), NEW s \in Seq(X), Distinct(s),
           NEW busy, NEW h \in [busy -> X],
           \A v \in busy : ~In(h[v], s),
           \A v \in busy : \A w \in busy : h[v] = h[w] => v = w
    PROVE  Len(s) + Cardinality(busy) <= Cardinality(X)
<1> DEFINE n == Len(s)
           Q == {x \in X : In(x, s)}
<1>1. n \in Nat /\ DOMAIN s = 1..n /\ s \in [1..n -> X]
  BY LenProperties, IsASeq
<1>2. IsFiniteSet(1..n) /\ Cardinality(1..n) = n
  <2>1. IsFiniteSet(1..n) /\ Cardinality(1..n) = IF 1 > n THEN 0 ELSE n - 1 + 1
    BY <1>1, FS_Interval
  <2> QED BY <1>1, <2>1
<1>3. Cardinality(Q) = n /\ IsFiniteSet(Q)
  <2>1. s \in Surjection(1..n, Q) /\ s \in Injection(1..n, Q)
    <3>1. s \in [1..n -> Q]
      BY <1>1 DEF In
    <3>2. \A x \in Q : \E i \in 1..n : s[i] = x
      BY <1>1 DEF In
    <3>3. \A i \in 1..n : \A j \in 1..n : s[i] = s[j] => i = j
      BY <1>1 DEF Distinct
    <3> HIDE DEF Q
    <3> QED BY <3>1, <3>2, <3>3 DEF Surjection, Injection, IsInjective
  <2> HIDE DEF Q
  <2> QED BY <1>2, <2>1, FS_Surjection
<1>4. Cardinality(X \ Q) = Cardinality(X) - Cardinality(Q) /\ IsFiniteSet(X \ Q)
  <2>1. X \cap Q = Q
    OBVIOUS
  <2> HIDE DEF Q
  <2> QED BY <2>1, FS_Difference
<1>5. Cardinality(busy) <= Cardinality(X \ Q) /\ IsFiniteSet(busy)
  <2>1. h \in Injection(busy, X \ Q)
    <3>1. h \in [busy -> X \ Q]
      OBVIOUS
    <3> HIDE DEF Q
    <3> QED BY <3>1 DEF Injection, IsInjective
  <2> HIDE DEF Q
  <2> QED BY <1>4, <2>1, FS_Injection
<1>6. Cardinality(X) \in Nat /\ Cardinality(busy) \in Nat
  BY <1>5, FS_CardinalityType
<1> DEFINE a == Cardinality(X)
           b == Cardinality(busy)
           c == Cardinality(Q)
           d == Cardinality(X \ Q)
<1> HIDE DEF n, Q, a, b, c, d
<1>7. c = n /\ d = a - c /\ b <= d /\ a \in Nat /\ b \in Nat /\ n \in Nat
  BY <1>1, <1>3, <1>4, <1>5, <1>6 DEF a, b, c, d
<1>8. n + b <= a
  BY <1>7
<1> QED BY <1>8 DEF n, a, b

----------------------------------------------------------------------------
(* The pool *)

(* The pool's count of its work, given which of its threads run a handler. *)
PoolFits(X, r, d, n, s, o, busy) ==
    /\ r \in Seq(X) /\ d \in [Workers -> Seq(X)]
    /\ o \in {"open", "joining", "joined"} /\ s \in BOOLEAN
    /\ busy \subseteq Workers
    /\ n = Len(r) + Cardinality(busy) + (IF o = "open" THEN 1 ELSE 0)
    /\ s => busy = {} /\ o # "open"
    /\ \A w \in Workers \ busy : d[w] = <<>>

LEMMA BusyCounts ==
    ASSUME NEW busy, busy \subseteq Workers
    PROVE  /\ Cardinality(busy) \in Nat /\ (Cardinality(busy) = 0 <=> busy = {})
           /\ \A w \in Workers :
                /\ w \notin busy => Cardinality(busy \cup {w}) = Cardinality(busy) + 1
                /\ w \in busy => Cardinality(busy \ {w}) = Cardinality(busy) - 1
<1>1. IsFiniteSet(busy)
  BY EventLoopAssumption, FS_Subset
<1> QED BY <1>1, FS_CardinalityType, FS_EmptySet, FS_AddElement, FS_RemoveElement

LEMMA InitPool ==
    ASSUME PoolInit, NEW X
    PROVE  PoolFits(X, ready, deferred, outstanding, stopped, owner, {})
<1>1. Cardinality({}) = 0
  BY FS_EmptySet
<1>2. /\ ready \in Seq(X) /\ Len(ready) = 0 /\ \A w \in Workers : deferred[w] = <<>>
      /\ deferred \in [Workers -> Seq(X)]
  BY EmptySeq DEF PoolInit
<1>3. owner = "open" /\ stopped = FALSE /\ outstanding = 1
  BY DEF PoolInit
<1>4. outstanding = Len(ready) + Cardinality({}) + (IF owner = "open" THEN 1 ELSE 0)
  BY <1>1, <1>2, <1>3
<1> QED BY <1>2, <1>3, <1>4, Zenon DEF PoolFits

LEMMA SubmitFits ==
    ASSUME NEW X, NEW busy, NEW x \in X,
           PoolFits(X, ready, deferred, outstanding, stopped, owner, busy),
           Submit(x)
    PROVE  /\ PoolFits(X, ready', deferred', outstanding', stopped', owner', busy)
           /\ \A y : In(y, ready') <=> In(y, ready) \/ y = x
           /\ Distinct(ready') <=> Distinct(ready) /\ ~In(x, ready)
<1>1. /\ ready' \in Seq(X) /\ Len(ready') = Len(ready) + 1 /\ Len(ready) \in Nat
      /\ \A y : In(y, ready') <=> In(y, ready) \/ y = x
      /\ Distinct(ready') <=> Distinct(ready) /\ ~In(x, ready)
  BY AppendRules, LenProperties DEF PoolFits, Submit
<1>2. Cardinality(busy) \in Nat
  BY BusyCounts DEF PoolFits
<1> QED BY <1>1, <1>2 DEF PoolFits, Submit

LEMMA ContinuationFits ==
    ASSUME NEW X, NEW busy, NEW x \in X, NEW w \in busy,
           PoolFits(X, ready, deferred, outstanding, stopped, owner, busy),
           SubmitContinuation(w, x)
    PROVE  /\ PoolFits(X, ready', deferred', outstanding', stopped', owner', busy)
           /\ \A y : In(y, deferred'[w]) <=> In(y, deferred[w]) \/ y = x
           /\ Distinct(deferred'[w]) <=> Distinct(deferred[w]) /\ ~In(x, deferred[w])
           /\ \A u \in Workers \ {w} : deferred'[u] = deferred[u]
<1>1. /\ deferred \in [Workers -> Seq(X)] /\ w \in Workers
      /\ deferred' = [deferred EXCEPT ![w] = Append(deferred[w], x)]
      /\ UNCHANGED <<ready, outstanding, stopped, owner>>
  BY DEF PoolFits, SubmitContinuation
<1>2. /\ deferred[w] \in Seq(X) /\ deferred'[w] = Append(deferred[w], x)
      /\ \A u \in Workers \ {w} : deferred'[u] = deferred[u]
  BY <1>1
<1>3. /\ deferred'[w] \in Seq(X)
      /\ \A y : In(y, deferred'[w]) <=> In(y, deferred[w]) \/ y = x
      /\ Distinct(deferred'[w]) <=> Distinct(deferred[w]) /\ ~In(x, deferred[w])
  BY <1>2, AppendRules
<1>4. deferred' \in [Workers -> Seq(X)]
  BY <1>1, <1>2, <1>3
<1> QED BY <1>1, <1>2, <1>3, <1>4 DEF PoolFits

LEMMA TakeFits ==
    ASSUME NEW X, NEW busy, NEW w \in Workers \ busy,
           PoolFits(X, ready, deferred, outstanding, stopped, owner, busy),
           TakeHandler
    PROVE  /\ PoolFits(X, ready', deferred', outstanding', stopped', owner', busy \cup {w})
           /\ Head(ready) \in X
           /\ \A y : In(y, ready) <=> In(y, ready') \/ y = Head(ready)
           /\ Distinct(ready) <=> Distinct(ready') /\ ~In(Head(ready), ready')
<1>1. /\ ready' \in Seq(X) /\ Len(ready') = Len(ready) - 1 /\ Len(ready) \in Nat
      /\ Head(ready) \in X
      /\ \A y : In(y, ready) <=> In(y, ready') \/ y = Head(ready)
      /\ Distinct(ready) <=> Distinct(ready') /\ ~In(Head(ready), ready')
  BY HeadRules, LenProperties DEF PoolFits, TakeHandler
<1>2. Cardinality(busy) \in Nat /\ Cardinality(busy \cup {w}) = Cardinality(busy) + 1
  BY BusyCounts DEF PoolFits
<1> QED BY <1>1, <1>2 DEF PoolFits, TakeHandler

(* The event loop stops when nothing is queued and nothing runs. *)
LEMMA FinishFits ==
    ASSUME NEW X, NEW busy, NEW w \in busy,
           PoolFits(X, ready, deferred, outstanding, stopped, owner, busy),
           FinishHandler(w)
    PROVE  /\ PoolFits(X, ready', deferred', outstanding', stopped', owner', busy \ {w})
           /\ stopped' => ready' = <<>> /\ busy = {w}
           /\ \A y : In(y, ready') <=> In(y, ready) \/ In(y, deferred[w])
           /\ Distinct(ready') <=> /\ Distinct(ready) /\ Distinct(deferred[w])
                                   /\ \A y : ~(In(y, ready) /\ In(y, deferred[w]))
           /\ deferred'[w] = <<>> /\ \A u \in Workers \ {w} : deferred'[u] = deferred[u]
<1>1. /\ ready \in Seq(X) /\ deferred \in [Workers -> Seq(X)] /\ w \in Workers
      /\ deferred[w] \in Seq(X) /\ busy \subseteq Workers
      /\ Len(ready) \in Nat /\ Len(deferred[w]) \in Nat
  BY LenProperties DEF PoolFits
<1>2. ready' = Cat(ready, deferred[w])
  BY DEF FinishHandler, Cat
<1>3. /\ ready' \in Seq(X) /\ Len(ready') = Len(ready) + Len(deferred[w])
      /\ \A y : In(y, ready') <=> In(y, ready) \/ In(y, deferred[w])
      /\ Distinct(ready') <=> /\ Distinct(ready) /\ Distinct(deferred[w])
                              /\ \A y : ~(In(y, ready) /\ In(y, deferred[w]))
  BY <1>1, <1>2, CatRules
<1>4. /\ deferred' \in [Workers -> Seq(X)] /\ deferred'[w] = <<>>
      /\ \A u \in Workers \ {w} : deferred'[u] = deferred[u]
  BY <1>1 DEF FinishHandler
<1>5. /\ Cardinality(busy) \in Nat /\ Cardinality(busy \ {w}) = Cardinality(busy) - 1
      /\ Cardinality(busy \ {w}) \in Nat
      /\ Cardinality(busy \ {w}) = 0 <=> busy \ {w} = {}
  BY <1>1, BusyCounts
<1>6. outstanding' = Len(ready') + Cardinality(busy \ {w}) + (IF owner' = "open" THEN 1 ELSE 0)
  <2>1. outstanding = Len(ready) + Cardinality(busy) + (IF owner = "open" THEN 1 ELSE 0)
    BY DEF PoolFits
  <2>2. outstanding' = outstanding + Len(deferred[w]) - 1 /\ owner' = owner
    BY DEF FinishHandler
  <2>3. Len(ready') = Len(ready) + Len(deferred[w])
    BY <1>3
  <2> DEFINE a == Len(ready)
             b == Len(deferred[w])
             c == Cardinality(busy)
             g == IF owner = "open" THEN 1 ELSE 0
  <2>4. a \in Nat /\ b \in Nat /\ c \in Nat /\ g \in {0, 1}
    BY <1>1, <1>5
  <2>5. outstanding' = a + c + g + b - 1
    BY <2>1, <2>2
  <2>6. Cardinality(busy \ {w}) = c - 1 /\ Len(ready') = a + b
    BY <1>5, <2>3
  <2>7. (IF owner' = "open" THEN 1 ELSE 0) = g
    BY <2>2
  <2> HIDE DEF a, b, c, g
  <2>8. a + c + g + b - 1 = a + b + (c - 1) + g
    BY <2>4
  <2> QED BY <2>5, <2>6, <2>7, <2>8
<1>7. /\ stopped' <=> outstanding' = 0
      /\ stopped' \in BOOLEAN /\ owner' = owner
  BY DEF FinishHandler
<1>8. ASSUME stopped' PROVE Len(ready') = 0 /\ busy \ {w} = {} /\ owner # "open"
  BY <1>1, <1>3, <1>5, <1>6, <1>7, <1>8, SMTT(30)
<1>9. stopped' => ready' = <<>> /\ busy = {w} /\ busy \ {w} = {} /\ owner' # "open"
  BY <1>3, <1>7, <1>8, EmptySeq
<1>10. \A u \in Workers \ (busy \ {w}) : deferred'[u] = <<>>
  BY <1>4 DEF PoolFits
<1> QED BY <1>1, <1>3, <1>4, <1>6, <1>7, <1>9, <1>10 DEF PoolFits

LEMMA ResetFits ==
    ASSUME NEW X, NEW busy,
           PoolFits(X, ready, deferred, outstanding, stopped, owner, busy),
           JoinResetsGuard
    PROVE  /\ PoolFits(X, ready', deferred', outstanding', stopped', owner', busy)
           /\ stopped' => ready = <<>> /\ busy = {}
<1>1. Len(ready) \in Nat /\ Cardinality(busy) \in Nat /\ (Cardinality(busy) = 0 <=> busy = {})
  BY LenProperties, BusyCounts DEF PoolFits
<1>2. outstanding' = Len(ready) + Cardinality(busy)
  BY <1>1 DEF PoolFits, JoinResetsGuard
<1>3. /\ stopped' <=> outstanding' = 0
      /\ stopped' \in BOOLEAN
  BY DEF JoinResetsGuard
<1>4. ASSUME stopped' PROVE Len(ready) = 0 /\ busy = {}
  BY <1>1, <1>2, <1>3, <1>4
<1>5. stopped' => ready = <<>> /\ busy = {}
  BY <1>4, EmptySeq DEF PoolFits
<1>6. owner' = "joining" /\ ready' = ready /\ deferred' = deferred
  BY DEF JoinResetsGuard
<1>7. outstanding' = Len(ready') + Cardinality(busy) + (IF owner' = "open" THEN 1 ELSE 0)
  BY <1>1, <1>2, <1>6
<1>8. /\ ready' \in Seq(X) /\ deferred' \in [Workers -> Seq(X)] /\ busy \subseteq Workers
      /\ \A w \in Workers \ busy : deferred'[w] = <<>>
  BY <1>6 DEF PoolFits
<1>9. owner' \in {"open", "joining", "joined"} /\ owner' # "open"
  BY <1>6
<1> QED BY <1>3, <1>5, <1>7, <1>8, <1>9, Zenon DEF PoolFits

----------------------------------------------------------------------------
(* The thread pool as tasks use it *)

Busy == {w \in Workers : task[w] \in Tasks}

LoopTypes ==
    /\ task \in [Workers -> Tasks \cup {NoTask, "gone"}]
    /\ submitted \subseteq Tasks /\ done \subseteq Tasks /\ promised \subseteq Tasks

(* A task that was promised has run, runs, or waits where a worker finds it. *)
Kept(t) ==
    \/ t \in done
    \/ In(t, ready)
    \/ \E w \in Workers : In(t, deferred[w]) \/ task[w] = t

LoopInv ==
    /\ LoopTypes
    /\ PoolFits(Tasks, ready, deferred, outstanding, stopped, owner, Busy)
    /\ \A t \in promised : Kept(t)
    /\ stopped => promised \subseteq done
    /\ \A w \in Workers : task[w] = "gone" => stopped
    /\ owner = "joined" => stopped

LEMMA LoopInvInit == TaskLoopInit => LoopInv
<1> SUFFICES ASSUME TaskLoopInit PROVE LoopInv
  OBVIOUS
<1>1. /\ LoopTypes /\ Busy = {} /\ promised = {}
      /\ \A w \in Workers : task[w] # "gone"
      /\ owner # "joined"
  BY TaskLoopAssumption DEF TaskLoopInit, PoolInit, LoopTypes, Busy
<1>2. PoolFits(Tasks, ready, deferred, outstanding, stopped, owner, Busy)
  BY <1>1, InitPool DEF TaskLoopInit
<1> QED BY <1>1, <1>2, Zenon DEF LoopInv

LEMMA LoopSubmitInv ==
    ASSUME LoopInv, NEW t \in Tasks, SubmitsOutside(t) PROVE LoopInv'
<1>1. /\ Submit(t) /\ task' = task /\ done' = done
      /\ promised' = IF owner = "open" THEN promised \cup {t} ELSE promised
      /\ submitted' = submitted \cup {t}
  BY DEF SubmitsOutside, New
<1>2. stopped' = stopped /\ owner' = owner /\ deferred' = deferred /\ Busy' = Busy
  BY <1>1 DEF Submit, Busy
<1>3. /\ PoolFits(Tasks, ready', deferred', outstanding', stopped', owner', Busy)
      /\ \A y : In(y, ready') <=> In(y, ready) \/ y = t
  BY <1>1, SubmitFits DEF LoopInv
<1>4. LoopTypes'
  BY <1>1 DEF LoopInv, LoopTypes
<1>5. \A x \in promised' : Kept(x)'
  BY <1>1, <1>2, <1>3 DEF LoopInv, Kept
<1>6. stopped' => promised' \subseteq done'
  BY <1>1, <1>2 DEF LoopInv, PoolFits
<1> QED BY <1>1, <1>2, <1>3, <1>4, <1>5, <1>6 DEF LoopInv

LEMMA LoopSpawnInv ==
    ASSUME LoopInv, NEW t \in Tasks, NEW w \in Workers, SubmitsInside(w, t)
    PROVE  LoopInv'
<1>1. /\ Submit(t) \/ SubmitContinuation(w, t)
      /\ task' = task /\ done' = done /\ promised' = promised \cup {t}
      /\ submitted' = submitted \cup {t} /\ w \in Busy
  BY DEF SubmitsInside, New, Busy
<1>2. stopped' = stopped /\ owner' = owner /\ Busy' = Busy /\ ~stopped
  BY <1>1 DEF Submit, SubmitContinuation, Busy, LoopInv, PoolFits
<1>3. /\ PoolFits(Tasks, ready', deferred', outstanding', stopped', owner', Busy)
      /\ \A y : In(y, ready) => In(y, ready')
      /\ \A u \in Workers : \A y : In(y, deferred[u]) => In(y, deferred'[u])
      /\ In(t, ready') \/ In(t, deferred'[w])
  <2>1. CASE Submit(t)
    <3>1. deferred' = deferred
      BY <2>1 DEF Submit
    <3> QED BY <2>1, <3>1, SubmitFits DEF LoopInv
  <2>2. CASE SubmitContinuation(w, t)
    <3>1. ready' = ready
      BY <2>2 DEF SubmitContinuation
    <3> QED BY <1>1, <2>2, <3>1, ContinuationFits DEF LoopInv
  <2> QED BY <1>1, <2>1, <2>2
<1>4. LoopTypes'
  BY <1>1 DEF LoopInv, LoopTypes
<1>5. \A x \in promised' : Kept(x)'
  BY <1>1, <1>3 DEF LoopInv, Kept
<1> QED BY <1>1, <1>2, <1>3, <1>4, <1>5 DEF LoopInv

LEMMA LoopTakenInv ==
    ASSUME LoopInv, NEW w \in Workers, TaskTaken(w) PROVE LoopInv'
<1>1. /\ TakeHandler /\ task' = [task EXCEPT ![w] = Head(ready)] /\ w \in Workers \ Busy
      /\ done' = done /\ promised' = promised /\ submitted' = submitted
  BY TaskLoopAssumption DEF TaskTaken, Busy
<1>2. stopped' = stopped /\ owner' = owner /\ deferred' = deferred /\ ~stopped
  BY <1>1 DEF TakeHandler
<1>3. /\ PoolFits(Tasks, ready', deferred', outstanding', stopped', owner', Busy \cup {w})
      /\ Head(ready) \in Tasks
      /\ \A y : In(y, ready) <=> In(y, ready') \/ y = Head(ready)
  BY <1>1, TakeFits DEF LoopInv
<1>4. LoopTypes' /\ Busy' = Busy \cup {w}
  BY <1>1, <1>3 DEF LoopInv, LoopTypes, Busy
<1>5. task'[w] = Head(ready) /\ \A u \in Workers \ {w} : task'[u] = task[u]
  BY <1>1 DEF LoopInv, LoopTypes
<1>6. ASSUME NEW x \in promised PROVE Kept(x)'
  <2>1. \A u \in Workers : task[u] = x => task'[u] = x \/ u = w
    BY <1>5
  <2>2. task[w] # x
    BY <1>1 DEF LoopInv, LoopTypes, Busy
  <2> QED BY <1>1, <1>2, <1>3, <1>5, <1>6, <2>1, <2>2 DEF LoopInv, Kept
<1>7. \A u \in Workers : task'[u] # "gone"
  BY <1>2, <1>3, <1>5, TaskLoopAssumption DEF LoopInv
<1> QED BY <1>1, <1>2, <1>3, <1>4, <1>6, <1>7 DEF LoopInv

LEMMA LoopReturnsInv ==
    ASSUME LoopInv, NEW w \in Workers, TaskReturns(w) PROVE LoopInv'
<1>1. /\ FinishHandler(w) /\ task' = [task EXCEPT ![w] = NoTask] /\ w \in Busy
      /\ done' = done \cup {task[w]} /\ promised' = promised /\ submitted' = submitted
  BY DEF TaskReturns, Busy
<1>2. owner' = owner
  BY <1>1 DEF FinishHandler
<1>3. /\ PoolFits(Tasks, ready', deferred', outstanding', stopped', owner', Busy \ {w})
      /\ stopped' => ready' = <<>> /\ Busy = {w}
      /\ \A y : In(y, ready') <=> In(y, ready) \/ In(y, deferred[w])
      /\ deferred'[w] = <<>> /\ \A u \in Workers \ {w} : deferred'[u] = deferred[u]
  BY <1>1, FinishFits DEF LoopInv
<1>4. LoopTypes' /\ Busy' = Busy \ {w}
  BY <1>1, TaskLoopAssumption DEF LoopInv, LoopTypes, Busy
<1>5. task'[w] = NoTask /\ \A u \in Workers \ {w} : task'[u] = task[u]
  BY <1>1 DEF LoopInv, LoopTypes
<1>6. ASSUME NEW x \in promised PROVE Kept(x)'
  <2>1. \A u \in Workers : task[u] = x => task'[u] = x \/ x \in done'
    BY <1>1, <1>5
  <2>2. \A u \in Workers : In(x, deferred[u]) => In(x, deferred'[u]) \/ In(x, ready')
    BY <1>3
  <2> QED BY <1>1, <1>3, <1>6, <2>1, <2>2 DEF LoopInv, Kept
<1>7. ~stopped
  BY <1>1 DEF LoopInv, PoolFits
<1>8. \A u \in Workers : task'[u] # "gone"
  BY <1>5, <1>7, TaskLoopAssumption DEF LoopInv
<1>9. ASSUME stopped', NEW x \in promised PROVE x \in done'
  <2>1. ~In(x, <<>>)
    BY DEF In
  <2>2. /\ ready' = <<>>
        /\ \A u \in Workers : deferred'[u] = <<>> /\ task'[u] \notin Tasks
    BY <1>3, <1>4, <1>9 DEF PoolFits, Busy
  <2>3. x \in Tasks
    BY <1>9 DEF LoopInv, LoopTypes
  <2> QED BY <1>6, <1>9, <2>1, <2>2, <2>3 DEF Kept
<1> QED BY <1>1, <1>2, <1>3, <1>4, <1>6, <1>7, <1>8, <1>9 DEF LoopInv

LEMMA LoopJoinInv == ASSUME LoopInv, LoopJoin PROVE LoopInv'
<1>1. /\ JoinResetsGuard /\ UNCHANGED <<task, submitted, done, promised>>
      /\ UNCHANGED <<ready, deferred>> /\ owner = "open" /\ owner' = "joining"
  BY DEF LoopJoin, JoinResetsGuard
<1>2. /\ PoolFits(Tasks, ready', deferred', outstanding', stopped', owner', Busy)
      /\ stopped' => ready = <<>> /\ Busy = {}
  BY <1>1, ResetFits DEF LoopInv
<1>3. LoopTypes' /\ Busy' = Busy /\ \A x \in promised' : Kept(x)'
  BY <1>1 DEF LoopInv, LoopTypes, Busy, Kept
<1>4. ASSUME stopped', NEW x \in promised PROVE x \in done'
  <2>1. ~In(x, <<>>)
    BY DEF In
  <2>2. /\ ready' = <<>>
        /\ \A u \in Workers : deferred'[u] = <<>> /\ task'[u] \notin Tasks
    BY <1>1, <1>2, <1>4 DEF PoolFits, Busy
  <2>3. x \in Tasks
    BY <1>4 DEF LoopInv, LoopTypes
  <2> QED BY <1>1, <1>3, <1>4, <2>1, <2>2, <2>3 DEF Kept
<1>5. \A u \in Workers : task'[u] # "gone"
  BY <1>1 DEF LoopInv, PoolFits
<1> QED BY <1>1, <1>2, <1>3, <1>4, <1>5 DEF LoopInv

LEMMA LoopNextInv == LoopInv /\ [TaskLoopNext]_loopVars => LoopInv'
<1> SUFFICES ASSUME LoopInv, [TaskLoopNext]_loopVars PROVE LoopInv'
  OBVIOUS
<1>1. CASE UNCHANGED loopVars
  BY <1>1 DEF LoopInv, loopVars, poolVars, LoopTypes, PoolFits, Busy, Kept
<1>2. ASSUME NEW w \in Workers, WorkerLeaves(w) PROVE LoopInv'
  <2>1. /\ UNCHANGED <<ready, deferred, outstanding, stopped, owner, submitted, done, promised>>
        /\ stopped /\ task[w] = NoTask /\ task' = [task EXCEPT ![w] = "gone"]
    BY <1>2 DEF WorkerLeaves, poolVars
  <2>2. LoopTypes' /\ Busy' = Busy
    BY <2>1, TaskLoopAssumption DEF LoopInv, LoopTypes, Busy
  <2>3. \A x \in promised' : x \in done'
    BY <2>1 DEF LoopInv
  <2>4. PoolFits(Tasks, ready', deferred', outstanding', stopped', owner', Busy')
    BY <2>1, <2>2 DEF LoopInv
  <2> QED BY <2>1, <2>2, <2>3, <2>4 DEF LoopInv, Kept
<1>3. ASSUME NEW w \in Workers, LoopTaskThrows(w) PROVE LoopInv'
  BY <1>3 DEF LoopTaskThrows, HandlerThrows, LoopInv, LoopTypes, PoolFits, Busy, Kept
<1>4. CASE LoopJoined
  <2>1. /\ UNCHANGED <<ready, deferred, outstanding, stopped, task, submitted, done, promised>>
        /\ owner = "joining" /\ owner' = "joined" /\ \A w \in Workers : task[w] = "gone"
    BY <1>4 DEF LoopJoined, JoinReturns
  <2>2. stopped
    BY <2>1, EventLoopAssumption DEF LoopInv
  <2>3. PoolFits(Tasks, ready', deferred', outstanding', stopped', owner', Busy')
    BY <2>1 DEF LoopInv, PoolFits, Busy
  <2> QED BY <2>1, <2>2, <2>3 DEF LoopInv, LoopTypes, Kept
<1> QED BY <1>1, <1>2, <1>3, <1>4, LoopSubmitInv, LoopSpawnInv, LoopTakenInv,
           LoopReturnsInv, LoopJoinInv DEF TaskLoopNext, TaskLoopGoesOn

(* When Join has returned, every task submitted before it was called and   *)
(* every task that a task submitted has run.  A promised task is always    *)
(* done, running, or queued, with its work counted: the io_context, which  *)
(* stops at zero, has none left behind (static_thread_pool.hpp:33-36).     *)
THEOREM JoinKeepsItsPromise == TaskLoopSpec => []PromisedTasksRun
<1>1. LoopInv => PromisedTasksRun
  BY DEF LoopInv, PromisedTasksRun
<1> QED BY <1>1, LoopInvInit, LoopNextInv, PTL DEF TaskLoopSpec

----------------------------------------------------------------------------
(* The echo server *)

Bytes == Seq(Nat)

EchoTypes ==
    /\ session \in [Clients -> {"none", "queued", "read", "readDone", "write",
                                "writeDone", "failed", "over"}]
    /\ shut \in [Clients -> {"no", "fin", "reset"}]
    /\ sent \in [Clients -> Nat]
    /\ chunk \in [Clients -> Bytes]
    /\ toServer \in [Clients -> Bytes] /\ toClient \in [Clients -> Bytes]
    /\ received \in [Clients -> Bytes]

(* The buffer is in use from a read to the end of the write.  Only a reset *)
(* ends a session in the middle of it.                                     *)
BufferFree ==
    \A c \in Clients :
        chunk[c] # <<>> =>
            \/ session[c] \in {"readDone", "write"}
            \/ session[c] = "failed" /\ shut[c] = "reset"

EchoIInv == EchoTypes /\ BufferFree /\ EchoConserved

(* All bytes of a client, in the order it sent them. *)
Sent(n) == [i \in 1..n |-> i]

Way(r, c, b, s) == Cat(Cat(Cat(r, c), b), s)

LEMMA SentOneMore ==
    ASSUME NEW n \in Nat
    PROVE  Sent(n) \in Bytes /\ Sent(n + 1) = Append(Sent(n), n + 1)
<1>1. Sent(n) \in Bytes /\ Len(Sent(n)) = n
  BY DEF Sent, Bytes
<1>2. Sent(n + 1) \in Bytes /\ Len(Sent(n + 1)) = n + 1
  BY DEF Sent, Bytes
<1>3. /\ Append(Sent(n), n + 1) \in Bytes
      /\ Len(Append(Sent(n), n + 1)) = n + 1
      /\ \A i \in 1..n : Append(Sent(n), n + 1)[i] = Sent(n)[i]
      /\ Append(Sent(n), n + 1)[n + 1] = n + 1
  BY <1>1, AppendProperties DEF Bytes
<1>4. \A i \in 1..(n + 1) : Append(Sent(n), n + 1)[i] = Sent(n + 1)[i]
  BY <1>3 DEF Sent
<1> QED BY <1>1, <1>2, <1>3, <1>4, SeqEqual DEF Bytes

(* The rules of concatenation, in byte streams. *)
LEMMA ByteRules ==
    /\ <<>> \in Bytes /\ \A e \in Nat : <<e>> \in Bytes
    /\ \A r, s \in Bytes : Cat(r, s) \in Bytes
    /\ \A r, s, t \in Bytes : Cat(Cat(r, s), t) = Cat(r, Cat(s, t))
    /\ \A s \in Bytes : Cat(s, <<>>) = s
    /\ \A s \in Bytes, e \in Nat : Append(s, e) = Cat(s, <<e>>)
<1>1. <<>> \in Bytes /\ \A e \in Nat : <<e>> \in Bytes
  BY DEF Bytes
<1>2. ASSUME NEW r \in Bytes, NEW s \in Bytes PROVE Cat(r, s) \in Bytes
  BY ConcatProperties DEF Bytes, Cat
<1>3. ASSUME NEW r \in Bytes, NEW s \in Bytes, NEW t \in Bytes
      PROVE  Cat(Cat(r, s), t) = Cat(r, Cat(s, t))
  <2>1. r \in Seq(Nat) /\ s \in Seq(Nat) /\ t \in Seq(Nat)
    BY DEF Bytes
  <2>2. (r \o s) \o t = r \o (s \o t)
    BY ONLY <2>1, ConcatAssociative, SMTT(30)
  <2> QED BY <2>2 DEF Cat
<1>4. ASSUME NEW s \in Bytes PROVE Cat(s, <<>>) = s
  BY ConcatEmptySeq DEF Bytes, Cat
<1>5. ASSUME NEW s \in Bytes, NEW e \in Nat PROVE Append(s, e) = Cat(s, <<e>>)
  BY AppendIsConcat DEF Bytes, Cat
<1> QED BY <1>1, <1>2, <1>3, <1>4, <1>5

(* A sequence in two parts. *)
LEMMA Parts ==
    ASSUME NEW s \in Bytes
    PROVE  /\ \A n \in 1..Len(s) :
                /\ SubSeq(s, 1, n) \in Bytes /\ SubSeq(s, n + 1, Len(s)) \in Bytes
                /\ Cat(SubSeq(s, 1, n), SubSeq(s, n + 1, Len(s))) = s
           /\ s # <<>> => /\ Head(s) \in Nat /\ Tail(s) \in Bytes
                          /\ Cat(<<Head(s)>>, Tail(s)) = s
<1> USE DEF Bytes, Cat
<1>1. Len(s) \in Nat /\ \A i \in 1..Len(s) : s[i] \in Nat
  BY LenProperties, ElementOfSeq
<1>2. ASSUME NEW n \in 1..Len(s)
      PROVE  /\ SubSeq(s, 1, n) \in Bytes /\ SubSeq(s, n + 1, Len(s)) \in Bytes
             /\ Cat(SubSeq(s, 1, n), SubSeq(s, n + 1, Len(s))) = s
  <2>1. SubSeq(s, 1, n) \in Bytes
    BY <1>1, SubSeqProperties
  <2>2. SubSeq(s, n + 1, Len(s)) \in Bytes
    BY <1>1, SubSeqProperties
  <2>3. Cat(SubSeq(s, 1, n), SubSeq(s, n + 1, Len(s))) = SubSeq(s, 1, Len(s))
    BY <1>1, ConcatAdjacentSubSeq
  <2> QED BY <2>1, <2>2, <2>3, SubSeqFull
<1>3. ASSUME s # <<>>
      PROVE  Head(s) \in Nat /\ Tail(s) \in Bytes /\ Cat(<<Head(s)>>, Tail(s)) = s
  <2>1. Head(s) \in Nat /\ Tail(s) \in Bytes
    BY <1>3, HeadTailProperties
  <2>2. Len(s) \in Nat \ {0} /\ SubSeq(s, 1, Len(s)) = s /\ s[1] = Head(s)
    BY <1>3, EmptySeq, SubSeqFull
  <2>3. SubSeq(s, 1, Len(s)) = Cat(<<s[1]>>, SubSeq(s, 2, Len(s)))
    BY <2>2, SubSeqRecursiveFirst
  <2> QED BY <1>3, <2>1, <2>2, <2>3, TailIsSubSeq
<1> QED BY <1>2, <1>3

(* Bytes that move from one stage of the way to the next leave it as it    *)
(* is; a byte more at its beginning is one more in all.                    *)
LEMMA AcrossTheWay ==
    ASSUME NEW r \in Bytes, NEW c \in Bytes, NEW b \in Bytes, NEW s \in Bytes
    PROVE  /\ \A e \in Nat : Way(r, c, b, Cat(s, <<e>>)) = Cat(Way(r, c, b, s), <<e>>)
           /\ c # <<>> => Way(Append(r, Head(c)), Tail(c), b, s) = Way(r, c, b, s)
           /\ \A n \in 1..Len(s) :
                Way(r, c, SubSeq(s, 1, n), SubSeq(s, n + 1, Len(s))) = Way(r, c, <<>>, s)
           /\ \A n \in 1..Len(b) :
                Way(r, Cat(c, SubSeq(b, 1, n)), SubSeq(b, n + 1, Len(b)), s) = Way(r, c, b, s)
<1>1. ASSUME NEW e \in Nat PROVE Way(r, c, b, Cat(s, <<e>>)) = Cat(Way(r, c, b, s), <<e>>)
  <2>1. Cat(r, c) \in Bytes /\ Cat(Cat(r, c), b) \in Bytes /\ <<e>> \in Bytes
    BY ByteRules
  <2> QED BY <2>1, ByteRules DEF Way
<1>2. ASSUME c # <<>> PROVE Way(Append(r, Head(c)), Tail(c), b, s) = Way(r, c, b, s)
  <2>1. Head(c) \in Nat /\ Tail(c) \in Bytes /\ Cat(<<Head(c)>>, Tail(c)) = c
    BY <1>2, Parts
  <2>2. Append(r, Head(c)) = Cat(r, <<Head(c)>>) /\ <<Head(c)>> \in Bytes
    BY <2>1, ByteRules
  <2>3. Cat(Cat(r, <<Head(c)>>), Tail(c)) = Cat(r, c)
    BY <2>1, <2>2, ByteRules
  <2> QED BY <2>2, <2>3 DEF Way
<1>3. ASSUME NEW n \in 1..Len(s)
      PROVE  Way(r, c, SubSeq(s, 1, n), SubSeq(s, n + 1, Len(s))) = Way(r, c, <<>>, s)
  <2> DEFINE x == SubSeq(s, 1, n)
             y == SubSeq(s, n + 1, Len(s))
  <2>1. x \in Bytes /\ y \in Bytes /\ Cat(x, y) = s
    BY Parts
  <2> HIDE DEF x, y
  <2>2. Cat(r, c) \in Bytes /\ Cat(Cat(r, c), <<>>) = Cat(r, c)
    BY ByteRules
  <2>3. Cat(Cat(Cat(r, c), x), y) = Cat(Cat(r, c), s)
    BY <2>1, <2>2, ByteRules
  <2>4. Way(r, c, x, y) = Way(r, c, <<>>, s)
    BY <2>2, <2>3 DEF Way
  <2> QED BY <2>4 DEF x, y
<1>4. ASSUME NEW n \in 1..Len(b)
      PROVE  Way(r, Cat(c, SubSeq(b, 1, n)), SubSeq(b, n + 1, Len(b)), s) = Way(r, c, b, s)
  <2> DEFINE x == SubSeq(b, 1, n)
             y == SubSeq(b, n + 1, Len(b))
  <2>1. x \in Bytes /\ y \in Bytes /\ Cat(x, y) = b
    BY Parts
  <2> HIDE DEF x, y
  <2>2. Cat(r, Cat(c, x)) = Cat(Cat(r, c), x) /\ Cat(r, c) \in Bytes
    BY <2>1, ByteRules
  <2>3. Cat(Cat(Cat(r, c), x), y) = Cat(Cat(r, c), b)
    BY <2>1, <2>2, ByteRules
  <2>4. Way(r, Cat(c, x), y, s) = Way(r, c, b, s)
    BY <2>2, <2>3 DEF Way
  <2> QED BY <2>4 DEF x, y
<1> QED BY <1>1, <1>2, <1>3, <1>4

LEMMA InitEcho == EchoInit => EchoIInv
<1> SUFFICES ASSUME EchoInit PROVE EchoIInv
  OBVIOUS
<1> USE DEF EchoInit
<1>1. EchoTypes /\ BufferFree
  BY DEF EchoTypes, BufferFree, Bytes
<1>2. <<>> \o <<>> \o <<>> \o <<>> = [i \in 1..0 |-> i]
  OBVIOUS
<1> QED BY <1>1, <1>2 DEF EchoIInv, EchoConserved

(* A step for one client keeps the invariant if it does for that client. *)
LEMMA OneClient ==
    ASSUME EchoIInv, EchoTypes', NEW c \in Clients,
           \A d \in Clients \ {c} :
               /\ session'[d] = session[d] /\ shut'[d] = shut[d] /\ sent'[d] = sent[d]
               /\ chunk'[d] = chunk[d] /\ toServer'[d] = toServer[d]
               /\ toClient'[d] = toClient[d] /\ received'[d] = received[d],
           chunk'[c] # <<>> => \/ session'[c] \in {"readDone", "write"}
                               \/ session'[c] = "failed" /\ shut'[c] = "reset",
           shut'[c] # "reset" =>
               Way(received'[c], toClient'[c], chunk'[c], toServer'[c]) = Sent(sent'[c])
    PROVE  EchoIInv'
<1>1. BufferFree'
  BY DEF EchoIInv, BufferFree
<1>2. EchoConserved'
  BY DEF EchoIInv, EchoConserved, Way, Cat, Sent
<1> QED BY <1>1, <1>2 DEF EchoIInv

LEMMA NextEcho == EchoIInv /\ [EchoNext]_echoVars => EchoIInv'
<1> SUFFICES ASSUME EchoIInv, [EchoNext]_echoVars PROVE EchoIInv'
  OBVIOUS
<1> USE DEF EchoIInv, Becomes, Fails
<1>0. EchoTypes /\ BufferFree
      /\ \A c \in Clients : shut[c] # "reset" =>
           Way(received[c], toClient[c], chunk[c], toServer[c]) = Sent(sent[c])
  BY DEF EchoConserved, Way, Cat, Sent
<1>1. ASSUME NEW c \in Clients, Connect(c) \/ ReadFails(c) \/ ReadHandler(c)
                                \/ WriteFails(c) \/ WriteHandler(c)
      PROVE  EchoIInv'
  <2>1. /\ EchoTypes' /\ UNCHANGED <<chunk, toServer, toClient, sent, received, shut>>
        /\ \A d \in Clients \ {c} : session'[d] = session[d]
    BY <1>0, <1>1 DEF Connect, ReadFails, ReadHandler, WriteFails, WriteHandler,
       clientVars, EchoTypes
  <2>2. chunk[c] # <<>> => \/ session'[c] \in {"readDone", "write"}
                           \/ session'[c] = "failed" /\ shut'[c] = "reset"
    BY <1>0, <1>1 DEF Connect, ReadFails, ReadHandler, WriteFails, WriteHandler,
       clientVars, EchoTypes, BufferFree
  <2> QED BY <1>0, <2>1, <2>2, OneClient
<1>2. ASSUME NEW c \in Clients, Send(c) PROVE EchoIInv'
  <2>1. /\ EchoTypes'
        /\ UNCHANGED <<session, chunk, toClient, received, shut>>
        /\ sent'[c] = sent[c] + 1 /\ toServer'[c] = Append(toServer[c], sent[c] + 1)
        /\ \A d \in Clients \ {c} : sent'[d] = sent[d] /\ toServer'[d] = toServer[d]
        /\ shut[c] = "no"
    BY <1>0, <1>2, AppendProperties DEF Send, EchoTypes, Bytes
  <2>2. Way(received[c], toClient[c], chunk[c], Append(toServer[c], sent[c] + 1))
            = Append(Sent(sent[c]), sent[c] + 1)
    <3>1. /\ received[c] \in Bytes /\ toClient[c] \in Bytes /\ chunk[c] \in Bytes
          /\ toServer[c] \in Bytes /\ sent[c] + 1 \in Nat
      BY <1>0 DEF EchoTypes
    <3>2. Way(received[c], toClient[c], chunk[c], toServer[c]) = Sent(sent[c])
      BY <1>0, <2>1
    <3>3. /\ Append(toServer[c], sent[c] + 1) = Cat(toServer[c], <<sent[c] + 1>>)
          /\ Append(Sent(sent[c]), sent[c] + 1) = Cat(Sent(sent[c]), <<sent[c] + 1>>)
      BY <1>0, <3>1, ByteRules, SentOneMore DEF EchoTypes
    <3>4. Way(received[c], toClient[c], chunk[c], Cat(toServer[c], <<sent[c] + 1>>))
              = Cat(Way(received[c], toClient[c], chunk[c], toServer[c]), <<sent[c] + 1>>)
      BY <3>1, AcrossTheWay
    <3> QED BY <3>2, <3>3, <3>4
  <2>3. Sent(sent'[c]) = Append(Sent(sent[c]), sent[c] + 1)
    BY <1>0, <2>1, SentOneMore DEF EchoTypes
  <2> QED BY <1>0, <2>1, <2>2, <2>3, OneClient DEF BufferFree
<1>3. ASSUME NEW c \in Clients, Receive(c) PROVE EchoIInv'
  <2>1. /\ Head(toClient[c]) \in Nat /\ Tail(toClient[c]) \in Bytes
        /\ Append(received[c], Head(toClient[c])) \in Bytes
    BY <1>0, <1>3, HeadTailProperties, AppendProperties DEF Receive, EchoTypes, Bytes
  <2>2. /\ EchoTypes'
        /\ UNCHANGED <<session, chunk, toServer, sent, shut>>
        /\ received'[c] = Append(received[c], Head(toClient[c]))
        /\ toClient'[c] = Tail(toClient[c]) /\ toClient[c] # <<>>
        /\ \A d \in Clients \ {c} : received'[d] = received[d] /\ toClient'[d] = toClient[d]
    BY <1>0, <1>3, <2>1 DEF Receive, EchoTypes
  <2>3. Way(received'[c], toClient'[c], chunk[c], toServer[c])
            = Way(received[c], toClient[c], chunk[c], toServer[c])
    BY <1>0, <2>2, AcrossTheWay DEF EchoTypes
  <2> QED BY <1>0, <2>2, <2>3, OneClient DEF BufferFree
<1>4. ASSUME NEW c \in Clients, HalfClose(c) PROVE EchoIInv'
  <2>1. /\ EchoTypes'
        /\ UNCHANGED <<session, chunk, toServer, toClient, sent, received>>
        /\ shut[c] = "no" /\ shut'[c] = "fin"
        /\ \A d \in Clients \ {c} : shut'[d] = shut[d]
    BY <1>0, <1>4 DEF HalfClose, EchoTypes
  <2> QED BY <1>0, <2>1, OneClient DEF BufferFree
<1>5. ASSUME NEW c \in Clients, Reset(c) PROVE EchoIInv'
  <2>1. /\ EchoTypes'
        /\ UNCHANGED <<session, chunk, sent, received>> /\ shut'[c] = "reset"
        /\ \A d \in Clients \ {c} : /\ shut'[d] = shut[d]
                                    /\ toServer'[d] = toServer[d] /\ toClient'[d] = toClient[d]
    BY <1>0, <1>5 DEF Reset, EchoTypes, Bytes
  <2> QED BY <1>0, <2>1, OneClient DEF BufferFree
<1>6. CASE AcceptorStep \/ AcceptFails
  <2>1. UNCHANGED <<chunk, toServer, toClient, sent, received, shut>>
    BY <1>6 DEF AcceptorStep, AcceptCompletes, AcceptHandler, AcceptFails, clientVars
  <2>2. \/ session' = session
        \/ \E c \in Clients : Becomes(c, "queued", "read")
    BY <1>6 DEF AcceptorStep, AcceptCompletes, AcceptHandler, AcceptFails
  <2>3. CASE session' = session
    BY <1>0, <2>1, <2>3 DEF EchoTypes, BufferFree, EchoConserved
  <2>4. ASSUME NEW c \in Clients, Becomes(c, "queued", "read") PROVE EchoIInv'
    <3>1. EchoTypes' /\ chunk[c] = <<>> /\ \A d \in Clients \ {c} : session'[d] = session[d]
      BY <1>0, <2>1, <2>4 DEF EchoTypes, BufferFree
    <3> QED BY <1>0, <2>1, <3>1, OneClient
  <2> QED BY <2>2, <2>3, <2>4
<1>7. ASSUME NEW c \in Clients, ReadSome(c) PROVE EchoIInv'
  <2>1. PICK n \in 1..kBufferSize :
          /\ n <= Len(toServer[c])
          /\ Becomes(c, "read", "readDone")
          /\ chunk' = [chunk EXCEPT ![c] = SubSeq(toServer[c], 1, n)]
          /\ toServer' = [toServer EXCEPT ![c] = SubSeq(@, n + 1, Len(@))]
          /\ UNCHANGED <<acceptVars, toClient, clientVars>>
    BY <1>7 DEF ReadSome
  <2>2. n \in 1..Len(toServer[c])
    BY <1>0, <2>1, EchoAssumption, LenProperties DEF EchoTypes, Bytes
  <2>3. SubSeq(toServer[c], 1, n) \in Bytes /\ SubSeq(toServer[c], n + 1, Len(toServer[c])) \in Bytes
    BY <1>0, <2>2, Parts DEF EchoTypes
  <2>4. /\ EchoTypes' /\ session'[c] = "readDone" /\ chunk[c] = <<>>
        /\ UNCHANGED <<toClient, sent, received, shut>>
        /\ chunk'[c] = SubSeq(toServer[c], 1, n)
        /\ toServer'[c] = SubSeq(toServer[c], n + 1, Len(toServer[c]))
        /\ \A d \in Clients \ {c} : /\ session'[d] = session[d] /\ chunk'[d] = chunk[d]
                                    /\ toServer'[d] = toServer[d]
    BY <1>0, <2>1, <2>3 DEF EchoTypes, BufferFree, clientVars
  <2>5. Way(received[c], toClient[c], chunk'[c], toServer'[c])
            = Way(received[c], toClient[c], chunk[c], toServer[c])
    BY <1>0, <2>2, <2>4, AcrossTheWay, SMTT(30) DEF EchoTypes
  <2> QED BY <1>0, <2>4, <2>5, OneClient
<1>8. ASSUME NEW c \in Clients, WriteSome(c) PROVE EchoIInv'
  <2>1. PICK n \in 1..Len(chunk[c]) :
          /\ Becomes(c, "write", IF n = Len(chunk[c]) THEN "writeDone" ELSE "write")
          /\ chunk' = [chunk EXCEPT ![c] = SubSeq(@, n + 1, Len(@))]
          /\ toClient' = [toClient EXCEPT ![c] = @ \o SubSeq(chunk[c], 1, n)]
          /\ UNCHANGED <<acceptVars, toServer, clientVars>>
    BY <1>8 DEF WriteSome
  <2>2. /\ SubSeq(chunk[c], 1, n) \in Bytes /\ SubSeq(chunk[c], n + 1, Len(chunk[c])) \in Bytes
        /\ toClient[c] \o SubSeq(chunk[c], 1, n) \in Bytes
    <3>1. chunk[c] \in Bytes /\ toClient[c] \in Bytes
      BY <1>0 DEF EchoTypes
    <3>2. SubSeq(chunk[c], 1, n) \in Bytes /\ SubSeq(chunk[c], n + 1, Len(chunk[c])) \in Bytes
      BY <3>1, Parts
    <3> QED BY <3>1, <3>2, ByteRules DEF Cat
  <2>3. /\ EchoTypes' /\ UNCHANGED <<toServer, sent, received, shut>>
        /\ chunk'[c] = SubSeq(chunk[c], n + 1, Len(chunk[c]))
        /\ toClient'[c] = Cat(toClient[c], SubSeq(chunk[c], 1, n))
        /\ \A d \in Clients \ {c} : /\ session'[d] = session[d] /\ chunk'[d] = chunk[d]
                                    /\ toClient'[d] = toClient[d]
    BY <1>0, <2>1, <2>2 DEF EchoTypes, clientVars, Cat
  <2>4. Way(received[c], toClient'[c], chunk'[c], toServer[c])
            = Way(received[c], toClient[c], chunk[c], toServer[c])
    BY <1>0, <2>3, AcrossTheWay DEF EchoTypes
  <2>5. chunk'[c] # <<>> => session'[c] \in {"readDone", "write"}
    <3>1. n = Len(chunk[c]) => chunk'[c] = <<>>
      BY <1>0, <2>3, SubSeqEmpty, LenProperties DEF EchoTypes, Bytes
    <3>2. n # Len(chunk[c]) => session'[c] = "write"
      BY <1>0, <2>1 DEF EchoTypes
    <3> QED BY <3>1, <3>2
  <2> QED BY <1>0, <2>3, <2>4, <2>5, OneClient
<1>9. ASSUME NEW c \in Clients, SessionEnds(c) PROVE EchoIInv'
  <2>1. /\ EchoTypes' /\ UNCHANGED <<toServer, toClient, sent, received, shut>>
        /\ chunk'[c] = <<>> /\ session[c] = "failed"
        /\ \A d \in Clients \ {c} : session'[d] = session[d] /\ chunk'[d] = chunk[d]
    BY <1>0, <1>9 DEF SessionEnds, EchoTypes, Bytes, clientVars
  <2>2. shut[c] # "reset" => chunk[c] = <<>>
    BY <1>0, <2>1 DEF BufferFree
  <2> QED BY <1>0, <2>1, <2>2, OneClient
<1>10. CASE UNCHANGED echoVars
  BY <1>0, <1>10 DEF echoVars, clientVars, EchoTypes, BufferFree, EchoConserved
<1> QED
  BY <1>1, <1>2, <1>3, <1>4, <1>5, <1>6, <1>7, <1>8, <1>9, <1>10 DEF EchoNext, SessionStep

(* For any clients, sizes of the buffer and of the wires: nothing is lost, *)
(* duplicated or reordered on the way through the one buffer of a session, *)
(* unless the connection is reset (server.cpp:27-46).                      *)
THEOREM BytesAreConserved == EchoSpec => []EchoConserved
<1>1. EchoIInv => EchoConserved
  BY DEF EchoIInv
<1> QED BY <1>1, InitEcho, NextEcho, PTL DEF EchoSpec

----------------------------------------------------------------------------
(* Fibers *)

(* The workers in a Dispatch: the handlers that run. *)
Dispatchers == {w \in Workers : step[w] \notin {"run", "gone"}}

FiberTypes ==
    /\ CoroutineTypeOK
    /\ step \in [Workers -> Steps]
    /\ dispatching \in [Workers -> Fibers \cup {Nobody}]
    /\ current_fiber \in [Workers -> Fibers \cup {Nobody}]
    /\ life \in [Fibers -> {"new", "live", "deleted"}]
    /\ \A w \in Workers :
         /\ dispatching[w] = Nobody <=> step[w] \in {"run", "gone"}
         /\ current_fiber[w] = IF step[w] \in {"body", "suspend", "check"}
                                 THEN dispatching[w] ELSE Nobody

(* The fiber that w dispatches has submitted its next dispatch. *)
Yielded(w) ==
    \/ step[w] = "suspend"
    \/ step[w] = "check" /\ phase[dispatching[w]] # "completed"
    \/ step[w] = "finish" /\ life[dispatching[w]] = "live"

(* Each live fiber has one handler, queued or running, and a second one    *)
(* only between its Yield and the end of the dispatch in which it yields,  *)
(* where only the worker that dispatches it can find it.                   *)
Handlers ==
    /\ Distinct(ready) /\ \A w \in Workers : Distinct(deferred[w])
    /\ \A w \in Workers, f \in Fibers :
         In(f, deferred[w]) <=> dispatching[w] = f /\ Yielded(w)
    /\ OneDispatcher
    /\ \A f \in Fibers :
         /\ In(f, ready) => life[f] = "live" /\ \A w \in Workers : dispatching[w] # f
         /\ life[f] = "live" => In(f, ready) \/ \E w \in Workers : dispatching[w] = f
    /\ \A w \in Workers :
         dispatching[w] # Nobody =>
           \/ life[dispatching[w]] = "live"
           \/ step[w] = "finish" /\ life[dispatching[w]] = "deleted"

(* A fiber is resumed by the event loop, so no coroutine waits below it.   *)
Callers ==
    /\ \A f \in Fibers : last[f] = Nobody
    /\ \A w \in Workers :
         /\ step[w] \notin {"body", "suspend"} => current[w] = Nobody
         /\ step[w] = "suspend" => current[w] = dispatching[w]
         /\ step[w] = "body" /\ ~terminated => current[w] # Nobody
         /\ current[w] \in Fibers => current[w] = dispatching[w]
         /\ current[w] \in Coroutines \ Fibers =>
              current[w] = Nested[dispatching[w]] /\ last[current[w]] = dispatching[w]

Ends ==
    /\ stopped => ready = <<>>
    /\ \A w \in Workers : step[w] = "gone" => stopped
    /\ owner = "joined" => stopped

FiberPool == PoolFits(Fibers, ready, deferred, outstanding, stopped, owner, Dispatchers)

FInv == FiberTypes /\ FiberPool /\ Handlers /\ Callers /\ Ends

----------------------------------------------------------------------------
(* The operations of a coroutine *)

LEMMA GotoRules ==
    ASSUME NEW w \in Workers, NEW a, NEW b \in Steps, step \in [Workers -> Steps],
           Goto(w, a, b)
    PROVE  /\ step' \in [Workers -> Steps] /\ step[w] = a /\ step'[w] = b
           /\ \A u \in Workers \ {w} : step'[u] = step[u]
  BY DEF Goto

LEMMA ResumeRules ==
    ASSUME NEW w \in Workers, NEW c \in Coroutines, CoroutineTypeOK, Resume(w, c)
    PROVE  /\ CoroutineTypeOK' /\ current'[w] = c
           /\ \A u \in Workers \ {w} : current'[u] = current[u]
           /\ last'[c] = current[w] /\ \A d \in Coroutines \ {c} : last'[d] = last[d]
           /\ phase'[c] = "running" /\ \A d \in Coroutines \ {c} : phase'[d] = phase[d]
  BY FibersAssumption DEF CoroutineTypeOK, Resume, Phases

LEMMA SwitchBackRules ==
    ASSUME NEW w \in Workers, NEW p \in Phases, CoroutineTypeOK,
           current[w] \in Coroutines, SwitchBack(w, p)
    PROVE  /\ CoroutineTypeOK' /\ current'[w] = last[current[w]]
           /\ \A u \in Workers \ {w} : current'[u] = current[u]
           /\ last'[current[w]] = Nobody
           /\ \A d \in Coroutines \ {current[w]} : last'[d] = last[d]
           /\ phase'[current[w]] = p
           /\ \A d \in Coroutines \ {current[w]} : phase'[d] = phase[d]
<1> DEFINE c == current[w]
<1>1. /\ current' = [current EXCEPT ![w] = last[c]]
      /\ last' = [last EXCEPT ![c] = Nobody]
      /\ phase' = [phase EXCEPT ![c] = p]
  BY DEF SwitchBack
<1>2. w \in Threads /\ \A u \in Workers : u \in Threads
  BY FibersAssumption
<1> QED BY <1>1, <1>2 DEF CoroutineTypeOK

LEMMA FiberNames ==
    /\ \A f \in Fibers : f \in Coroutines /\ f # Nobody
    /\ Workers \subseteq Threads /\ Nobody \notin Coroutines
  BY FibersAssumption

LEMMA FInvInit == Init => FInv
<1> SUFFICES ASSUME Init PROVE FInv
  OBVIOUS
<1>1. /\ CoroutineInit /\ PoolInit
      /\ \A w \in Workers : /\ step[w] = "run" /\ dispatching[w] = Nobody
                            /\ current_fiber[w] = Nobody /\ current[w] = Nobody
      /\ \A f \in Fibers : life[f] = "new" /\ last[f] = Nobody
      /\ Dispatchers = {}
  BY FiberNames DEF Init, CoroutineInit, Dispatchers
<1>2. FiberTypes
  BY <1>1 DEF Init, FiberTypes, CoroutineInit, CoroutineTypeOK, Phases, Steps
<1>3. FiberPool
  BY <1>1, InitPool DEF FiberPool
<1>4. /\ ready = <<>> /\ stopped = FALSE /\ owner = "open"
      /\ \A w \in Workers : deferred[w] = <<>>
      /\ Distinct(<<>>) /\ \A x : ~In(x, <<>>)
  BY <1>1 DEF PoolInit, Distinct, In
<1>5. Handlers
  BY <1>1, <1>4, FiberNames DEF Handlers, OneDispatcher, Yielded
<1>6. Callers
  BY <1>1, FiberNames DEF Callers
<1> QED BY <1>1, <1>2, <1>3, <1>4, <1>5, <1>6 DEF FInv, Ends

----------------------------------------------------------------------------
(* The actions, one by one *)

LEMMA SpawnInv ==
    ASSUME FInv, NEW t, Spawn(t), ~stopped PROVE FInv'
<1>1. PICK f \in Fibers : /\ life[f] = "new" /\ life' = [life EXCEPT ![f] = "live"]
                          /\ Submit(f)
  BY DEF Spawn
<1>2. UNCHANGED <<current, last, phase, step, dispatching, current_fiber>>
  BY DEF Spawn, coroutineVars
<1>3. UNCHANGED <<deferred, stopped, owner, terminated>>
  BY <1>1 DEF Submit
<1>4. /\ FiberPool' /\ \A y : In(y, ready') <=> In(y, ready) \/ y = f
      /\ Distinct(ready') <=> Distinct(ready) /\ ~In(f, ready)
  <2>1. Dispatchers' = Dispatchers
    BY <1>2 DEF Dispatchers
  <2> QED BY <1>1, <2>1, SubmitFits DEF FInv, FiberPool
<1>5. FiberTypes'
  BY <1>1, <1>2 DEF FInv, FiberTypes, CoroutineTypeOK
<1>6. life'[f] = "live" /\ \A g \in Fibers \ {f} : life'[g] = life[g]
  BY <1>1 DEF FInv, FiberTypes
<1>7. Handlers'
  <2>1. ~In(f, ready) /\ \A w \in Workers : dispatching[w] # f
    BY <1>1, FiberNames DEF FInv, Handlers
  <2>2. \A w \in Workers : Yielded(w)' <=> Yielded(w)
    BY <1>2, <1>6, <2>1, FiberNames DEF Yielded, FInv, FiberTypes
  <2>3. \A w \in Workers, g \in Fibers :
          In(g, deferred'[w]) <=> dispatching'[w] = g /\ Yielded(w)'
    BY <1>2, <1>3, <2>2 DEF FInv, Handlers
  <2>4. \A g \in Fibers :
          /\ In(g, ready') => life'[g] = "live" /\ \A w \in Workers : dispatching'[w] # g
          /\ life'[g] = "live" => In(g, ready') \/ \E w \in Workers : dispatching'[w] = g
    BY <1>2, <1>4, <1>6, <2>1 DEF FInv, Handlers
  <2>5. \A w \in Workers :
          dispatching'[w] # Nobody =>
            \/ life'[dispatching'[w]] = "live"
            \/ step'[w] = "finish" /\ life'[dispatching'[w]] = "deleted"
    BY <1>1, <1>2, <1>6, <2>1 DEF FInv, Handlers, FiberTypes
  <2>6. OneDispatcher' /\ Distinct(ready') /\ \A w \in Workers : Distinct(deferred'[w])
    BY <1>2, <1>3, <1>4, <2>1 DEF FInv, Handlers, OneDispatcher
  <2> QED BY <2>3, <2>4, <2>5, <2>6 DEF Handlers
<1>8. Callers'
  BY <1>2, <1>3 DEF FInv, Callers
<1>9. Ends'
  BY <1>2, <1>3 DEF FInv, Ends
<1> QED BY <1>4, <1>5, <1>7, <1>8, <1>9 DEF FInv

LEMMA TakesInv ==
    ASSUME FInv, NEW w \in Workers, Takes(w) PROVE FInv'
<1> DEFINE f == Head(ready)
<1>1. /\ TakeHandler /\ dispatching' = [dispatching EXCEPT ![w] = f]
      /\ Goto(w, "run", "resume")
      /\ UNCHANGED <<current, last, phase, current_fiber, life>>
  BY DEF Takes, coroutineVars
<1>2. UNCHANGED <<deferred, stopped, owner, terminated>> /\ ~stopped
  BY <1>1 DEF TakeHandler
<1>3. /\ step' \in [Workers -> Steps] /\ step[w] = "run" /\ step'[w] = "resume"
      /\ \A u \in Workers \ {w} : step'[u] = step[u]
  BY <1>1, GotoRules DEF FInv, FiberTypes, Steps
<1>4. Dispatchers' = Dispatchers \cup {w} /\ w \in Workers \ Dispatchers
  BY <1>3 DEF Dispatchers
<1>5. /\ FiberPool' /\ f \in Fibers
      /\ \A y : In(y, ready) <=> In(y, ready') \/ y = f
      /\ Distinct(ready) <=> Distinct(ready') /\ ~In(f, ready')
  BY <1>1, <1>4, TakeFits DEF FInv, FiberPool
<1> HIDE DEF f
<1>6. dispatching'[w] = f /\ \A u \in Workers \ {w} : dispatching'[u] = dispatching[u]
  BY <1>1 DEF FInv, FiberTypes
<1>7. FiberTypes'
  <2>1. dispatching' \in [Workers -> Fibers \cup {Nobody}]
    BY <1>1, <1>5 DEF FInv, FiberTypes
  <2>2. \A u \in Workers :
          /\ dispatching'[u] = Nobody <=> step'[u] \in {"run", "gone"}
          /\ current_fiber'[u] = IF step'[u] \in {"body", "suspend", "check"}
                                   THEN dispatching'[u] ELSE Nobody
    BY <1>1, <1>3, <1>5, <1>6, FiberNames DEF FInv, FiberTypes
  <2> QED BY <1>1, <1>3, <2>1, <2>2 DEF FInv, FiberTypes, CoroutineTypeOK
<1>8. Handlers'
  <2>1. /\ dispatching[w] = Nobody /\ In(f, ready) /\ ~In(f, ready')
        /\ life[f] = "live" /\ \A u \in Workers : dispatching[u] # f
    BY <1>3, <1>5 DEF FInv, FiberTypes, Handlers
  <2>2. /\ ~Yielded(w)' /\ ~Yielded(w)
        /\ \A u \in Workers \ {w} : Yielded(u)' <=> Yielded(u)
    BY <1>1, <1>3, <1>6 DEF Yielded
  <2>3. \A u \in Workers, g \in Fibers :
          In(g, deferred'[u]) <=> dispatching'[u] = g /\ Yielded(u)'
    BY <1>2, <1>6, <2>2 DEF FInv, Handlers
  <2>4. \A g \in Fibers :
          /\ In(g, ready') => life'[g] = "live" /\ \A u \in Workers : dispatching'[u] # g
          /\ life'[g] = "live" => In(g, ready') \/ \E u \in Workers : dispatching'[u] = g
    BY <1>1, <1>5, <1>6, <2>1, FiberNames DEF FInv, Handlers
  <2>5. \A u \in Workers :
          dispatching'[u] # Nobody =>
            \/ life'[dispatching'[u]] = "live"
            \/ step'[u] = "finish" /\ life'[dispatching'[u]] = "deleted"
    BY <1>1, <1>3, <1>6, <2>1 DEF FInv, Handlers
  <2>6. OneDispatcher' /\ Distinct(ready') /\ \A u \in Workers : Distinct(deferred'[u])
    BY <1>2, <1>5, <1>6, <2>1 DEF FInv, Handlers, OneDispatcher
  <2> QED BY <2>3, <2>4, <2>5, <2>6 DEF Handlers
<1>9. Callers'
  <2>1. current[w] = Nobody
    BY <1>3 DEF FInv, Callers
  <2> QED BY <1>1, <1>2, <1>3, <1>6, <2>1, FiberNames DEF FInv, Callers
<1>10. Ends'
  BY <1>2, <1>3 DEF FInv, Ends
<1> QED BY <1>5, <1>7, <1>8, <1>9, <1>10 DEF FInv

LEMMA DispatchesInv ==
    ASSUME FInv, NEW w \in Workers, Dispatches(w) PROVE FInv'
<1> DEFINE f == dispatching[w]
<1>1. /\ Resume(w, f) /\ current_fiber' = [current_fiber EXCEPT ![w] = f]
      /\ Goto(w, "resume", "body")
      /\ UNCHANGED <<poolVars, dispatching, life>>
  BY DEF Dispatches
<1>2. UNCHANGED <<ready, deferred, outstanding, stopped, owner, terminated>>
  BY <1>1 DEF poolVars
<1>3. /\ step' \in [Workers -> Steps] /\ step[w] = "resume" /\ step'[w] = "body"
      /\ \A u \in Workers \ {w} : step'[u] = step[u]
  BY <1>1, GotoRules DEF FInv, FiberTypes, Steps
<1>4. f \in Fibers /\ f \in Coroutines
  BY <1>3, FiberNames DEF FInv, FiberTypes
<1> HIDE DEF f
<1>5. /\ CoroutineTypeOK' /\ current'[w] = f
      /\ \A u \in Workers \ {w} : current'[u] = current[u]
      /\ last'[f] = current[w] /\ \A d \in Coroutines \ {f} : last'[d] = last[d]
      /\ \A d \in Coroutines \ {f} : phase'[d] = phase[d]
  BY <1>1, <1>4, ResumeRules DEF FInv, FiberTypes
<1>6. Dispatchers' = Dispatchers
  BY <1>3 DEF Dispatchers
<1>7. FiberTypes'
  <2>1. current_fiber' \in [Workers -> Fibers \cup {Nobody}]
    BY <1>1, <1>4 DEF FInv, FiberTypes
  <2>2. current_fiber'[w] = f /\ \A u \in Workers \ {w} : current_fiber'[u] = current_fiber[u]
    BY <1>1 DEF FInv, FiberTypes
  <2>3. \A u \in Workers :
          /\ dispatching'[u] = Nobody <=> step'[u] \in {"run", "gone"}
          /\ current_fiber'[u] = IF step'[u] \in {"body", "suspend", "check"}
                                   THEN dispatching'[u] ELSE Nobody
    BY <1>1, <1>3, <2>2 DEF FInv, FiberTypes, f
  <2> QED BY <1>1, <1>3, <1>5, <2>1, <2>3 DEF FInv, FiberTypes
<1>8. Handlers'
  <2>1. \A u \in Workers \ {w} : dispatching[u] # f
    BY <1>4, FiberNames DEF FInv, Handlers, OneDispatcher, f
  <2>2. /\ ~Yielded(w)' /\ ~Yielded(w)
        /\ \A u \in Workers \ {w} : Yielded(u)' <=> Yielded(u)
    BY <1>1, <1>3, <1>5, <2>1, FiberNames DEF Yielded, FInv, FiberTypes
  <2>3. \A u \in Workers, g \in Fibers :
          In(g, deferred'[u]) <=> dispatching'[u] = g /\ Yielded(u)'
    BY <1>1, <1>2, <2>2 DEF FInv, Handlers
  <2> QED BY <1>1, <1>2, <1>3, <2>3 DEF FInv, Handlers, OneDispatcher
<1>9. Callers'
  <2>1. current[w] = Nobody
    BY <1>3 DEF FInv, Callers
  <2>2. \A g \in Fibers : last'[g] = Nobody
    BY <1>5, <2>1, FiberNames DEF FInv, Callers
  <2>3. ASSUME NEW u \in Workers \ {w}, current[u] \in Coroutines \ Fibers
        PROVE  last'[current[u]] = last[current[u]]
    BY <1>4, <1>5, <2>3
  <2> QED BY <1>1, <1>2, <1>3, <1>4, <1>5, <2>2, <2>3, FiberNames DEF FInv, Callers, f
<1>10. Ends'
  BY <1>2, <1>3 DEF FInv, Ends
<1>11. FiberPool'
  BY <1>2, <1>6 DEF FInv, FiberPool
<1> QED BY <1>7, <1>8, <1>9, <1>10, <1>11 DEF FInv

LEMMA AfterResumeInv ==
    ASSUME FInv, NEW w \in Workers, AfterResume(w) PROVE FInv'
<1> DEFINE f == dispatching[w]
<1>1. /\ Goto(w, "check", "finish")
      /\ current_fiber' = [current_fiber EXCEPT ![w] = Nobody]
      /\ life' = IF phase[f] = "completed" THEN [life EXCEPT ![f] = "deleted"] ELSE life
      /\ UNCHANGED <<coroutineVars, poolVars, dispatching>>
  BY DEF AfterResume, Destroys, IsCompleted
<1>2. UNCHANGED <<ready, deferred, outstanding, stopped, owner, terminated,
                  current, last, phase>>
  BY <1>1 DEF poolVars, coroutineVars
<1>3. /\ step' \in [Workers -> Steps] /\ step[w] = "check" /\ step'[w] = "finish"
      /\ \A u \in Workers \ {w} : step'[u] = step[u]
  BY <1>1, GotoRules DEF FInv, FiberTypes, Steps
<1>4. f \in Fibers /\ \A u \in Workers \ {w} : dispatching[u] # f
  BY <1>3, FiberNames DEF FInv, FiberTypes, Handlers, OneDispatcher
<1>5. life[f] = "live" /\ ~In(f, ready)
  BY <1>3, <1>4, FiberNames DEF FInv, Handlers
<1>6. /\ life' \in [Fibers -> {"new", "live", "deleted"}]
      /\ life'[f] = IF phase[f] = "completed" THEN "deleted" ELSE "live"
      /\ \A g \in Fibers \ {f} : life'[g] = life[g]
  BY <1>1, <1>4, <1>5 DEF FInv, FiberTypes
<1> HIDE DEF f
<1>7. FiberTypes'
  <2>1. current_fiber' \in [Workers -> Fibers \cup {Nobody}]
    BY <1>1 DEF FInv, FiberTypes
  <2>2. current_fiber'[w] = Nobody /\ \A u \in Workers \ {w} : current_fiber'[u] = current_fiber[u]
    BY <1>1 DEF FInv, FiberTypes
  <2>3. \A u \in Workers :
          /\ dispatching'[u] = Nobody <=> step'[u] \in {"run", "gone"}
          /\ current_fiber'[u] = IF step'[u] \in {"body", "suspend", "check"}
                                   THEN dispatching'[u] ELSE Nobody
    BY <1>1, <1>3, <2>2 DEF FInv, FiberTypes
  <2> QED BY <1>1, <1>2, <1>3, <1>6, <2>1, <2>3 DEF FInv, FiberTypes, CoroutineTypeOK
<1>8. Handlers'
  <2>1. Yielded(w)' <=> Yielded(w)
    BY <1>1, <1>2, <1>3, <1>5, <1>6 DEF Yielded, f
  <2>2. \A u \in Workers \ {w} : Yielded(u)' <=> Yielded(u)
    BY <1>1, <1>2, <1>3, <1>4, <1>6 DEF Yielded, FInv, FiberTypes
  <2>3. \A u \in Workers, g \in Fibers :
          In(g, deferred'[u]) <=> dispatching'[u] = g /\ Yielded(u)'
    BY <1>1, <1>2, <2>1, <2>2 DEF FInv, Handlers
  <2>4. \A g \in Fibers :
          /\ In(g, ready') => life'[g] = "live" /\ \A u \in Workers : dispatching'[u] # g
          /\ life'[g] = "live" => In(g, ready') \/ \E u \in Workers : dispatching'[u] = g
    BY <1>1, <1>2, <1>5, <1>6 DEF FInv, Handlers, f
  <2>5. \A u \in Workers :
          dispatching'[u] # Nobody =>
            \/ life'[dispatching'[u]] = "live"
            \/ step'[u] = "finish" /\ life'[dispatching'[u]] = "deleted"
    BY <1>1, <1>3, <1>4, <1>5, <1>6 DEF FInv, FiberTypes, Handlers, f
  <2> QED BY <1>1, <1>2, <2>3, <2>4, <2>5 DEF FInv, Handlers, OneDispatcher
<1>9. Callers'
  BY <1>1, <1>2, <1>3 DEF FInv, Callers
<1>10. Ends'
  BY <1>2, <1>3 DEF FInv, Ends
<1>11. FiberPool'
  <2>1. Dispatchers' = Dispatchers
    BY <1>3 DEF Dispatchers
  <2> QED BY <1>2, <2>1 DEF FInv, FiberPool
<1> QED BY <1>7, <1>8, <1>9, <1>10, <1>11 DEF FInv

LEMMA HandlerReturnsInv ==
    ASSUME FInv, NEW w \in Workers, HandlerReturns(w) PROVE FInv'
<1> DEFINE f == dispatching[w]
<1>1. /\ FinishHandler(w) /\ Goto(w, "finish", "run")
      /\ dispatching' = [dispatching EXCEPT ![w] = Nobody]
      /\ UNCHANGED <<current, last, phase, current_fiber, life>>
  BY DEF HandlerReturns, coroutineVars
<1>2. UNCHANGED <<owner, terminated>>
  BY <1>1 DEF FinishHandler
<1>3. /\ step' \in [Workers -> Steps] /\ step[w] = "finish" /\ step'[w] = "run"
      /\ \A u \in Workers \ {w} : step'[u] = step[u]
  BY <1>1, GotoRules DEF FInv, FiberTypes, Steps
<1>4. f \in Fibers /\ \A u \in Workers \ {w} : dispatching[u] # f
  BY <1>3, FiberNames DEF FInv, FiberTypes, Handlers, OneDispatcher
<1>5. Dispatchers' = Dispatchers \ {w} /\ w \in Dispatchers
  BY <1>3 DEF Dispatchers
<1>6. /\ FiberPool'
      /\ stopped' => ready' = <<>> /\ Dispatchers = {w}
      /\ \A y : In(y, ready') <=> In(y, ready) \/ In(y, deferred[w])
      /\ Distinct(ready') <=> /\ Distinct(ready) /\ Distinct(deferred[w])
                              /\ \A y : ~(In(y, ready) /\ In(y, deferred[w]))
      /\ deferred'[w] = <<>> /\ \A u \in Workers \ {w} : deferred'[u] = deferred[u]
  BY <1>1, <1>5, FinishFits DEF FInv, FiberPool
<1>7. dispatching'[w] = Nobody /\ \A u \in Workers \ {w} : dispatching'[u] = dispatching[u]
  BY <1>1 DEF FInv, FiberTypes
<1> HIDE DEF f
<1>8. FiberTypes'
  <2>1. dispatching' \in [Workers -> Fibers \cup {Nobody}]
    BY <1>1 DEF FInv, FiberTypes
  <2>2. \A u \in Workers :
          /\ dispatching'[u] = Nobody <=> step'[u] \in {"run", "gone"}
          /\ current_fiber'[u] = IF step'[u] \in {"body", "suspend", "check"}
                                   THEN dispatching'[u] ELSE Nobody
    BY <1>1, <1>3, <1>7 DEF FInv, FiberTypes
  <2> QED BY <1>1, <1>3, <2>1, <2>2 DEF FInv, FiberTypes, CoroutineTypeOK
<1>9. Handlers'
  <2>1. \A g \in Fibers : In(g, deferred[w]) <=> g = f /\ life[f] = "live"
    BY <1>3, <1>4 DEF FInv, Handlers, Yielded, f
  <2>2. \A u \in Workers \ {w} : Yielded(u)' <=> Yielded(u)
    BY <1>1, <1>3, <1>7 DEF Yielded
  <2>3. \A u \in Workers, g \in Fibers :
          In(g, deferred'[u]) <=> dispatching'[u] = g /\ Yielded(u)'
    <3>1. \A g : ~In(g, <<>>)
      BY DEF In
    <3> QED BY <1>6, <1>7, <2>2, <3>1, FiberNames DEF FInv, Handlers
  <2>4. \A g \in Fibers :
          /\ In(g, ready') => life'[g] = "live" /\ \A u \in Workers : dispatching'[u] # g
          /\ life'[g] = "live" => In(g, ready') \/ \E u \in Workers : dispatching'[u] = g
    BY <1>1, <1>4, <1>6, <1>7, <2>1, FiberNames DEF FInv, Handlers, f
  <2>5. \A u \in Workers :
          dispatching'[u] # Nobody =>
            \/ life'[dispatching'[u]] = "live"
            \/ step'[u] = "finish" /\ life'[dispatching'[u]] = "deleted"
    BY <1>1, <1>3, <1>7 DEF FInv, Handlers
  <2>6. OneDispatcher'
    BY <1>7 DEF FInv, Handlers, OneDispatcher
  <2>7. /\ Distinct(ready) /\ Distinct(deferred[w]) /\ \A u \in Workers : Distinct(deferred[u])
        /\ Distinct(<<>>) /\ \A g \in Fibers : In(g, ready) => g # f
    BY <1>4 DEF FInv, Handlers, Distinct, f
  <2>8. \A y : In(y, ready) => y \in Fibers
    BY ElementOfSeq, LenProperties DEF FInv, FiberPool, PoolFits, In
  <2> QED BY <1>6, <2>1, <2>3, <2>4, <2>5, <2>6, <2>7, <2>8 DEF Handlers
<1>10. Callers'
  BY <1>1, <1>2, <1>3, <1>7, FiberNames DEF FInv, Callers
<1>11. Ends'
  <2>1. ~stopped
    BY <1>5 DEF FInv, FiberPool, PoolFits
  <2> QED BY <1>2, <1>3, <1>6, <2>1 DEF FInv, Ends
<1> QED BY <1>6, <1>8, <1>9, <1>10, <1>11 DEF FInv

LEMMA YieldsInv ==
    ASSUME FInv, NEW w \in Workers, Yields(w) PROVE FInv'
<1> DEFINE f == dispatching[w]
<1>1. /\ SubmitContinuation(w, current_fiber[w]) /\ Goto(w, "body", "suspend")
      /\ current[w] \in Fibers
      /\ UNCHANGED <<current, last, phase, dispatching, current_fiber, life>>
  BY DEF Yields, coroutineVars
<1>2. UNCHANGED <<ready, outstanding, stopped, owner, terminated>>
  BY <1>1 DEF SubmitContinuation
<1>3. /\ step' \in [Workers -> Steps] /\ step[w] = "body" /\ step'[w] = "suspend"
      /\ \A u \in Workers \ {w} : step'[u] = step[u]
  BY <1>1, GotoRules DEF FInv, FiberTypes, Steps
<1>4. /\ current_fiber[w] = f /\ f \in Fibers /\ current[w] = f
      /\ Dispatchers' = Dispatchers /\ w \in Dispatchers
  BY <1>1, <1>3, FiberNames DEF FInv, FiberTypes, Callers, Dispatchers
<1> HIDE DEF f
<1>5. /\ FiberPool'
      /\ \A y : In(y, deferred'[w]) <=> In(y, deferred[w]) \/ y = f
      /\ Distinct(deferred'[w]) <=> Distinct(deferred[w]) /\ ~In(f, deferred[w])
      /\ \A u \in Workers \ {w} : deferred'[u] = deferred[u]
  BY <1>1, <1>4, ContinuationFits DEF FInv, FiberPool
<1>6. FiberTypes'
  BY <1>1, <1>3 DEF FInv, FiberTypes, CoroutineTypeOK
<1>7. Handlers'
  <2>1. /\ Yielded(w)' /\ ~Yielded(w)
        /\ \A u \in Workers \ {w} : Yielded(u)' <=> Yielded(u)
    BY <1>1, <1>3 DEF Yielded
  <2>2. \A u \in Workers, g \in Fibers :
          In(g, deferred'[u]) <=> dispatching'[u] = g /\ Yielded(u)'
    BY <1>1, <1>5, <2>1 DEF FInv, Handlers, f
  <2>3. \A u \in Workers : Distinct(deferred'[u])
    BY <1>4, <1>5, <2>1 DEF FInv, Handlers
  <2> QED BY <1>1, <1>2, <1>3, <2>2, <2>3 DEF FInv, Handlers, OneDispatcher
<1>8. Callers'
  BY <1>1, <1>2, <1>3, <1>4 DEF FInv, Callers, f
<1>9. Ends'
  BY <1>2, <1>3 DEF FInv, Ends
<1> QED BY <1>5, <1>6, <1>7, <1>8, <1>9 DEF FInv

(* Suspends and Returns: the fiber switches back to its Dispatch. *)
LEMMA SwitchesToDispatchInv ==
    ASSUME FInv, NEW w \in Workers, NEW a \in {"body", "suspend"}, NEW p \in Phases,
           a = "body" <=> p = "completed",
           Goto(w, a, "check"), current[w] \in Fibers, SwitchBack(w, p),
           UNCHANGED <<poolVars, dispatching, current_fiber, life>>
    PROVE  FInv'
<1> DEFINE f == dispatching[w]
<1>1. UNCHANGED <<ready, deferred, outstanding, stopped, owner, terminated>>
  BY DEF poolVars
<1>2. /\ step' \in [Workers -> Steps] /\ step[w] = a /\ step'[w] = "check"
      /\ \A u \in Workers \ {w} : step'[u] = step[u]
  BY GotoRules DEF FInv, FiberTypes, Steps
<1>3. /\ f \in Fibers /\ current[w] = f /\ last[f] = Nobody /\ f \in Coroutines
      /\ \A u \in Workers \ {w} : dispatching[u] # f
  BY FiberNames DEF FInv, FiberTypes, Handlers, OneDispatcher, Callers
<1> HIDE DEF f
<1>4. /\ CoroutineTypeOK' /\ current'[w] = Nobody
      /\ \A u \in Workers \ {w} : current'[u] = current[u]
      /\ last'[f] = Nobody /\ \A d \in Coroutines \ {f} : last'[d] = last[d]
      /\ phase'[f] = p /\ \A d \in Coroutines \ {f} : phase'[d] = phase[d]
  <2>1. current[w] \in Coroutines
    BY <1>3
  <2> QED BY <1>3, <2>1, SwitchBackRules DEF FInv, FiberTypes
<1>5. FiberTypes'
  BY <1>2, <1>4 DEF FInv, FiberTypes
<1>6. Handlers'
  <2>1. Yielded(w)' <=> Yielded(w)
    BY <1>2, <1>4 DEF Yielded, f
  <2>2. \A u \in Workers \ {w} : Yielded(u)' <=> Yielded(u)
    BY <1>2, <1>3, <1>4, FiberNames DEF Yielded, FInv, FiberTypes
  <2>3. \A u \in Workers, g \in Fibers :
          In(g, deferred'[u]) <=> dispatching'[u] = g /\ Yielded(u)'
    BY <1>1, <2>1, <2>2 DEF FInv, Handlers
  <2> QED BY <1>1, <1>2, <2>3 DEF FInv, Handlers, OneDispatcher
<1>7. Callers'
  <2>1. \A g \in Fibers : last'[g] = Nobody
    BY <1>4, FiberNames DEF FInv, Callers
  <2>2. ASSUME NEW u \in Workers \ {w}, current[u] \in Coroutines \ Fibers
        PROVE  last'[current[u]] = last[current[u]]
    BY <1>3, <1>4, <2>2
  <2> QED BY <1>1, <1>2, <1>4, <2>1, <2>2, FiberNames DEF FInv, Callers
<1>8. Ends'
  BY <1>1, <1>2 DEF FInv, Ends
<1>9. FiberPool'
  <2>1. Dispatchers' = Dispatchers
    BY <1>2 DEF Dispatchers
  <2> QED BY <1>1, <2>1 DEF FInv, FiberPool
<1> QED BY <1>5, <1>6, <1>7, <1>8, <1>9 DEF FInv

LEMMA ThrowsInv ==
    ASSUME FInv, NEW w \in Workers, Throws(w) PROVE FInv'
<1> DEFINE f == dispatching[w]
<1>1. /\ step[w] = "body" /\ current[w] \in Fibers /\ SwitchBack(w, "completed")
      /\ UNCHANGED <<ready, deferred, outstanding, stopped, owner, step, dispatching,
                     current_fiber, life>>
      /\ terminated' = TRUE
  BY DEF Throws, HandlerThrows, Complete, fiberVars
<1>2. /\ f \in Fibers /\ current[w] = f /\ last[f] = Nobody /\ f \in Coroutines
      /\ \A u \in Workers \ {w} : dispatching[u] # f
  BY <1>1, FiberNames DEF FInv, FiberTypes, Handlers, OneDispatcher, Callers
<1> HIDE DEF f
<1>3. /\ CoroutineTypeOK' /\ current'[w] = Nobody
      /\ \A u \in Workers \ {w} : current'[u] = current[u]
      /\ last'[f] = Nobody /\ \A d \in Coroutines \ {f} : last'[d] = last[d]
      /\ \A d \in Coroutines \ {f} : phase'[d] = phase[d]
  <2>1. current[w] \in Coroutines /\ "completed" \in Phases
    BY <1>2 DEF Phases
  <2> QED BY <1>1, <1>2, <2>1, SwitchBackRules DEF FInv, FiberTypes
<1>4. FiberTypes'
  BY <1>1, <1>3 DEF FInv, FiberTypes
<1>5. Handlers'
  <2>1. Yielded(w)' <=> Yielded(w)
    BY <1>1 DEF Yielded
  <2>2. \A u \in Workers \ {w} : Yielded(u)' <=> Yielded(u)
    BY <1>1, <1>2, <1>3, FiberNames DEF Yielded, FInv, FiberTypes
  <2>3. \A u \in Workers, g \in Fibers :
          In(g, deferred'[u]) <=> dispatching'[u] = g /\ Yielded(u)'
    BY <1>1, <2>1, <2>2 DEF FInv, Handlers
  <2> QED BY <1>1, <2>3 DEF FInv, Handlers, OneDispatcher
<1>6. Callers'
  <2>1. \A g \in Fibers : last'[g] = Nobody
    BY <1>3, FiberNames DEF FInv, Callers
  <2>2. ASSUME NEW u \in Workers \ {w}, current[u] \in Coroutines \ Fibers
        PROVE  last'[current[u]] = last[current[u]]
    BY <1>2, <1>3, <2>2
  <2> QED BY <1>1, <1>3, <2>1, <2>2, FiberNames DEF FInv, Callers
<1>7. Ends'
  BY <1>1 DEF FInv, Ends
<1>8. FiberPool'
  <2>1. Dispatchers' = Dispatchers
    BY <1>1 DEF Dispatchers
  <2> QED BY <1>1, <2>1 DEF FInv, FiberPool
<1> QED BY <1>4, <1>5, <1>6, <1>7, <1>8 DEF FInv

(* A coroutine of a routine's own changes none of the handlers. *)
LEMMA NestedKeepsHandlers ==
    ASSUME FInv, NEW c \in Coroutines \ Fibers,
           \A d \in Coroutines \ {c} : phase'[d] = phase[d],
           UNCHANGED <<poolVars, step, dispatching, current_fiber, life>>
    PROVE  Handlers' /\ Ends' /\ FiberPool'
<1>1. UNCHANGED <<ready, deferred, outstanding, stopped, owner, terminated>>
  BY DEF poolVars
<1>2. \A u \in Workers : Yielded(u)' <=> Yielded(u)
  BY FiberNames DEF Yielded, FInv, FiberTypes
<1>3. \A u \in Workers, g \in Fibers :
        In(g, deferred'[u]) <=> dispatching'[u] = g /\ Yielded(u)'
  BY <1>1, <1>2 DEF FInv, Handlers
<1>4. Dispatchers' = Dispatchers
  BY DEF Dispatchers
<1> QED BY <1>1, <1>3, <1>4 DEF FInv, Handlers, OneDispatcher, Ends, FiberPool

(* Two workers never dispatch fibers that resume the same coroutine. *)
LEMMA NestedApart ==
    ASSUME FInv, NEW w \in Workers, NEW u \in Workers \ {w},
           dispatching[w] \in Fibers, dispatching[u] \in Fibers,
           Nested[dispatching[w]] # Nobody
    PROVE  Nested[dispatching[w]] # Nested[dispatching[u]]
<1>1. dispatching[w] # dispatching[u]
  BY FiberNames DEF FInv, Handlers, OneDispatcher
<1> QED BY <1>1, FibersAssumption

LEMMA ResumesNestedInv ==
    ASSUME FInv, NEW w \in Workers, ResumesNested(w) PROVE FInv'
<1> DEFINE f == dispatching[w]
           c == Nested[f]
<1>1. /\ step[w] = "body" /\ current[w] \in Fibers /\ current[w] = f /\ c # Nobody
      /\ Resume(w, c)
      /\ UNCHANGED <<poolVars, step, dispatching, current_fiber, life>>
  BY DEF ResumesNested, FInv, Callers
<1>2. c \in Coroutines \ Fibers
  BY <1>1, FibersAssumption
<1> HIDE DEF f, c
<1>3. /\ CoroutineTypeOK' /\ current'[w] = c
      /\ \A u \in Workers \ {w} : current'[u] = current[u]
      /\ last'[c] = f /\ \A d \in Coroutines \ {c} : last'[d] = last[d]
      /\ \A d \in Coroutines \ {c} : phase'[d] = phase[d]
  BY <1>1, <1>2, ResumeRules DEF FInv, FiberTypes
<1>4. FiberTypes'
  BY <1>1, <1>3 DEF FInv, FiberTypes
<1>5. Handlers' /\ Ends' /\ FiberPool'
  BY <1>1, <1>2, <1>3, NestedKeepsHandlers
<1>6. Callers'
  <2>1. \A g \in Fibers : last'[g] = Nobody
    BY <1>2, <1>3, FiberNames DEF FInv, Callers
  <2>2. ASSUME NEW u \in Workers \ {w}, current[u] \in Coroutines \ Fibers
        PROVE  last'[current[u]] = last[current[u]]
    <3>1. current[u] = Nested[dispatching[u]] /\ step[u] \in {"body", "suspend"}
      BY <2>2, FiberNames DEF FInv, Callers
    <3>2. dispatching[u] \in Fibers /\ dispatching[w] \in Fibers
      BY <1>1, <3>1 DEF FInv, FiberTypes
    <3>3. current[u] # c
      BY <1>1, <3>1, <3>2, NestedApart DEF c, f
    <3> QED BY <1>3, <2>2, <3>3
  <2>3. UNCHANGED <<step, dispatching, terminated>>
    BY <1>1 DEF poolVars
  <2>4. c = Nested[dispatching[w]] /\ f = dispatching[w] /\ c \notin Fibers /\ c # Nobody
    BY <1>1, <1>2 DEF c, f
  <2> QED BY <1>1, <1>3, <2>1, <2>2, <2>3, <2>4, FiberNames DEF FInv, Callers
<1> QED BY <1>4, <1>5, <1>6 DEF FInv

LEMMA NestedSwitchesInv ==
    ASSUME FInv, NEW w \in Workers, NestedSwitches(w) PROVE FInv'
<1> DEFINE f == dispatching[w]
           c == current[w]
<1>1. /\ step[w] = "body" /\ c \in Coroutines \ Fibers
      /\ c = Nested[f] /\ last[c] = f
      /\ \E p \in Phases : SwitchBack(w, p)
      /\ UNCHANGED <<poolVars, step, dispatching, current_fiber, life>>
  BY DEF NestedSwitches, Suspend, Complete, Phases, fiberVars, FInv, Callers
<1>2. f \in Fibers /\ c # Nobody
  BY <1>1, FiberNames DEF FInv, FiberTypes
<1>3. /\ CoroutineTypeOK' /\ current'[w] = f
      /\ \A u \in Workers \ {w} : current'[u] = current[u]
      /\ \A d \in Coroutines \ {c} : last'[d] = last[d] /\ phase'[d] = phase[d]
  BY <1>1, SwitchBackRules DEF FInv, FiberTypes
<1> HIDE DEF f, c
<1>4. FiberTypes'
  BY <1>1, <1>3 DEF FInv, FiberTypes
<1>5. Handlers' /\ Ends' /\ FiberPool'
  BY <1>1, <1>3, NestedKeepsHandlers
<1>6. Callers'
  <2>1. \A g \in Fibers : last'[g] = Nobody
    BY <1>1, <1>3, FiberNames DEF FInv, Callers
  <2>2. ASSUME NEW u \in Workers \ {w}, current[u] \in Coroutines \ Fibers
        PROVE  last'[current[u]] = last[current[u]]
    <3>1. current[u] = Nested[dispatching[u]] /\ step[u] \in {"body", "suspend"}
      BY <2>2, FiberNames DEF FInv, Callers
    <3>2. dispatching[u] \in Fibers /\ dispatching[w] \in Fibers
      BY <1>1, <1>2, <3>1 DEF FInv, FiberTypes, f
    <3>3. current[u] # c
      BY <1>1, <1>2, <3>1, <3>2, NestedApart DEF f
    <3> QED BY <1>3, <2>2, <3>3
  <2>3. UNCHANGED <<step, dispatching, terminated>>
    BY <1>1 DEF poolVars
  <2> QED BY <1>1, <1>2, <1>3, <2>1, <2>2, <2>3, FiberNames DEF FInv, Callers, f
<1> QED BY <1>4, <1>5, <1>6 DEF FInv

LEMMA FInvNext == FInv /\ [Next]_vars => FInv'
<1> SUFFICES ASSUME FInv, [Next]_vars PROVE FInv'
  OBVIOUS
<1> DEFINE PoolSame == UNCHANGED <<ready, deferred, outstanding, stopped>>
           FibersSame == UNCHANGED <<current, last, phase, step, dispatching, current_fiber, life>>
<1>1. ASSUME PoolSame, FibersSame, owner' = owner, terminated' = terminated PROVE FInv'
  BY <1>1 DEF FInv, FiberTypes, CoroutineTypeOK, FiberPool, Dispatchers, Handlers,
              Yielded, OneDispatcher, Callers, Ends
<1>2. CASE UNCHANGED vars
  BY <1>1, <1>2 DEF vars, coroutineVars, poolVars, fiberVars
<1>3. CASE SpawnOutside
  BY <1>3, SpawnInv DEF SpawnOutside, FInv, FiberPool, PoolFits
<1>4. ASSUME NEW w \in Workers, SpawnInside(w) PROVE FInv'
  <2>1. w \in Dispatchers
    BY <1>4 DEF SpawnInside, Dispatchers
  <2> QED BY <1>4, <2>1, SpawnInv DEF SpawnInside, FInv, FiberPool, PoolFits
<1>5. ASSUME NEW w \in Workers, Suspends(w) PROVE FInv'
  <2>1. current[w] \in Fibers
    BY <1>5 DEF Suspends, Goto, FInv, FiberTypes, Callers
  <2> QED BY <1>5, <2>1, SwitchesToDispatchInv DEF Suspends, Suspend, Phases
<1>6. ASSUME NEW w \in Workers, Returns(w) PROVE FInv'
  BY <1>6, SwitchesToDispatchInv DEF Returns, Complete, Phases
<1>7. ASSUME NEW w \in Workers, Leaves(w) PROVE FInv'
  <2>1. /\ step' \in [Workers -> Steps] /\ step[w] = "run" /\ step'[w] = "gone"
        /\ \A u \in Workers \ {w} : step'[u] = step[u]
    BY <1>7, GotoRules DEF Leaves, FInv, FiberTypes, Steps
  <2>2. /\ stopped
        /\ UNCHANGED <<ready, deferred, outstanding, stopped, owner, terminated, current,
                       last, phase, dispatching, current_fiber, life>>
    BY <1>7 DEF Leaves, coroutineVars, poolVars
  <2>3. Dispatchers' = Dispatchers /\ \A u \in Workers : Yielded(u)' <=> Yielded(u)
    BY <2>1, <2>2 DEF Dispatchers, Yielded
  <2>4. FiberTypes' /\ Callers'
    BY <2>1, <2>2 DEF FInv, FiberTypes, CoroutineTypeOK, Callers
  <2>5. Handlers'
    <3>1. \A u \in Workers, f \in Fibers :
            In(f, deferred'[u]) <=> dispatching'[u] = f /\ Yielded(u)'
      BY <2>2, <2>3 DEF FInv, Handlers
    <3>2. dispatching[w] = Nobody
      BY <2>1 DEF FInv, FiberTypes
    <3> QED BY <2>1, <2>2, <3>1, <3>2 DEF FInv, Handlers, OneDispatcher
  <2> QED BY <2>2, <2>3, <2>4, <2>5 DEF FInv, FiberPool, Ends
<1>8. CASE Join
  <2>1. /\ JoinResetsGuard /\ FibersSame
        /\ UNCHANGED <<ready, deferred, terminated>> /\ owner = "open" /\ owner' = "joining"
    BY <1>8 DEF Join, JoinResetsGuard, coroutineVars, fiberVars
  <2>2. Dispatchers' = Dispatchers
    BY <2>1 DEF Dispatchers
  <2>3. /\ FiberPool'
        /\ stopped' => ready = <<>> /\ Dispatchers = {}
    BY <2>1, <2>2, ResetFits DEF FInv, FiberPool
  <2>4. \A w \in Workers : step[w] # "gone"
    BY <2>1 DEF FInv, FiberPool, PoolFits, Ends
  <2>5. Ends' /\ FiberTypes' /\ Callers'
    BY <2>1, <2>3, <2>4 DEF FInv, Ends, FiberTypes, CoroutineTypeOK, Callers
  <2>6. Handlers'
    BY <2>1 DEF FInv, Handlers, OneDispatcher, Yielded
  <2> QED BY <2>3, <2>5, <2>6 DEF FInv
<1>9. CASE Joins
  <2>1. /\ PoolSame /\ FibersSame /\ terminated' = terminated
        /\ owner = "joining" /\ owner' = "joined" /\ \A w \in Workers : step[w] = "gone"
    BY <1>9 DEF Joins, JoinReturns, coroutineVars, fiberVars
  <2>2. stopped
    BY <2>1, EventLoopAssumption DEF FInv, Ends
  <2>3. FiberPool'
    <3>1. PoolFits(Fibers, ready, deferred, outstanding, stopped, owner', Dispatchers)
      BY <2>1 DEF FInv, FiberPool, PoolFits
    <3> QED BY <2>1, <3>1 DEF FiberPool, Dispatchers
  <2>4. FiberTypes' /\ Callers' /\ Ends'
    BY <2>1, <2>2 DEF FInv, FiberTypes, CoroutineTypeOK, Callers, Ends
  <2>5. Handlers'
    BY <2>1 DEF FInv, Handlers, OneDispatcher, Yielded
  <2> QED BY <2>3, <2>4, <2>5 DEF FInv
<1> QED BY <1>2, <1>3, <1>4, <1>5, <1>6, <1>7, <1>8, <1>9, TakesInv, DispatchesInv,
           AfterResumeInv, HandlerReturnsInv, YieldsInv, ThrowsInv, ResumesNestedInv,
           NestedSwitchesInv DEF Next, Continue

LEMMA FInvAlways == Spec => []FInv
  BY FInvInit, FInvNext, PTL DEF Spec

----------------------------------------------------------------------------
(* What follows *)

LEMMA HandlersFollow == ASSUME FInv PROVE HandlersOwnFibers
<1> DEFINE Queued == {ready[i] : i \in DOMAIN ready}
                       \cup UNION {{deferred[w][i] : i \in DOMAIN deferred[w]} : w \in Workers}
           Running == {dispatching[w] : w \in {u \in Workers : step[u] # "finish"}} \ {Nobody}
<1>1. ASSUME NEW f \in Fibers
      PROVE  /\ f \in Queued <=> In(f, ready) \/ \E w \in Workers : In(f, deferred[w])
             /\ f \in Running <=> \E w \in Workers : dispatching[w] = f /\ step[w] # "finish"
  BY FiberNames DEF In
<1>2. ASSUME NEW f \in Fibers, life[f] = "live" PROVE f \in Queued \cup Running
  <2>1. CASE In(f, ready)
    BY <1>1, <2>1
  <2>2. ASSUME NEW w \in Workers, dispatching[w] = f PROVE f \in Queued \cup Running
    <3>1. CASE step[w] # "finish"
      BY <1>1, <2>2, <3>1
    <3>2. CASE step[w] = "finish"
      <4>1. In(f, deferred[w])
        BY <1>2, <2>2, <3>2 DEF FInv, Handlers, Yielded
      <4> QED BY <1>1, <4>1
    <3> QED BY <3>1, <3>2
  <2> QED BY <1>2, <2>1, <2>2 DEF FInv, Handlers
<1>3. ASSUME NEW f \in Fibers, f \in Queued \cup Running PROVE life[f] = "live"
  <2>1. ASSUME NEW w \in Workers, In(f, deferred[w]) PROVE life[f] = "live"
    BY <2>1, FiberNames DEF FInv, Handlers, Yielded
  <2>2. ASSUME NEW w \in Workers, dispatching[w] = f, step[w] # "finish" PROVE life[f] = "live"
    BY <2>2, FiberNames DEF FInv, Handlers
  <2> QED BY <1>1, <1>3, <2>1, <2>2 DEF FInv, Handlers
<1> QED BY <1>2, <1>3 DEF HandlersOwnFibers

LEMMA JoinFollows == ASSUME FInv PROVE JoinLosesNothing
<1> SUFFICES ASSUME owner = "joined", NEW f \in Fibers PROVE life[f] # "live"
  BY DEF JoinLosesNothing
<1>1. Dispatchers = {} /\ ready = <<>>
  BY DEF FInv, Ends, FiberPool, PoolFits
<1>2. \A w \in Workers : dispatching[w] = Nobody
  BY <1>1 DEF FInv, FiberTypes, Dispatchers
<1> QED BY <1>1, <1>2, FiberNames DEF FInv, Handlers, In

(* No two workers dispatch one fiber, although it submits its next         *)
(* dispatch while the present one runs: asio::defer keeps that handler     *)
(* with the worker until the dispatch has ended (fiber.cpp:39-44).         *)
THEOREM FibersHaveOneDispatcher == Spec => []OneDispatcher
<1>1. FInv => OneDispatcher
  BY DEF FInv, Handlers
<1> QED BY <1>1, FInvAlways, PTL

(* A handler never outlives its fiber, and no live fiber is forgotten      *)
(* (fiber.cpp:30-49).                                                      *)
THEOREM HandlersAreOwned == Spec => []HandlersOwnFibers
<1>1. FInv => HandlersOwnFibers
  BY HandlersFollow
<1> QED BY <1>1, FInvAlways, PTL

(* Whatever thread a fiber's routine has moved to, the coroutine current   *)
(* there was resumed by the dispatch in progress there (impl.cpp:15-27).   *)
THEOREM CallersAreNested == Spec => []CallersNest
<1>1. FInv => CallersNest
  BY FibersAssumption DEF FInv, FiberTypes, CoroutineTypeOK, Callers, CallersNest
<1> QED BY <1>1, FInvAlways, PTL

(* Join returns after the last fiber, whoever spawned it and when          *)
(* (static_thread_pool.hpp:33-36).                                         *)
THEOREM JoinWaitsForFibers == Spec => []JoinLosesNothing
<1>1. FInv => JoinLosesNothing
  BY JoinFollows
<1> QED BY <1>1, FInvAlways, PTL

----------------------------------------------------------------------------
(* The stacks *)

InPool(s, t) == In(s, pools[t])

Touched == {f \in Fibers : life[f] # "new"}
Deleted == {f \in Fibers : life[f] = "deleted"}

StackTypes ==
    /\ stack \in [Fibers -> Nat] /\ allocated \in Nat
    /\ pools \in [Threads -> Seq(Nat)]

(* The live fibers have a stack each, and no stack is in two places.       *)
StackPlaces ==
    /\ \A f \in Fibers : life[f] = "live" <=> stack[f] # 0
    /\ \A f \in Fibers : stack[f] <= allocated
    /\ \A f, g \in Fibers : stack[f] = stack[g] /\ stack[f] # 0 => f = g
    /\ \A t \in Threads : Distinct(pools[t])
    /\ \A t \in Threads : \A s : InPool(s, t) =>
         /\ s \in 1..allocated
         /\ \A f \in Fibers : stack[f] # s
         /\ \A u \in Threads \ {t} : ~InPool(s, u)
    /\ \A s \in 1..allocated :
         (\E f \in Fibers : stack[f] = s) \/ \E t \in Threads : InPool(s, t)

(* A stack is allocated for a new fiber, and released by a deleted one.    *)
StackCounts ==
    /\ allocated <= Cardinality(Touched)
    /\ \A t \in Threads : Len(pools[t]) <= Cardinality(Deleted)

StackInv == StackTypes /\ StackPlaces /\ StackCounts

LEMMA FiberCounts ==
    ASSUME NEW S, S \subseteq Fibers
    PROVE  /\ IsFiniteSet(S) /\ Cardinality(S) \in Nat
           /\ Cardinality(S) <= Cardinality(Fibers) /\ Cardinality(Fibers) \in Nat
           /\ \A f \in Fibers \ S : Cardinality(S \cup {f}) = Cardinality(S) + 1
  BY FibersAssumption, FS_Subset, FS_CardinalityType, FS_AddElement

LEMMA StackInit == Init => StackInv
<1> SUFFICES ASSUME Init PROVE StackInv
  OBVIOUS
<1>1. /\ allocated = 0 /\ \A f \in Fibers : stack[f] = 0 /\ life[f] = "new"
      /\ \A t \in Threads : pools[t] = <<>>
      /\ Distinct(<<>>) /\ \A s : ~In(s, <<>>) /\ Len(<<>>) = 0
      /\ StackTypes
  BY EmptySeq DEF Init, StackTypes, Distinct, In
<1>2. StackPlaces
  BY <1>1 DEF StackPlaces, InPool
<1>3. StackCounts
  <2>1. Cardinality(Touched) \in Nat /\ Cardinality(Deleted) \in Nat
    BY FiberCounts DEF Touched, Deleted
  <2> QED BY <1>1, <2>1 DEF StackCounts
<1> QED BY <1>1, <1>2, <1>3 DEF StackInv

LEMMA AcquireKeepsStacks ==
    ASSUME FInv, StackInv, NEW t \in Threads, NEW f \in Fibers, life[f] = "new",
           life' = [life EXCEPT ![f] = "live"], AcquireStack(t, f)
    PROVE  StackInv'
<1>1. /\ life'[f] = "live" /\ \A g \in Fibers \ {f} : life'[g] = life[g]
      /\ Deleted' = Deleted /\ Touched' = Touched \cup {f} /\ f \notin Touched
  BY DEF FInv, FiberTypes, Deleted, Touched
<1>2. /\ Cardinality(Touched) \in Nat /\ Cardinality(Touched') = Cardinality(Touched) + 1
  <2>1. Touched \subseteq Fibers
    BY DEF Touched
  <2> QED BY <1>1, <2>1, FiberCounts
<1>3. stack[f] = 0 /\ f \in Fibers
  BY DEF StackInv, StackPlaces
<1>4. CASE pools[t] # <<>>
  <2> DEFINE n == Len(pools[t])
             s == pools[t][n]
             r == SubSeq(pools[t], 1, n - 1)
  <2>1. /\ stack' = [stack EXCEPT ![f] = s] /\ pools' = [pools EXCEPT ![t] = r]
        /\ allocated' = allocated
    BY <1>4 DEF AcquireStack
  <2>2. /\ s \in Nat /\ r \in Seq(Nat) /\ Len(r) = n - 1 /\ n \in Nat
        /\ \A x : In(x, pools[t]) <=> In(x, r) \/ x = s
        /\ Distinct(pools[t]) <=> Distinct(r) /\ ~In(s, r)
    BY <1>4, LastRules, LenProperties DEF StackInv, StackTypes
  <2> HIDE DEF s, r
  <2>3. StackTypes'
    BY <2>1, <2>2 DEF StackInv, StackTypes
  <2>4. /\ stack'[f] = s /\ \A g \in Fibers \ {f} : stack'[g] = stack[g]
        /\ pools'[t] = r /\ \A u \in Threads \ {t} : pools'[u] = pools[u]
    BY <2>1 DEF StackInv, StackTypes
  <2>5. /\ \A u \in Threads : \A x : InPool(x, u)' => InPool(x, u) /\ x # s
        /\ \A u \in Threads : \A x : InPool(x, u) /\ x # s => InPool(x, u)'
        /\ InPool(s, t)
    <3>1. InPool(s, t) /\ ~In(s, r) /\ \A u \in Threads \ {t} : ~InPool(s, u)
      BY <2>2 DEF StackInv, StackPlaces, InPool
    <3>2. \A x : InPool(x, t)' <=> InPool(x, t) /\ x # s
      BY <2>2, <2>4, <3>1 DEF InPool
    <3>3. \A u \in Threads \ {t} : \A x : InPool(x, u)' <=> InPool(x, u)
      BY <2>4 DEF InPool
    <3>4. ASSUME NEW u \in Threads, NEW x
          PROVE  (InPool(x, u)' => InPool(x, u) /\ x # s) /\ (InPool(x, u) /\ x # s => InPool(x, u)')
      BY <3>1, <3>2, <3>3
    <3>5. InPool(s, t)
      BY <3>1
    <3> QED BY <3>4, <3>5, Zenon
  <2>6. s \in 1..allocated /\ \A g \in Fibers : stack[g] # s
    BY <2>5 DEF StackInv, StackPlaces
  <2>7. StackPlaces'
    <3>1. /\ \A g \in Fibers : life'[g] = "live" <=> stack'[g] # 0
          /\ \A g \in Fibers : stack'[g] <= allocated'
      BY <1>1, <2>1, <2>4, <2>6 DEF StackInv, StackPlaces, StackTypes
    <3>2. ASSUME NEW g \in Fibers, NEW h \in Fibers, stack'[g] = stack'[h], stack'[g] # 0
          PROVE  g = h
      BY <2>4, <2>6, <3>2 DEF StackInv, StackPlaces
    <3>3. \A u \in Threads : Distinct(pools'[u])
      BY <2>2, <2>4 DEF StackInv, StackPlaces
    <3>4. \A u \in Threads : \A x : InPool(x, u)' =>
            /\ x \in 1..allocated'
            /\ \A g \in Fibers : stack'[g] # x
            /\ \A v \in Threads \ {u} : ~InPool(x, v)'
      BY <2>1, <2>4, <2>5 DEF StackInv, StackPlaces
    <3>5. ASSUME NEW x \in 1..allocated'
          PROVE  (\E g \in Fibers : stack'[g] = x) \/ \E u \in Threads : InPool(x, u)'
      <4>1. CASE x = s
        BY <2>4, <4>1
      <4>2. ASSUME NEW g \in Fibers, stack[g] = x PROVE stack'[g] = x
        <5>1. g # f
          BY <1>3, <2>1, <3>5, <4>2 DEF StackInv, StackTypes
        <5> QED BY <2>4, <4>2, <5>1
      <4> QED BY <2>1, <2>5, <4>1, <4>2 DEF StackInv, StackPlaces
    <3> QED BY <3>1, <3>2, <3>3, <3>4, <3>5 DEF StackPlaces
  <2>8. StackCounts'
    <3>1. Len(r) <= Cardinality(Deleted)
      <4>1. n <= Cardinality(Deleted) /\ Cardinality(Deleted) \in Nat
        BY FiberCounts DEF StackInv, StackCounts, Deleted
      <4> QED BY <2>2, <4>1
    <3>2. allocated <= Cardinality(Touched')
      BY <1>2 DEF StackInv, StackCounts, StackTypes
    <3> QED BY <1>1, <2>1, <2>4, <3>1, <3>2 DEF StackInv, StackCounts
  <2> QED BY <2>3, <2>7, <2>8 DEF StackInv
<1>5. CASE pools[t] = <<>>
  <2> DEFINE s == allocated + 1
  <2>1. /\ stack' = [stack EXCEPT ![f] = s] /\ pools' = pools /\ allocated' = s
    BY <1>5 DEF AcquireStack
  <2>2. /\ allocated \in Nat /\ s \in Nat /\ s > allocated /\ s # 0
        /\ \A x \in 1..s : x \in 1..allocated \/ x = s
        /\ \A x \in 1..allocated : x \in 1..s /\ x # s /\ x # 0
    BY DEF StackInv, StackTypes
  <2>3. StackTypes'
    BY <2>1, <2>2 DEF StackInv, StackTypes
  <2>4. stack'[f] = s /\ \A g \in Fibers \ {f} : stack'[g] = stack[g]
    BY <2>1 DEF StackInv, StackTypes
  <2>5. \A g \in Fibers : stack[g] \in Nat /\ stack[g] <= allocated /\ stack[g] # s /\ stack[g] <= s
    BY <2>2 DEF StackInv, StackTypes, StackPlaces
  <2> HIDE DEF s
  <2>6. \A u \in Threads : \A x : InPool(x, u)' <=> InPool(x, u)
    BY <2>1 DEF InPool
  <2>7. StackPlaces'
    <3>1. /\ \A g \in Fibers : life'[g] = "live" <=> stack'[g] # 0
          /\ \A g \in Fibers : stack'[g] <= allocated'
      BY <1>1, <2>1, <2>2, <2>4, <2>5 DEF StackInv, StackPlaces
    <3>2. ASSUME NEW g \in Fibers, NEW h \in Fibers, stack'[g] = stack'[h], stack'[g] # 0
          PROVE  g = h
      BY <2>4, <2>5, <3>2 DEF StackInv, StackPlaces
    <3>3. \A u \in Threads : Distinct(pools'[u])
      BY <2>1 DEF StackInv, StackPlaces
    <3>4. \A u \in Threads : \A x : InPool(x, u)' =>
            /\ x \in 1..allocated'
            /\ \A g \in Fibers : stack'[g] # x
            /\ \A v \in Threads \ {u} : ~InPool(x, v)'
      BY <2>1, <2>2, <2>4, <2>6 DEF StackInv, StackPlaces
    <3>5. ASSUME NEW x \in 1..allocated'
          PROVE  (\E g \in Fibers : stack'[g] = x) \/ \E u \in Threads : InPool(x, u)'
      <4>1. CASE x = s
        BY <2>4, <4>1
      <4>2. CASE x \in 1..allocated
        <5>1. ASSUME NEW g \in Fibers, stack[g] = x PROVE stack'[g] = x
          BY <1>3, <2>2, <2>4, <4>2, <5>1
        <5> QED BY <2>6, <4>2, <5>1 DEF StackInv, StackPlaces
      <4> QED BY <2>1, <2>2, <4>1, <4>2
    <3> QED BY <3>1, <3>2, <3>3, <3>4, <3>5 DEF StackPlaces
  <2>8. StackCounts'
    <3>1. s <= Cardinality(Touched')
      BY <1>2, <2>2 DEF StackInv, StackCounts, s
    <3> QED BY <1>1, <2>1, <3>1 DEF StackInv, StackCounts
  <2> QED BY <2>3, <2>7, <2>8 DEF StackInv
<1> QED BY <1>4, <1>5

LEMMA ReleaseKeepsStacks ==
    ASSUME FInv, StackInv, NEW t \in Threads, NEW f \in Fibers, life[f] = "live",
           Destroys(t, f)
    PROVE  StackInv'
<1> DEFINE s == stack[f]
           r == Append(pools[t], s)
<1>1. /\ life' = [life EXCEPT ![f] = "deleted"] /\ allocated' = allocated
      /\ stack' = [stack EXCEPT ![f] = 0] /\ pools' = [pools EXCEPT ![t] = r]
  BY DEF Destroys, ReleaseStack
<1>2. /\ life'[f] = "deleted" /\ \A g \in Fibers \ {f} : life'[g] = life[g]
      /\ Touched' = Touched /\ Deleted' = Deleted \cup {f} /\ f \notin Deleted
  BY <1>1 DEF FInv, FiberTypes, Deleted, Touched
<1>3. Cardinality(Deleted) \in Nat /\ Cardinality(Deleted') = Cardinality(Deleted) + 1
  <2>1. Deleted \subseteq Fibers
    BY DEF Deleted
  <2> QED BY <1>2, <2>1, FiberCounts
<1>4. /\ s \in 1..allocated /\ s # 0 /\ s \in Nat
      /\ \A g \in Fibers \ {f} : stack[g] # s
      /\ \A u \in Threads : ~InPool(s, u)
  BY DEF StackInv, StackTypes, StackPlaces
<1>5. /\ r \in Seq(Nat) /\ Len(r) = Len(pools[t]) + 1 /\ Len(pools[t]) \in Nat
      /\ \A x : In(x, r) <=> In(x, pools[t]) \/ x = s
      /\ Distinct(r) <=> Distinct(pools[t]) /\ ~In(s, pools[t])
  <2> DEFINE q == pools[t]
  <2>1. q \in Seq(Nat) /\ Len(q) \in Nat
    BY LenProperties DEF StackInv, StackTypes
  <2> HIDE DEF q, s
  <2>2. /\ Append(q, s) \in Seq(Nat) /\ Len(Append(q, s)) = Len(q) + 1
        /\ \A x : In(x, Append(q, s)) <=> In(x, q) \/ x = s
        /\ Distinct(Append(q, s)) <=> Distinct(q) /\ ~In(s, q)
    BY <1>4, <2>1, AppendRules
  <2> QED BY <2>1, <2>2 DEF q
<1> HIDE DEF s, r
<1>6. StackTypes'
  BY <1>1, <1>5 DEF StackInv, StackTypes
<1>7. /\ stack'[f] = 0 /\ \A g \in Fibers \ {f} : stack'[g] = stack[g]
      /\ pools'[t] = r /\ \A u \in Threads \ {t} : pools'[u] = pools[u]
  BY <1>1 DEF StackInv, StackTypes
<1>8. /\ \A x : InPool(x, t)' <=> InPool(x, t) \/ x = s
      /\ \A u \in Threads \ {t} : \A x : InPool(x, u)' <=> InPool(x, u)
  BY <1>5, <1>7 DEF InPool
<1>9. StackPlaces'
  <2>1. /\ \A g \in Fibers : life'[g] = "live" <=> stack'[g] # 0
        /\ \A g \in Fibers : stack'[g] <= allocated'
    BY <1>1, <1>2, <1>7 DEF StackInv, StackPlaces, StackTypes
  <2>2. ASSUME NEW g \in Fibers, NEW h \in Fibers, stack'[g] = stack'[h], stack'[g] # 0
        PROVE  g = h
    BY <1>7, <2>2 DEF StackInv, StackPlaces
  <2>3. \A u \in Threads : Distinct(pools'[u])
    BY <1>4, <1>5, <1>7 DEF StackInv, StackPlaces, InPool
  <2>4. ASSUME NEW u \in Threads, NEW x, InPool(x, u)'
        PROVE  /\ x \in 1..allocated'
               /\ \A g \in Fibers : stack'[g] # x
               /\ \A v \in Threads \ {u} : ~InPool(x, v)'
    <3>1. CASE x = s
      BY <1>1, <1>4, <1>7, <1>8, <2>4, <3>1 DEF StackInv, StackPlaces
    <3>2. CASE x # s
      <4>1. InPool(x, u)
        BY <1>8, <2>4, <3>2
      <4>2. /\ x \in 1..allocated /\ \A g \in Fibers : stack[g] # x
            /\ \A v \in Threads \ {u} : ~InPool(x, v)
        BY <4>1 DEF StackInv, StackPlaces
      <4>3. x # 0
        BY <4>2 DEF StackInv, StackTypes
      <4> QED BY <1>1, <1>7, <1>8, <3>2, <4>2, <4>3
    <3> QED BY <3>1, <3>2
  <2>5. ASSUME NEW x \in 1..allocated'
        PROVE  (\E g \in Fibers : stack'[g] = x) \/ \E u \in Threads : InPool(x, u)'
    BY <1>1, <1>7, <1>8, <2>5 DEF StackInv, StackPlaces, s
  <2> QED BY <2>1, <2>2, <2>3, <2>4, <2>5 DEF StackPlaces
<1>10. StackCounts'
  <2>1. Len(r) <= Cardinality(Deleted')
    BY <1>3, <1>5 DEF StackInv, StackCounts
  <2>2. \A u \in Threads : Len(pools[u]) \in Nat /\ Len(pools[u]) <= Cardinality(Deleted')
    BY <1>3, LenProperties DEF StackInv, StackTypes, StackCounts
  <2> QED BY <1>1, <1>2, <1>7, <2>1, <2>2 DEF StackInv, StackCounts
<1> QED BY <1>6, <1>9, <1>10 DEF StackInv

LEMMA StackNext == FInv /\ StackInv /\ [Next]_vars => StackInv'
<1> SUFFICES ASSUME FInv, StackInv, [Next]_vars PROVE StackInv'
  OBVIOUS
<1>1. ASSUME UNCHANGED <<life, stack, pools, allocated>> PROVE StackInv'
  BY <1>1 DEF StackInv, StackTypes, StackPlaces, StackCounts, InPool, Touched, Deleted
<1>2. ASSUME NEW t \in Threads, Spawn(t) PROVE StackInv'
  BY <1>2, AcquireKeepsStacks DEF Spawn
<1>3. ASSUME NEW w \in Workers, AfterResume(w) PROVE StackInv'
  <2>1. step[w] = "check"
    BY <1>3 DEF AfterResume, Goto
  <2>2. dispatching[w] \in Fibers /\ life[dispatching[w]] = "live" /\ w \in Threads
    BY <2>1, FiberNames DEF FInv, FiberTypes, Handlers
  <2> QED BY <1>1, <1>3, <2>2, ReleaseKeepsStacks DEF AfterResume
<1>4. Main \in Threads /\ \A w \in Workers : w \in Threads
  BY FibersAssumption
<1> QED BY <1>1, <1>2, <1>3, <1>4
        DEF Next, Continue, vars, fiberVars, SpawnOutside, SpawnInside, Takes, Dispatches,
            HandlerReturns, Yields, Suspends, Returns, Throws, ResumesNested,
            NestedSwitches, Leaves, Join, Joins

LEMMA StacksFollow == ASSUME StackInv PROVE StacksAccounted
<1> SUFFICES ASSUME NEW s \in 1..allocated
             PROVE  Cardinality({f \in Fibers : stack[f] = s})
                      + Cardinality({p \in Threads \X Stacks :
                                       p[2] <= Len(pools[p[1]]) /\ pools[p[1]][p[2]] = s}) = 1
  BY DEF StacksAccounted
<1> DEFINE A == {f \in Fibers : stack[f] = s}
           B == {p \in Threads \X Stacks : p[2] <= Len(pools[p[1]]) /\ pools[p[1]][p[2]] = s}
<1>1. s # 0
  BY DEF StackInv, StackTypes
<1>2. ASSUME NEW t \in Threads, NEW i \in Nat, i # 0
      PROVE  i <= Len(pools[t]) <=> i \in DOMAIN pools[t]
  BY <1>2, LenProperties DEF StackInv, StackTypes
<1>3. ASSUME NEW t \in Threads, NEW i \in DOMAIN pools[t] PROVE i \in Stacks
  <2>1. Len(pools[t]) <= Cardinality(Fibers) /\ Cardinality(Fibers) \in Nat
    <3>1. /\ Len(pools[t]) \in Nat /\ Len(pools[t]) <= Cardinality(Deleted)
          /\ Deleted \subseteq Fibers
      BY LenProperties DEF StackInv, StackTypes, StackCounts, Deleted
    <3> QED BY <3>1, FiberCounts
  <2>2. i \in 1..Len(pools[t]) /\ Len(pools[t]) \in Nat
    BY LenProperties DEF StackInv, StackTypes
  <2> QED BY <2>1, <2>2 DEF Stacks
<1>4. Cardinality({}) = 0 /\ \A x : Cardinality({x}) = 1
  BY FS_EmptySet, FS_Singleton
<1>5. CASE \E f \in Fibers : stack[f] = s
  <2>1. PICK f \in Fibers : stack[f] = s
    BY <1>5
  <2>2. A = {f}
    BY <1>1, <2>1 DEF StackInv, StackPlaces
  <2>3. B = {}
    <3>1. \A t \in Threads : ~InPool(s, t)
      BY <2>1 DEF StackInv, StackPlaces
    <3> SUFFICES ASSUME NEW p \in B PROVE FALSE
      OBVIOUS
    <3>2. p[1] \in Threads /\ p[2] \in Nat /\ p[2] # 0
      BY FiberCounts DEF Stacks
    <3> QED BY <1>2, <3>1, <3>2 DEF InPool, In
  <2>4. Cardinality(A) = 1 /\ Cardinality(B) = 0
    BY <1>4, <2>2, <2>3
  <2> HIDE DEF A, B
  <2>5. Cardinality(A) + Cardinality(B) = 1
    BY <2>4
  <2> QED BY <2>5 DEF A, B
<1>6. CASE \E t \in Threads : InPool(s, t)
  <2>0. PICK t \in Threads : InPool(s, t)
    BY <1>6
  <2>1. PICK i \in DOMAIN pools[t] : pools[t][i] = s
    BY <2>0 DEF InPool, In
  <2>2. A = {} /\ \A u \in Threads : InPool(s, u) => u = t
    BY <2>1 DEF StackInv, StackPlaces, InPool, In
  <2>3. \A j \in DOMAIN pools[t] : pools[t][j] = s => j = i
    BY <2>1 DEF StackInv, StackPlaces, Distinct
  <2>4. i \in Stacks /\ i \in Nat /\ i # 0
    BY <1>3, <2>1, LenProperties DEF StackInv, StackTypes
  <2>5. B = {<<t, i>>}
    <3>1. <<t, i>> \in B
      BY <1>2, <2>1, <2>4
    <3>2. ASSUME NEW p \in B PROVE p = <<t, i>>
      <4>1. p[1] \in Threads /\ p[2] \in Nat /\ p[2] # 0 /\ p = <<p[1], p[2]>>
        BY FiberCounts DEF Stacks
      <4>2. p[2] \in DOMAIN pools[p[1]] /\ pools[p[1]][p[2]] = s
        BY <1>2, <4>1
      <4>3. p[1] = t
        BY <2>2, <4>1, <4>2 DEF InPool, In
      <4> QED BY <2>3, <4>1, <4>2, <4>3
    <3> QED BY <3>1, <3>2
  <2>6. Cardinality(A) = 0 /\ Cardinality(B) = 1
    BY <1>4, <2>2, <2>5
  <2> HIDE DEF A, B
  <2>7. Cardinality(A) + Cardinality(B) = 1
    BY <2>6
  <2> QED BY <2>7 DEF A, B
<1> QED BY <1>5, <1>6 DEF StackInv, StackPlaces

(* Every stack that was allocated has one place: the live fiber that runs  *)
(* on it, or one slot of one thread's pool, from which the next fiber      *)
(* takes it (stacks.cpp:18-34, fiber.cpp:46-49).                           *)
THEOREM StacksAreNeverLost == Spec => []StacksAccounted
<1>1. StackInv => StacksAccounted
  BY StacksFollow
<1> QED BY <1>1, FInvInit, FInvNext, StackInit, StackNext, PTL DEF Spec

LEMMA FiberTypesFollow == ASSUME FInv, StackInv PROVE TypeOK
<1>1. IsFiniteSet(Fibers) /\ Cardinality(Fibers) \in Nat /\ Nobody \notin Fibers
  BY FiberCounts, FibersAssumption
<1>2. outstanding \in 0..(Cardinality(Fibers) + 1)
  <2> DEFINE h == [w \in Dispatchers |-> dispatching[w]]
             n == Len(ready)
             b == Cardinality(Dispatchers)
  <2>1. /\ ready \in Seq(Fibers) /\ Distinct(ready) /\ h \in [Dispatchers -> Fibers]
        /\ \A v \in Dispatchers : h[v] = dispatching[v] /\ v \in Workers
    BY DEF FInv, FiberPool, PoolFits, Handlers, FiberTypes, Dispatchers
  <2>2. \A v \in Dispatchers : ~In(h[v], ready)
    BY <2>1 DEF FInv, Handlers
  <2>3. \A v \in Dispatchers : \A w \in Dispatchers : h[v] = h[w] => v = w
    BY <1>1, <2>1 DEF FInv, Handlers, OneDispatcher
  <2> HIDE DEF h
  <2>4. n + b <= Cardinality(Fibers)
    BY <1>1, <2>1, <2>2, <2>3, HandlersFit
  <2>5. n \in Nat /\ b \in Nat /\ outstanding = n + b + (IF owner = "open" THEN 1 ELSE 0)
    <3>1. IsFiniteSet(Dispatchers)
      BY EventLoopAssumption, FS_Subset DEF Dispatchers
    <3> QED BY <2>1, <3>1, LenProperties, FS_CardinalityType DEF FInv, FiberPool, PoolFits
  <2> HIDE DEF n, b
  <2> QED BY <1>1, <2>4, <2>5
<1>3. allocated \in 0..Cardinality(Fibers)
  <2>1. Touched \subseteq Fibers /\ allocated \in Nat /\ allocated <= Cardinality(Touched)
    BY DEF StackInv, StackTypes, StackCounts, Touched
  <2>2. Cardinality(Touched) \in Nat /\ Cardinality(Touched) <= Cardinality(Fibers)
    BY <2>1, FiberCounts
  <2> QED BY <1>1, <2>1, <2>2
<1>4. stack \in [Fibers -> 0..allocated]
  BY DEF StackInv, StackTypes, StackPlaces
<1>5. ready \in Seq(Fibers) /\ deferred \in [Workers -> Seq(Fibers)]
  BY DEF FInv, FiberPool, PoolFits
<1> QED BY <1>2, <1>3, <1>4, <1>5 DEF TypeOK, FInv, FiberTypes

(* The type invariant: the io_context's count of work never exceeds the    *)
(* fibers and the guard, there are never more stacks than fibers, and      *)
(* current_fiber is set between the Resume of a dispatch and its end.      *)
THEOREM FiberTypesCorrect == Spec => []TypeOK
<1>1. FInv /\ StackInv => TypeOK
  BY FiberTypesFollow
<1> QED BY <1>1, FInvInit, FInvNext, StackInit, StackNext, PTL DEF Spec

----------------------------------------------------------------------------
(* CoroutineTasks: coroutines that nest, and the exceptions they throw *)

OwnPlaces == {"loop", "task", "resume", "return", "resumed", "raised", "done", "gone"}
RoutinePlaces == {"new", "parked", "code", "resume", "return", "raised", "exit", "over"}

(* What current and last call a context. *)
Name(x) == IF x \in Own THEN None ELSE x

ContextTypes ==
    /\ ready \in Seq(Generators) /\ deferred \in [Workers -> Seq(Generators)]
    /\ executing \in [Workers -> AllContexts]
    /\ at \in [AllContexts -> OwnPlaces \cup RoutinePlaces]
    /\ \A w \in Workers : at[w] \in OwnPlaces
    /\ \A c \in Generators : at[c] \in RoutinePlaces
    /\ callee \in [AllContexts -> Generators \cup {None}]
    /\ current_coroutine \in [Workers -> Generators \cup {None}]
    /\ last_coroutine \in [Generators -> Generators \cup {None}]
    /\ caller_context \in [Generators -> AllContexts \cup {None}]
    /\ is_completed \in [Generators -> BOOLEAN]
    /\ exception \in [Generators -> Generators \cup {None}]
    /\ raised \in [AllContexts -> Generators \cup {None}]
    /\ uncaught \subseteq Generators

(* A context that resumes a coroutine, or has a task for it, is the only   *)
(* one that does.                                                          *)
Claims ==
    /\ \A x \in AllContexts : \A y \in AllContexts :
         callee[x] = callee[y] /\ callee[x] # None => x = y
    /\ \A w \in Workers : callee[w] = None <=> at[w] \in {"loop", "done", "gone"}
    /\ \A c \in Generators : callee[c] = None <=> at[c] \notin {"resume", "return"}
    /\ \A x \in AllContexts :
         /\ at[x] \in {"task", "resume"} => at[callee[x]] \in {"new", "parked"}
         /\ at[x] = "return" => at[callee[x]] # "new"
    /\ \A w \in Workers : at[w] \in {"resumed", "raised"} => at[callee[w]] \in {"parked", "over"}

Queued(c) == In(c, ready) \/ \E w \in Workers : In(c, deferred[w])

(* A coroutine has one handler at a time, and none while it is resumed. *)
Handed ==
    /\ Distinct(ready) /\ \A w \in Workers : Distinct(deferred[w])
    /\ \A c \in Generators : \A w \in Workers : In(c, deferred[w]) =>
         ~In(c, ready) /\ \A v \in Workers : In(c, deferred[v]) => v = w
    /\ \A c \in Generators : Queued(c) =>
         at[c] \in {"new", "parked"} /\ \A x \in AllContexts : callee[x] # c

(* The contexts below a worker's are those of Resume calls that wait, each *)
(* for the next; the pointers current and last agree with them.            *)
Linked ==
    /\ \A c \in Generators : InProgress(c) =>
         /\ caller_context[c] \in AllContexts
         /\ at[caller_context[c]] = "return" /\ callee[caller_context[c]] = c
    /\ \A x \in AllContexts : at[x] = "return" /\ InProgress(callee[x]) =>
         \A w \in Workers : executing[w] # x
    /\ \A x \in AllContexts :
         at[x] \in {"resume", "return"} => last_coroutine[callee[x]] = Name(x)
    /\ \A w \in Workers :
         /\ Stands(w, {"resume", "return"}) => current_coroutine[w] = callee[executing[w]]
         /\ ~Stands(w, {"resume", "return"}) => current_coroutine[w] = Name(executing[w])
         /\ executing[w] # w => executing[w] \in Generators /\ InProgress(executing[w])

(* Whose stack of contexts each context belongs to. *)
Homed(home) ==
    /\ \A w \in Workers : home[w] = w /\ home[executing[w]] = w
    /\ \A c \in Generators : InProgress(c) => home[caller_context[c]] = home[c]

Homes == \E home \in [AllContexts -> Workers] : Homed(home)

(* A coroutine throws once, and is over when its exception has left it. *)
Exceptions ==
    /\ \A x \in AllContexts : raised[x] # None <=> at[x] = "raised"
    /\ \A c \in Generators :
         /\ is_completed[c] <=> at[c] \in {"exit", "over"}
         /\ exception[c] # None => at[c] \in {"exit", "over"}
    /\ \A e \in Generators :
         \/ e \in uncaught
         \/ \E x \in AllContexts : raised[x] = e
         \/ \E c \in Generators : exception[c] = e
         => \/ at[e] \in {"exit", "over"}
            \/ at[e] = "raised" /\ raised[e] = e

Awaited(c) == \E x \in AllContexts : at[x] = "return" /\ callee[x] = c

Holds(c, e) == exception[c] = e /\ Awaited(c)

(* ExceptionsClimb, without counting. *)
Carriers ==
    /\ \A x \in AllContexts : raised[x] # None => raised[x] \in uncaught
    /\ \A e \in uncaught :
         /\ (\E x \in AllContexts : raised[x] = e) \/ (\E c \in Generators : Holds(c, e))
         /\ \A x \in AllContexts : \A y \in AllContexts : raised[x] = e /\ raised[y] = e => x = y
         /\ \A c \in Generators : \A d \in Generators : Holds(c, e) /\ Holds(d, e) => c = d
         /\ \A x \in AllContexts : \A c \in Generators : ~(raised[x] = e /\ Holds(c, e))
    /\ \A c \in Generators : exception[c] # None /\ Awaited(c) => exception[c] \in uncaught

CInv == ContextTypes /\ Claims /\ Handed /\ Linked /\ Homes /\ Exceptions /\ Carriers

LEMMA ContextNames ==
    /\ Workers \subseteq AllContexts /\ Generators \subseteq AllContexts
    /\ \A x \in AllContexts : x \in Workers \/ x \in Generators
    /\ \A w \in Workers : w \notin Generators
    /\ None \notin AllContexts /\ Own = Workers
    /\ \A w \in Workers : Name(w) = None
    /\ \A c \in Generators : Name(c) = c
BY CoroutineTasksAssumption DEF AllContexts, Own, Name

LEMMA CInvInit == CoroutineTasksInit => CInv
<1> SUFFICES ASSUME CoroutineTasksInit PROVE CInv
  OBVIOUS
<1> USE ContextNames DEF CoroutineTasksInit, PoolInit
<1>1. /\ \A w \in Workers : at[w] = "loop" /\ executing[w] = w /\ deferred[w] = <<>>
      /\ \A c \in Generators : at[c] = "new"
      /\ \A x \in AllContexts : callee[x] = None /\ raised[x] = None
      /\ \A c \in Generators : exception[c] = None /\ ~is_completed[c]
      /\ ready = <<>>
  OBVIOUS
<1>2. \A x : ~In(x, <<>>)
  BY DEF In
<1>3. ContextTypes
  <2>1. /\ ready \in Seq(Generators) /\ deferred \in [Workers -> Seq(Generators)]
        /\ executing \in [Workers -> AllContexts]
    OBVIOUS
  <2>2. at \in [AllContexts -> OwnPlaces \cup RoutinePlaces]
    BY DEF OwnPlaces, RoutinePlaces
  <2> QED BY <1>1, <2>1, <2>2 DEF ContextTypes, OwnPlaces, RoutinePlaces
<1>4. Claims
  BY <1>1 DEF Claims
<1>5. Handed
  <2>1. Distinct(<<>>)
    BY DEF Distinct
  <2> QED BY <1>1, <1>2, <2>1 DEF Handed, Queued
<1>6. Linked
  BY <1>1 DEF Linked, InProgress, Stands
<1>7. Homes
  <2> DEFINE v == CHOOSE w \in Workers : TRUE
             home == [x \in AllContexts |-> IF x \in Workers THEN x ELSE v]
  <2>1. v \in Workers
    BY EventLoopAssumption
  <2>2. home \in [AllContexts -> Workers] /\ Homed(home)
    BY <1>1, <2>1 DEF Homed, InProgress
  <2> QED BY <2>2 DEF Homes
<1>8. Exceptions
  BY <1>1 DEF Exceptions
<1>9. Carriers
  BY <1>1 DEF Carriers, Awaited
<1> QED BY <1>3, <1>4, <1>5, <1>6, <1>7, <1>8, <1>9 DEF CInv

(* Where a worker is, and what waits below it. *)
LEMMA Here ==
    ASSUME ContextTypes, Claims, Linked, Homes, NEW w \in Workers
    PROVE  LET x == executing[w]
               y == caller_context[x]
           IN  /\ x \in AllContexts
               /\ \A v \in Workers : executing[v] = x => v = w
               /\ x \in Workers => x = w
               /\ x \in Generators =>
                    /\ InProgress(x)
                    /\ y \in AllContexts /\ at[y] = "return" /\ callee[y] = x
                    /\ y \in Workers => y = w
                    /\ \A v \in Workers : executing[v] # y
                    /\ \A z \in AllContexts : callee[z] = x => z = y
<1> PICK home \in [AllContexts -> Workers] : Homed(home)
  BY DEF Homes
<1> DEFINE x == executing[w]
           y == caller_context[x]
<1>1. x \in AllContexts /\ home[x] = w
  BY DEF ContextTypes, Homed
<1>2. ASSUME NEW v \in Workers, executing[v] = x PROVE v = w
  BY <1>1, <1>2 DEF Homed
<1>3. x \in Workers => x = w
  BY <1>1 DEF Homed
<1>4. ASSUME x \in Generators
      PROVE  /\ InProgress(x)
             /\ y \in AllContexts /\ at[y] = "return" /\ callee[y] = x
             /\ y \in Workers => y = w
             /\ \A v \in Workers : executing[v] # y
             /\ \A z \in AllContexts : callee[z] = x => z = y
  <2>1. InProgress(x)
    BY <1>4, ContextNames DEF Linked
  <2>2. y \in AllContexts /\ at[y] = "return" /\ callee[y] = x /\ home[y] = w
    BY <1>1, <1>4, <2>1 DEF Linked, Homed
  <2>3. y \in Workers => y = w
    BY <2>2 DEF Homed
  <2>4. \A v \in Workers : executing[v] # y
    BY <2>1, <2>2 DEF Linked
  <2>5. \A z \in AllContexts : callee[z] = x => z = y
    BY <1>4, <2>2, ContextNames DEF Claims
  <2> QED BY <2>1, <2>2, <2>3, <2>4, <2>5
<1> QED BY <1>1, <1>2, <1>3, <1>4

(* A step of a worker's context. *)
LEMMA GoesRules ==
    ASSUME ContextTypes, NEW w \in Workers, NEW from, NEW to \in OwnPlaces \cup RoutinePlaces,
           Goes(w, from, to)
    PROVE  /\ at' \in [AllContexts -> OwnPlaces \cup RoutinePlaces]
           /\ at[executing[w]] \in from /\ at'[executing[w]] = to
           /\ \A x \in AllContexts : x # executing[w] => at'[x] = at[x]
BY DEF ContextTypes, Goes, Stands

(* Who has a coroutine to resume. *)
LEMMA CalleeRules ==
    ASSUME ContextTypes, Claims, NEW x \in AllContexts
    PROVE  /\ at[x] \in {"task", "resume", "return"} => callee[x] \in Generators
           /\ x \in Workers /\ at[x] \in {"resumed", "raised"} => callee[x] \in Generators
<1>1. CASE x \in Workers
  <2>1. callee[x] = None <=> at[x] \in {"loop", "done", "gone"}
    BY <1>1 DEF Claims
  <2>2. callee[x] \in Generators \cup {None}
    BY DEF ContextTypes
  <2> QED BY <1>1, <2>1, <2>2, ContextNames
<1>2. CASE x \in Generators
  <2>1. at[x] \in RoutinePlaces
    BY <1>2 DEF ContextTypes
  <2> QED BY <1>2, <2>1, ContextNames DEF ContextTypes, Claims, RoutinePlaces
<1> QED BY <1>1, <1>2, ContextNames

LEMMA CarriersKept ==
    ASSUME ContextTypes, Carriers, UNCHANGED <<raised, uncaught, exception>>,
           \A c \in Generators : exception[c] # None => (Awaited(c)' <=> Awaited(c))
    PROVE  Carriers'
<1>1. \A c \in Generators : \A e \in uncaught : Holds(c, e)' <=> Holds(c, e)
  BY ContextNames DEF ContextTypes, Holds
<1> QED BY <1>1 DEF Carriers

LEMMA SwitchesToInv == ASSUME CInv, NEW w \in Workers, SwitchesTo(w) PROVE CInv'
<1> DEFINE x == executing[w]
           c == callee[x]
<1>1. /\ x \in AllContexts /\ c \in Generators /\ x # c
      /\ x \in Workers => x = w
      /\ at[x] = "resume" /\ at[c] \in {"new", "parked"}
      /\ last_coroutine[c] = Name(x) /\ current_coroutine[w] = c
  <2>1. x \in AllContexts /\ (x \in Workers => x = w) /\ at[x] = "resume"
    BY Here DEF CInv, SwitchesTo, Stands
  <2>2. c \in Generators
    BY <2>1, CalleeRules DEF CInv
  <2>3. at[c] \in {"new", "parked"}
    BY <2>1 DEF CInv, Claims
  <2> QED BY <2>1, <2>2, <2>3, ContextNames DEF CInv, Linked, Stands
<1>2. /\ at' \in [AllContexts -> OwnPlaces \cup RoutinePlaces]
      /\ at'[x] = "return" /\ at'[c] = "code"
      /\ \A y \in AllContexts : y # x /\ y # c => at'[y] = at[y]
  BY <1>1, ContextNames, ZenonT(60) DEF CInv, ContextTypes, SwitchesTo, OwnPlaces, RoutinePlaces
<1>3. /\ executing' \in [Workers -> AllContexts] /\ executing'[w] = c
      /\ \A v \in Workers : v # w => executing'[v] = executing[v]
      /\ caller_context' \in [Generators -> AllContexts \cup {None}]
      /\ caller_context'[c] = x
      /\ \A d \in Generators : d # c => caller_context'[d] = caller_context[d]
  BY <1>1, ContextNames DEF CInv, ContextTypes, SwitchesTo
<1>4. UNCHANGED <<ready, deferred, callee, current_coroutine, last_coroutine, resultVars>>
  BY DEF SwitchesTo, poolVars
<1>5. \A v \in Workers : v # w => executing[v] # x /\ executing[v] # c
  BY <1>1, Here, ContextNames DEF CInv, InProgress
<1> HIDE DEF x, c
<1> USE ContextNames
<1>6. ContextTypes'
  BY <1>1, <1>2, <1>3, <1>4, ZenonT(60) DEF CInv, ContextTypes, OwnPlaces, RoutinePlaces, resultVars
<1>7. Claims'
  <2>1. \A y \in AllContexts : callee'[y] = callee[y] /\ (callee[y] = c => y = x)
    BY <1>1, <1>4 DEF CInv, Claims, c
  <2>2. /\ \A v \in Workers : callee'[v] = None <=> at'[v] \in {"loop", "done", "gone"}
        /\ \A d \in Generators : callee'[d] = None <=> at'[d] \notin {"resume", "return"}
    BY <1>1, <1>2, <2>1 DEF CInv, Claims, c
  <2>3. ASSUME NEW y \in AllContexts
        PROVE  /\ at'[y] \in {"task", "resume"} => at'[callee[y]] \in {"new", "parked"}
               /\ at'[y] = "return" => at'[callee[y]] # "new"
    <3>1. CASE y = x
      BY <1>2, <3>1 DEF c
    <3>2. CASE y = c
      BY <1>2, <3>2
    <3>3. CASE y # x /\ y # c /\ at[y] \in {"task", "resume", "return"}
      <4>1. callee[y] \in Generators /\ callee[y] # c
        BY <2>1, <3>3, CalleeRules DEF CInv
      <4>2. callee[y] # x => at'[callee[y]] = at[callee[y]]
        BY <1>2, <4>1
      <4>3. /\ at[y] \in {"task", "resume"} => at[callee[y]] \in {"new", "parked"}
            /\ at[y] = "return" => at[callee[y]] # "new"
        BY DEF CInv, Claims
      <4> QED BY <1>1, <1>2, <3>3, <4>2, <4>3
    <3> QED BY <1>2, <3>1, <3>2, <3>3
  <2>4. \A v \in Workers : at'[v] \in {"resumed", "raised"} => at'[callee[v]] \in {"parked", "over"}
    <3> TAKE v \in Workers
    <3>1. CASE v # x /\ at[v] \in {"resumed", "raised"}
      <4>1. callee[v] \in Generators /\ callee[v] # c
        BY <2>1, <3>1, CalleeRules DEF CInv
      <4>2. at[callee[v]] \in {"parked", "over"}
        BY <3>1 DEF CInv, Claims
      <4> QED BY <1>1, <1>2, <4>1, <4>2
    <3> QED BY <1>1, <1>2, <3>1
  <2> QED BY <2>1, <2>2, <2>3, <2>4 DEF CInv, Claims
<1>8. Handed'
  BY <1>1, <1>2, <1>4 DEF CInv, Handed, Queued, c
<1>9. Linked'
  <2>1. ASSUME NEW v \in Workers
        PROVE  /\ Stands(v, {"resume", "return"})' => current_coroutine'[v] = callee'[executing'[v]]
               /\ ~Stands(v, {"resume", "return"})' => current_coroutine'[v] = Name(executing'[v])
               /\ executing'[v] # v => executing'[v] \in Generators /\ InProgress(executing[v])'
    <3>1. CASE v = w
      <4>1. /\ executing'[v] = c /\ at'[c] = "code" /\ current_coroutine'[v] = c
            /\ c \in Generators /\ Name(c) = c
        BY <1>1, <1>2, <1>3, <1>4, <3>1
      <4> QED BY <4>1 DEF Stands, InProgress
    <3>2. CASE v # w
      <4>1. executing'[v] = executing[v] /\ at'[executing[v]] = at[executing[v]]
        BY <1>2, <1>3, <1>5, <3>2 DEF CInv, ContextTypes
      <4>2. current_coroutine'[v] = current_coroutine[v] /\ callee' = callee
        BY <1>4
      <4> QED BY <4>1, <4>2 DEF CInv, Linked, Stands, InProgress
    <3> QED BY <3>1, <3>2
  <2> USE <1>1, <1>2, <1>3, <1>4 DEF CInv, Linked, InProgress
  <2>2. ASSUME NEW d \in Generators, InProgress(d)'
        PROVE  /\ caller_context'[d] \in AllContexts
               /\ at'[caller_context'[d]] = "return" /\ callee'[caller_context'[d]] = d
    BY <2>2 DEF c
  <2>3. ASSUME NEW y \in AllContexts, at'[y] = "return", InProgress(callee[y])', NEW v \in Workers
        PROVE  executing'[v] # y
    <3>1. CASE y = x
      BY <1>5, <3>1
    <3>2. CASE y # x
      <4>1. at[y] = "return" /\ callee[y] # c
        BY <2>3, <3>2 DEF Claims, c
      <4>2. InProgress(callee[y])
        <5>1. callee[y] \in Generators
          BY <4>1, CalleeRules
        <5> QED BY <2>3, <4>1, <5>1
      <4> QED BY <2>3, <3>2, <4>1, <4>2
    <3> QED BY <3>1, <3>2
  <2>4. \A y \in AllContexts :
          at'[y] \in {"resume", "return"} => last_coroutine'[callee'[y]] = Name(y)
    BY DEF c
  <2> QED BY <2>1, <2>2, <2>3, <2>4
<1>10. Homes'
  <2> PICK home \in [AllContexts -> Workers] : Homed(home)
    BY DEF CInv, Homes
  <2> DEFINE new == [home EXCEPT ![c] = w]
  <2>1. new \in [AllContexts -> Workers] /\ new[c] = w
        /\ \A y \in AllContexts : y # c => new[y] = home[y]
    BY <1>1
  <2> HIDE DEF new
  <2>2. \A v \in Workers : new[v] = v /\ new[executing'[v]] = v
    <3> TAKE v \in Workers
    <3>1. new[v] = v
      BY <1>1, <2>1 DEF Homed
    <3>2. CASE v # w
      BY <1>3, <1>5, <2>1, <3>1, <3>2 DEF CInv, ContextTypes, Homed
    <3> QED BY <1>3, <2>1, <3>1, <3>2
  <2>3. ASSUME NEW d \in Generators, InProgress(d)' PROVE new[caller_context'[d]] = new[d]
    <3>1. CASE d = c
      BY <1>1, <1>3, <2>1, <3>1 DEF Homed, x
    <3>2. CASE d # c
      <4>1. InProgress(d)
        BY <1>1, <1>2, <2>3, <3>2 DEF InProgress
      <4>2. caller_context[d] # c /\ caller_context[d] \in AllContexts
        BY <1>1, <4>1 DEF CInv, Linked
      <4> QED BY <1>3, <2>1, <3>2, <4>1, <4>2 DEF Homed
    <3> QED BY <3>1, <3>2
  <2> QED BY <2>1, <2>2, <2>3 DEF Homes, Homed
<1>11. Exceptions'
  BY <1>1, <1>2, <1>4 DEF CInv, Exceptions, resultVars
<1>12. Carriers'
  <2>1. exception[c] = None
    BY <1>1 DEF CInv, Exceptions
  <2>2. ASSUME NEW d \in Generators, d # c PROVE Awaited(d)' <=> Awaited(d)
    BY <1>1, <1>2, <1>4, <2>2 DEF Awaited, c
  <2> QED BY <1>4, <2>1, <2>2, CarriersKept DEF CInv, resultVars
<1> QED BY <1>6, <1>7, <1>8, <1>9, <1>10, <1>11, <1>12 DEF CInv

LEMMA StillHomed ==
    ASSUME Homes, UNCHANGED <<executing, caller_context>>,
           \A c \in Generators : InProgress(c)' => InProgress(c)
    PROVE  Homes'
BY DEF Homes, Homed

(* A step of the code of a routine or of a task that resumes nothing. *)
LEMMA StepKeepsLinks ==
    ASSUME CInv, NEW w \in Workers, NEW from, NEW to \in OwnPlaces \cup RoutinePlaces,
           Goes(w, from, to),
           UNCHANGED <<executing, current_coroutine, last_coroutine, caller_context>>,
           \A y \in AllContexts : y # executing[w] => callee'[y] = callee[y],
           from \cap {"resume", "return"} = {}, to \notin {"resume", "return"},
           executing[w] = w \/ to \in {"code", "raised", "exit"}
    PROVE  Linked' /\ Homes'
<1> DEFINE x == executing[w]
<1> USE ContextNames
<1>1. /\ at[x] \in from /\ at'[x] = to /\ x \in AllContexts
      /\ x \in Workers => x = w
      /\ x \in Generators => InProgress(x)
      /\ \A y \in AllContexts : y # x => at'[y] = at[y]
      /\ \A v \in Workers : executing[v] = x => v = w
  BY GoesRules, Here DEF CInv
<1>2. at[x] \notin {"resume", "return"}
  BY <1>1
<1>3. UNCHANGED <<executing, current_coroutine, last_coroutine, caller_context>>
  OBVIOUS
<1>4. x \in Generators => at'[x] \in {"code", "resume", "return", "raised", "exit"}
  BY <1>1, <1>3 DEF InProgress
<1> HIDE DEF x
<1>5. \A c \in Generators : InProgress(c)' <=> InProgress(c)
  <2> TAKE c \in Generators
  <2>1. CASE c = x
    BY <1>1, <1>4, <2>1 DEF InProgress
  <2>2. CASE c # x
    BY <1>1, <2>2 DEF InProgress
  <2> QED BY <2>1, <2>2
<1>6. ASSUME NEW c \in Generators, InProgress(c)'
      PROVE  /\ caller_context'[c] \in AllContexts
             /\ at'[caller_context'[c]] = "return" /\ callee'[caller_context'[c]] = c
  <2>1. InProgress(c)
    BY <1>5, <1>6
  <2>2. caller_context[c] \in AllContexts /\ at[caller_context[c]] = "return"
        /\ callee[caller_context[c]] = c
    BY <2>1 DEF CInv, Linked
  <2> QED BY <1>1, <1>2, <1>3, <2>2 DEF x
<1>7. ASSUME NEW y \in AllContexts, at'[y] \in {"resume", "return"}
      PROVE  y # x /\ at[y] = at'[y] /\ callee'[y] = callee[y] /\ callee[y] \in Generators
  <2>1. y # x /\ at[y] = at'[y]
    BY <1>1, <1>7
  <2>2. callee'[y] = callee[y]
    BY <2>1 DEF x
  <2>3. callee[y] \in Generators
    BY <1>7, <2>1, CalleeRules DEF CInv
  <2> QED BY <2>1, <2>2, <2>3
<1>8. ASSUME NEW y \in AllContexts, at'[y] = "return", InProgress(callee[y])', NEW v \in Workers
      PROVE  executing'[v] # y
  <2>1. at[y] = "return" /\ callee[y] \in Generators /\ callee'[y] = callee[y]
    BY <1>7, <1>8
  <2>2. InProgress(callee[y])
    <3>1. (callee[y])' = callee[y]
      BY <2>1
    <3> QED BY <1>5, <1>8, <2>1, <3>1 DEF InProgress
  <2> QED BY <1>3, <2>1, <2>2 DEF CInv, Linked
<1>9. \A y \in AllContexts :
        at'[y] \in {"resume", "return"} => last_coroutine'[callee'[y]] = Name(y)
  BY <1>3, <1>7 DEF CInv, Linked
<1>10. ASSUME NEW v \in Workers
       PROVE  /\ Stands(v, {"resume", "return"})' => current_coroutine'[v] = callee'[executing'[v]]
              /\ ~Stands(v, {"resume", "return"})' => current_coroutine'[v] = Name(executing'[v])
              /\ executing'[v] # v => executing'[v] \in Generators /\ InProgress(executing[v])'
  <2>1. executing'[v] = executing[v] /\ current_coroutine'[v] = current_coroutine[v]
        /\ executing[v] \in AllContexts
    BY <1>3 DEF CInv, ContextTypes
  <2>2. executing[v] # v => executing[v] \in Generators /\ InProgress(executing[v])
    BY DEF CInv, Linked
  <2>3. Stands(v, {"resume", "return"}) <=> Stands(v, {"resume", "return"})'
    BY <1>1, <1>2, <2>1 DEF Stands
  <2>4. Stands(v, {"resume", "return"}) => callee'[executing[v]] = callee[executing[v]]
    BY <1>1, <1>2, <1>7, <2>1, <2>3 DEF Stands
  <2>5. executing[v] # v => InProgress(executing[v])'
    BY <1>5, <2>1, <2>2 DEF InProgress
  <2> QED BY <2>1, <2>2, <2>3, <2>4, <2>5 DEF CInv, Linked
<1> QED BY <1>3, <1>5, <1>6, <1>8, <1>9, <1>10, StillHomed DEF CInv, Linked

(* ... and one within a routine, or a catch. *)
LEMMA StepKeepsPlaces ==
    ASSUME CInv, NEW w \in Workers, NEW from, NEW to \in OwnPlaces \cup RoutinePlaces,
           Goes(w, from, to),
           UNCHANGED <<poolVars, executing, callee, current_coroutine, last_coroutine,
                       caller_context>>,
           \/ executing[w] \in Generators /\ from \subseteq {"code", "raised"}
                /\ to \in {"code", "raised", "exit"}
           \/ executing[w] = w /\ from = {"raised"} /\ to = "resumed"
    PROVE  /\ Claims' /\ Handed' /\ Linked' /\ Homes'
           /\ \A c : Awaited(c)' <=> Awaited(c)
<1> DEFINE x == executing[w]
<1> USE ContextNames
<1>1. /\ at[x] \in from /\ at'[x] = to /\ x \in AllContexts
      /\ \A y \in AllContexts : y # x => at'[y] = at[y]
      /\ at[x] \in {"code", "raised"} /\ at'[x] \in {"code", "raised", "exit", "resumed"}
      /\ \/ x \in Generators /\ to \in {"code", "raised", "exit"}
         \/ x = w /\ at[x] = "raised" /\ to = "resumed"
  BY GoesRules, Here DEF CInv
<1>2. UNCHANGED <<ready, deferred, executing, callee, current_coroutine, last_coroutine,
                  caller_context>>
  BY DEF poolVars
<1>3. Linked' /\ Homes'
  BY StepKeepsLinks
<1> HIDE DEF x
<1>4. \A y \in AllContexts :
        at[y] \in {"new", "parked", "task", "resume", "return", "over"} => at'[y] = at[y]
  BY <1>1
<1>5. Claims'
  <2>1. \A v \in Workers : callee'[v] = None <=> at'[v] \in {"loop", "done", "gone"}
    BY <1>1, <1>2 DEF CInv, Claims
  <2>2. \A c \in Generators : callee'[c] = None <=> at'[c] \notin {"resume", "return"}
    BY <1>1, <1>2 DEF CInv, Claims
  <2>3. ASSUME NEW y \in AllContexts
        PROVE  /\ at'[y] \in {"task", "resume"} => at'[callee'[y]] \in {"new", "parked"}
               /\ at'[y] = "return" => at'[callee'[y]] # "new"
    <3>1. CASE at'[y] \in {"task", "resume", "return"}
      <4>1. at[y] = at'[y] /\ callee'[y] = callee[y]
        BY <1>1, <1>2, <3>1
      <4>2. callee[y] \in Generators
        BY <3>1, <4>1, CalleeRules DEF CInv
      <4>3. /\ at[y] \in {"task", "resume"} => at[callee[y]] \in {"new", "parked"}
            /\ at[y] = "return" => at[callee[y]] # "new"
        BY DEF CInv, Claims
      <4> QED BY <1>1, <1>4, <4>1, <4>2, <4>3
    <3> QED BY <3>1
  <2>4. ASSUME NEW v \in Workers, at'[v] \in {"resumed", "raised"}
        PROVE  at'[callee'[v]] \in {"parked", "over"}
    <3>1. at[v] \in {"resumed", "raised"}
      BY <1>1, <2>4
    <3>2. callee[v] \in Generators /\ at[callee[v]] \in {"parked", "over"}
      BY <3>1, CalleeRules DEF CInv, Claims
    <3> QED BY <1>2, <1>4, <3>2
  <2> QED BY <1>2, <2>1, <2>2, <2>3, <2>4 DEF CInv, Claims
<1>6. Handed'
  <2>1. \A c \in Generators : Queued(c)' <=> Queued(c)
    BY <1>2 DEF Queued
  <2> QED BY <1>2, <1>4, <2>1 DEF CInv, Handed
<1>7. \A c : Awaited(c)' <=> Awaited(c)
  BY <1>1, <1>2 DEF Awaited
<1> QED BY <1>3, <1>5, <1>6, <1>7

LEMMA RoutineThrowsInv == ASSUME CInv, NEW w \in Workers, RoutineThrows(w) PROVE CInv'
<1> DEFINE x == executing[w]
<1> USE ContextNames
<1>1. /\ x \in Generators /\ at[x] = "code" /\ at'[x] = "raised"
      /\ at' \in [AllContexts -> OwnPlaces \cup RoutinePlaces]
      /\ \A y \in AllContexts : y # x => at'[y] = at[y]
      /\ Goes(w, {"code"}, "raised")
  BY GoesRules DEF CInv, RoutineThrows, InRoutine, OwnPlaces
<1>2. /\ raised' \in [AllContexts -> Generators \cup {None}] /\ raised'[x] = x
      /\ \A y \in AllContexts : y # x => raised'[y] = raised[y]
      /\ uncaught' = uncaught \cup {x}
  BY <1>1 DEF CInv, ContextTypes, RoutineThrows
<1>3. UNCHANGED <<poolVars, executing, callee, current_coroutine, last_coroutine,
                  caller_context, is_completed, exception>>
  BY DEF RoutineThrows
<1>4. /\ Claims' /\ Handed' /\ Linked' /\ Homes'
      /\ \A c : Awaited(c)' <=> Awaited(c)
  BY <1>1, <1>3, StepKeepsPlaces DEF OwnPlaces
<1>5. /\ x \notin uncaught /\ (\A y \in AllContexts : raised[y] # x)
      /\ (\A c \in Generators : exception[c] # x) /\ exception[x] = None
  BY <1>1 DEF CInv, Exceptions
<1> HIDE DEF x
<1>6. ContextTypes'
  BY <1>1, <1>2, <1>3 DEF CInv, ContextTypes, poolVars, OwnPlaces, RoutinePlaces
<1>7. Exceptions'
  <2>1. \A y \in AllContexts : raised'[y] # None <=> at'[y] = "raised"
    BY <1>1, <1>2 DEF CInv, Exceptions
  <2>2. \A c \in Generators :
          /\ is_completed'[c] <=> at'[c] \in {"exit", "over"}
          /\ exception'[c] # None => at'[c] \in {"exit", "over"}
    BY <1>1, <1>3, <1>5 DEF CInv, Exceptions
  <2>3. ASSUME NEW e \in Generators,
               \/ e \in uncaught'
               \/ \E y \in AllContexts : raised'[y] = e
               \/ \E c \in Generators : exception'[c] = e
        PROVE  \/ at'[e] \in {"exit", "over"}
               \/ at'[e] = "raised" /\ raised'[e] = e
    <3>1. CASE e = x
      BY <1>1, <1>2, <3>1
    <3>2. CASE e # x
      <4>1. \/ e \in uncaught
            \/ \E y \in AllContexts : raised[y] = e
            \/ \E c \in Generators : exception[c] = e
        BY <1>2, <1>3, <2>3, <3>2
      <4> QED BY <1>1, <1>2, <3>2, <4>1 DEF CInv, Exceptions
    <3> QED BY <3>1, <3>2
  <2> QED BY <2>1, <2>2, <2>3 DEF Exceptions
<1>8. Carriers'
  <2>1. \A c \in Generators : \A e : Holds(c, e)' <=> Holds(c, e)
    BY <1>3, <1>4 DEF Holds
  <2>2. raised[x] = None
    BY <1>1 DEF CInv, Exceptions
  <2>3. \A c \in Generators : ~Holds(c, x)
    BY <1>5 DEF Holds
  <2>4. \A e \in uncaught : e # x /\ e # None
    BY <1>5 DEF CInv, ContextTypes
  <2>5. \A y \in AllContexts : raised'[y] # None => raised'[y] \in uncaught'
    BY <1>2 DEF CInv, Carriers
  <2>6. \A c \in Generators : exception'[c] # None /\ Awaited(c)' => exception'[c] \in uncaught'
    BY <1>2, <1>3, <1>4 DEF CInv, Carriers
  <2>7. ASSUME NEW e \in uncaught'
        PROVE  /\ (\E y \in AllContexts : raised'[y] = e) \/ (\E c \in Generators : Holds(c, e)')
               /\ \A y \in AllContexts : \A z \in AllContexts : raised'[y] = e /\ raised'[z] = e => y = z
               /\ \A c \in Generators : \A d \in Generators : Holds(c, e)' /\ Holds(d, e)' => c = d
               /\ \A y \in AllContexts : \A c \in Generators : ~(raised'[y] = e /\ Holds(c, e)')
    <3>1. CASE e = x
      BY <1>1, <1>2, <1>5, <2>1, <2>3, <3>1
    <3>2. CASE e # x
      <4>1. e \in uncaught /\ \A y \in AllContexts : raised'[y] = e <=> raised[y] = e
        BY <1>2, <2>2, <2>4, <2>7, <3>2
      <4> QED BY <2>1, <4>1 DEF CInv, Carriers
    <3> QED BY <3>1, <3>2
  <2> QED BY <2>5, <2>6, <2>7 DEF Carriers
<1> QED BY <1>4, <1>6, <1>7, <1>8 DEF CInv

LEMMA CatchesInv == ASSUME CInv, NEW w \in Workers, Catches(w) PROVE CInv'
<1> DEFINE x == executing[w]
           to == IF x = w THEN "resumed" ELSE "code"
           f == raised[x]
<1> USE ContextNames
<1>1. /\ x \in AllContexts /\ at[x] = "raised" /\ at'[x] = to
      /\ at' \in [AllContexts -> OwnPlaces \cup RoutinePlaces]
      /\ \A y \in AllContexts : y # x => at'[y] = at[y]
      /\ Goes(w, {"raised"}, to) /\ to \in {"resumed", "code"}
      /\ to \in OwnPlaces \cup RoutinePlaces
      /\ x = w \/ (x \in Generators /\ x # w)
  <2>1. Goes(w, {"raised"}, to) /\ to \in {"resumed", "code"}
    BY DEF Catches
  <2>2. to \in OwnPlaces \cup RoutinePlaces
    BY <2>1 DEF OwnPlaces, RoutinePlaces
  <2> HIDE DEF to
  <2>3. /\ at' \in [AllContexts -> OwnPlaces \cup RoutinePlaces]
        /\ at[x] \in {"raised"} /\ at'[x] = to
        /\ \A y \in AllContexts : y # x => at'[y] = at[y]
    BY <2>1, <2>2, GoesRules DEF CInv
  <2>4. x \in AllContexts /\ (x \in Workers => x = w)
    BY Here DEF CInv
  <2> HIDE DEF x
  <2>5. x = w \/ (x \in Generators /\ x # w)
    BY <2>4
  <2> QED BY <2>1, <2>2, <2>3, <2>4, <2>5
<1>2. /\ raised' \in [AllContexts -> Generators \cup {None}] /\ raised'[x] = None
      /\ \A y \in AllContexts : y # x => raised'[y] = raised[y]
      /\ uncaught' = uncaught \ {f} /\ f # x
  BY <1>1 DEF CInv, ContextTypes, Catches
<1>3. UNCHANGED <<poolVars, executing, callee, current_coroutine, last_coroutine,
                  caller_context, is_completed, exception>>
  BY DEF Catches
<1>4. /\ Claims' /\ Handed' /\ Linked' /\ Homes'
      /\ \A c : Awaited(c)' <=> Awaited(c)
  <2>1. \/ executing[w] \in Generators /\ {"raised"} \subseteq {"code", "raised"}
             /\ to \in {"code", "raised", "exit"}
        \/ executing[w] = w /\ {"raised"} = {"raised"} /\ to = "resumed"
    BY <1>1
  <2>2. UNCHANGED <<poolVars, executing, callee, current_coroutine, last_coroutine,
                    caller_context>>
    BY <1>3
  <2> HIDE DEF to
  <2> QED BY <1>1, <2>1, <2>2, StepKeepsPlaces
<1>5. /\ f \in uncaught /\ f \in Generators
      /\ x \in Generators => /\ x \notin uncaught /\ (\A y \in AllContexts : raised[y] # x)
                             /\ (\A c \in Generators : exception[c] # x)
  <2>1. f # None
    BY <1>1 DEF CInv, Exceptions
  <2>2. f \in uncaught /\ f \in Generators
    BY <1>1, <2>1 DEF CInv, Carriers, ContextTypes
  <2> QED BY <1>1, <1>2, <2>2 DEF CInv, Exceptions
<1>6. /\ x \in Workers => to = "resumed"
      /\ x \in Generators => to = "code"
  BY <1>1
<1> HIDE DEF x, to, f
<1>7. ContextTypes'
  BY <1>1, <1>2, <1>3, <1>6 DEF CInv, ContextTypes, poolVars, OwnPlaces, RoutinePlaces
<1>8. Exceptions'
  <2>1. \A y \in AllContexts : raised'[y] # None <=> at'[y] = "raised"
    BY <1>1, <1>2 DEF CInv, Exceptions
  <2>2. \A c \in Generators :
          /\ is_completed'[c] <=> at'[c] \in {"exit", "over"}
          /\ exception'[c] # None => at'[c] \in {"exit", "over"}
    BY <1>1, <1>3, <1>5 DEF CInv, Exceptions
  <2>3. ASSUME NEW e \in Generators,
               \/ e \in uncaught'
               \/ \E y \in AllContexts : raised'[y] = e
               \/ \E c \in Generators : exception'[c] = e
        PROVE  \/ at'[e] \in {"exit", "over"}
               \/ at'[e] = "raised" /\ raised'[e] = e
    <3>1. \/ e \in uncaught
          \/ \E y \in AllContexts : raised[y] = e
          \/ \E c \in Generators : exception[c] = e
      BY <1>2, <1>3, <2>3
    <3> QED BY <1>1, <1>2, <1>5, <3>1 DEF CInv, Exceptions
  <2> QED BY <2>1, <2>2, <2>3 DEF Exceptions
<1>9. Carriers'
  <2>1. \A c \in Generators : \A e : Holds(c, e)' <=> Holds(c, e)
    BY <1>3, <1>4 DEF Holds
  <2>2. \A y \in AllContexts : \A e \in uncaught' : raised'[y] = e <=> raised[y] = e
    BY <1>2 DEF CInv, ContextTypes, f
  <2>3. \A c \in Generators : ~Holds(c, f)
    BY <1>1, <1>5 DEF CInv, Carriers, f
  <2>4. \A y \in AllContexts : raised'[y] # None => raised'[y] \in uncaught'
    BY <1>1, <1>2, <1>5 DEF CInv, Carriers, f
  <2>5. ASSUME NEW c \in Generators, exception'[c] # None, Awaited(c)'
        PROVE  exception'[c] \in uncaught'
    <3>1. exception'[c] = exception[c] /\ Awaited(c)
      BY <1>3, <1>4, <2>5
    <3>2. exception[c] # f
      BY <2>3, <3>1 DEF Holds
    <3> QED BY <1>2, <2>5, <3>1, <3>2 DEF CInv, Carriers
  <2>6. uncaught' \subseteq uncaught
    BY <1>2
  <2>7. ASSUME NEW e \in uncaught'
        PROVE  /\ (\E y \in AllContexts : raised'[y] = e) \/ (\E c \in Generators : Holds(c, e)')
               /\ \A y \in AllContexts : \A z \in AllContexts : raised'[y] = e /\ raised'[z] = e => y = z
               /\ \A c \in Generators : \A d \in Generators : Holds(c, e)' /\ Holds(d, e)' => c = d
               /\ \A y \in AllContexts : \A c \in Generators : ~(raised'[y] = e /\ Holds(c, e)')
    BY <2>1, <2>2, <2>6, <2>7 DEF CInv, Carriers
  <2> QED BY <2>4, <2>5, <2>7 DEF Carriers
<1> QED BY <1>4, <1>7, <1>8, <1>9 DEF CInv

LEMMA RoutineEndsInv == ASSUME CInv, NEW w \in Workers, RoutineEnds(w) PROVE CInv'
<1> DEFINE x == executing[w]
           f == raised[x]
<1> USE ContextNames
<1>1. /\ x \in Generators /\ at[x] \in {"code", "raised"} /\ at'[x] = "exit"
      /\ at' \in [AllContexts -> OwnPlaces \cup RoutinePlaces]
      /\ \A y \in AllContexts : y # x => at'[y] = at[y]
      /\ Goes(w, {"code", "raised"}, "exit")
      /\ Awaited(x)
  BY GoesRules, Here DEF CInv, RoutineEnds, InRoutine, RoutinePlaces, Awaited
<1>2. current_coroutine[w] = x
  BY <1>1 DEF CInv, Linked, Stands
<1>3. /\ raised' \in [AllContexts -> Generators \cup {None}] /\ raised'[x] = None
      /\ \A y \in AllContexts : y # x => raised'[y] = raised[y]
      /\ exception' \in [Generators -> Generators \cup {None}] /\ exception'[x] = f
      /\ \A c \in Generators : c # x => exception'[c] = exception[c]
      /\ is_completed' \in [Generators -> BOOLEAN] /\ is_completed'[x]
      /\ \A c \in Generators : c # x => is_completed'[c] = is_completed[c]
      /\ f \in Generators \cup {None}
  BY <1>1, <1>2 DEF CInv, ContextTypes, RoutineEnds
<1>4. UNCHANGED <<poolVars, executing, callee, current_coroutine, last_coroutine,
                  caller_context, uncaught>>
  BY DEF RoutineEnds
<1>5. /\ Claims' /\ Handed' /\ Linked' /\ Homes'
      /\ \A c : Awaited(c)' <=> Awaited(c)
  BY <1>1, <1>4, StepKeepsPlaces DEF RoutinePlaces
<1>6. exception[x] = None /\ (f # None => f \in uncaught)
  BY <1>1 DEF CInv, Exceptions, Carriers
<1> HIDE DEF x, f
<1>7. ContextTypes'
  <2>1. /\ \A v \in Workers : at'[v] \in OwnPlaces
        /\ \A c \in Generators : at'[c] \in RoutinePlaces
    <3>1. at'[x] \in RoutinePlaces /\ \A v \in Workers : v # x
      BY <1>1 DEF RoutinePlaces
    <3>2. /\ \A v \in Workers : at[v] \in OwnPlaces
          /\ \A c \in Generators : at[c] \in RoutinePlaces
      BY DEF CInv, ContextTypes
    <3> QED BY <1>1, <3>1, <3>2
  <2> QED BY <1>1, <1>3, <1>4, <2>1 DEF CInv, ContextTypes, poolVars
<1>8. Exceptions'
  <2>1. \A y \in AllContexts : raised'[y] # None <=> at'[y] = "raised"
    BY <1>1, <1>3 DEF CInv, Exceptions
  <2>2. ASSUME NEW c \in Generators
        PROVE  /\ is_completed'[c] <=> at'[c] \in {"exit", "over"}
               /\ exception'[c] # None => at'[c] \in {"exit", "over"}
    <3>1. CASE c = x
      BY <1>1, <1>3, <3>1
    <3>2. CASE c # x
      BY <1>1, <1>3, <3>2 DEF CInv, Exceptions
    <3> QED BY <3>1, <3>2
  <2>3. ASSUME NEW e \in Generators,
               \/ e \in uncaught'
               \/ \E y \in AllContexts : raised'[y] = e
               \/ \E c \in Generators : exception'[c] = e
        PROVE  \/ at'[e] \in {"exit", "over"}
               \/ at'[e] = "raised" /\ raised'[e] = e
    <3>1. \/ e \in uncaught
          \/ \E y \in AllContexts : raised[y] = e
          \/ \E c \in Generators : exception[c] = e
      BY <1>1, <1>3, <1>4, <2>3 DEF f
    <3> QED BY <1>1, <1>3, <3>1 DEF CInv, Exceptions
  <2> QED BY <2>1, <2>2, <2>3 DEF Exceptions
<1>9. Carriers'
  <2>1. \A c \in Generators : \A e : c # x => (Holds(c, e)' <=> Holds(c, e))
    BY <1>3, <1>5 DEF Holds
  <2>2. /\ \A e \in uncaught : ~Holds(x, e)
        /\ \A c \in Generators : \A e : c = x => (Holds(c, e)' <=> f = e)
    <3>1. \A e \in uncaught : e # None
      BY DEF CInv, ContextTypes
    <3> QED BY <1>1, <1>3, <1>5, <1>6, <3>1 DEF Holds
  <2>3. \A y \in AllContexts : raised'[y] # None => raised'[y] \in uncaught'
    BY <1>3, <1>4 DEF CInv, Carriers
  <2>4. ASSUME NEW c \in Generators, exception'[c] # None, Awaited(c)'
        PROVE  exception'[c] \in uncaught'
    BY <1>3, <1>4, <1>5, <1>6, <2>4 DEF CInv, Carriers
  <2>5. ASSUME NEW e \in uncaught
        PROVE  /\ (\E y \in AllContexts : raised'[y] = e) \/ (\E c \in Generators : Holds(c, e)')
               /\ \A y \in AllContexts : \A z \in AllContexts : raised'[y] = e /\ raised'[z] = e => y = z
               /\ \A c \in Generators : \A d \in Generators : Holds(c, e)' /\ Holds(d, e)' => c = d
               /\ \A y \in AllContexts : \A c \in Generators : ~(raised'[y] = e /\ Holds(c, e)')
    <3>1. /\ \A c \in Generators : c # x => (Holds(c, e)' <=> Holds(c, e))
          /\ ~Holds(x, e)
          /\ \A c \in Generators : c = x => (Holds(c, e)' <=> raised[x] = e)
          /\ \A y \in AllContexts : raised'[y] = e <=> y # x /\ raised[y] = e
          /\ e # None
      <4>1. e # None
        BY DEF CInv, ContextTypes
      <4>2. \A y \in AllContexts : raised'[y] = e <=> y # x /\ raised[y] = e
        BY <1>3, <4>1
      <4> QED BY <2>1, <2>2, <4>1, <4>2 DEF f
    <3>2. /\ (\E y \in AllContexts : raised[y] = e) \/ (\E c \in Generators : Holds(c, e))
          /\ \A y \in AllContexts : \A z \in AllContexts : raised[y] = e /\ raised[z] = e => y = z
          /\ \A c \in Generators : \A d \in Generators : Holds(c, e) /\ Holds(d, e) => c = d
          /\ \A y \in AllContexts : \A c \in Generators : ~(raised[y] = e /\ Holds(c, e))
      BY DEF CInv, Carriers
    <3> QED BY <1>1, <3>1, <3>2
  <2> QED BY <1>4, <2>3, <2>4, <2>5 DEF Carriers
<1> QED BY <1>5, <1>7, <1>8, <1>9 DEF CInv

(* The end of a routine, or of a part of it: who resumed it goes on. *)
LEMMA LeavesInv ==
    ASSUME CInv, NEW w \in Workers, SuspendCalled(w) \/ ExitsTo(w)
    PROVE  CInv'
<1> DEFINE x == executing[w]
           y == caller_context[x]
<1> USE ContextNames
<1>1. /\ x \in Generators /\ at' \in [AllContexts -> OwnPlaces \cup RoutinePlaces]
      /\ \A z \in AllContexts : z # x => at'[z] = at[z]
      /\ \/ at[x] = "code" /\ at'[x] = "parked"
         \/ at[x] = "exit" /\ at'[x] = "over"
  <2>1. CASE SuspendCalled(w)
    BY <2>1, GoesRules DEF CInv, SuspendCalled, InRoutine, RoutinePlaces
  <2>2. CASE ExitsTo(w)
    BY <2>2, GoesRules DEF CInv, ExitsTo, InRoutine, RoutinePlaces
  <2> QED BY <2>1, <2>2
<1>2. /\ y \in AllContexts /\ at[y] = "return" /\ callee[y] = x
      /\ y \in Workers => y = w
      /\ \A v \in Workers : executing[v] # y /\ (executing[v] = x => v = w)
      /\ \A z \in AllContexts : callee[z] = x => z = y
      /\ x # y
  BY <1>1, Here DEF CInv
<1>3. UNCHANGED <<ready, deferred, callee, current_coroutine, last_coroutine, caller_context,
                  resultVars>>
  BY DEF SuspendCalled, ExitsTo, poolVars
<1>4. current_coroutine[w] = x
  BY <1>1 DEF CInv, Linked, Stands
<1>5. /\ executing' \in [Workers -> AllContexts] /\ executing'[w] = y
      /\ \A v \in Workers : v # w => executing'[v] = executing[v]
  <2>1. executing' = [executing EXCEPT ![w] = y]
    BY <1>4 DEF SuspendCalled, ExitsTo, Switch
  <2> QED BY <1>2, <2>1 DEF CInv, ContextTypes
<1> HIDE DEF x
<1>6. \A c \in Generators : InProgress(c)' <=> InProgress(c) /\ c # x
  <2> TAKE c \in Generators
  <2>1. CASE c = x
    BY <1>1, <2>1 DEF InProgress
  <2>2. CASE c # x
    BY <1>1, <2>2 DEF InProgress
  <2> QED BY <2>1, <2>2
<1> HIDE DEF y
<1>7. ContextTypes'
  <2>1. /\ \A v \in Workers : at'[v] \in OwnPlaces
        /\ \A c \in Generators : at'[c] \in RoutinePlaces
    <3>1. at'[x] \in RoutinePlaces /\ \A v \in Workers : v # x
      BY <1>1 DEF RoutinePlaces
    <3>2. /\ \A v \in Workers : at[v] \in OwnPlaces
          /\ \A c \in Generators : at[c] \in RoutinePlaces
      BY DEF CInv, ContextTypes
    <3> QED BY <1>1, <3>1, <3>2
  <2> QED BY <1>1, <1>3, <1>5, <2>1 DEF CInv, ContextTypes, resultVars
<1>8. Claims'
  <2>1. \A v \in Workers : callee'[v] = None <=> at'[v] \in {"loop", "done", "gone"}
    BY <1>1, <1>3 DEF CInv, Claims
  <2>2. \A c \in Generators : callee'[c] = None <=> at'[c] \notin {"resume", "return"}
    BY <1>1, <1>3 DEF CInv, Claims
  <2>3. ASSUME NEW z \in AllContexts
        PROVE  /\ at'[z] \in {"task", "resume"} => at'[callee'[z]] \in {"new", "parked"}
               /\ at'[z] = "return" => at'[callee'[z]] # "new"
    <3>1. CASE at'[z] \in {"task", "resume", "return"}
      <4>1. at[z] = at'[z] /\ callee'[z] = callee[z]
        BY <1>1, <1>3, <3>1
      <4>2. callee[z] \in Generators
        BY <3>1, <4>1, CalleeRules DEF CInv
      <4>3. /\ at[z] \in {"task", "resume"} => at[callee[z]] \in {"new", "parked"}
            /\ at[z] = "return" => at[callee[z]] # "new"
        BY DEF CInv, Claims
      <4>4. callee[z] # x => at'[callee[z]] = at[callee[z]]
        BY <1>1, <4>2
      <4> QED BY <1>1, <4>1, <4>3, <4>4
    <3> QED BY <3>1
  <2>4. ASSUME NEW v \in Workers, at'[v] \in {"resumed", "raised"}
        PROVE  at'[callee'[v]] \in {"parked", "over"}
    <3>1. at[v] \in {"resumed", "raised"}
      BY <1>1, <2>4
    <3>2. callee[v] \in Generators /\ at[callee[v]] \in {"parked", "over"}
      BY <3>1, CalleeRules DEF CInv, Claims
    <3> QED BY <1>1, <1>3, <3>2
  <2> QED BY <1>3, <2>1, <2>2, <2>3, <2>4 DEF CInv, Claims
<1>9. Handed'
  <2>1. \A c \in Generators : Queued(c)' <=> Queued(c)
    BY <1>3 DEF Queued
  <2>2. \A c \in Generators : Queued(c) => c # x
    BY <1>2 DEF CInv, Handed
  <2> QED BY <1>1, <1>3, <2>1, <2>2 DEF CInv, Handed
<1>10. Linked'
  <2>1. ASSUME NEW c \in Generators, InProgress(c)'
        PROVE  /\ caller_context'[c] \in AllContexts
               /\ at'[caller_context'[c]] = "return" /\ callee'[caller_context'[c]] = c
    <3>1. /\ caller_context[c] \in AllContexts
          /\ at[caller_context[c]] = "return" /\ callee[caller_context[c]] = c
      BY <1>6, <2>1 DEF CInv, Linked
    <3> QED BY <1>1, <1>3, <3>1
  <2>2. ASSUME NEW z \in AllContexts, at'[z] = "return", InProgress(callee[z])', NEW v \in Workers
        PROVE  executing'[v] # z
    <3>1. at[z] = "return" /\ callee'[z] = callee[z] /\ callee[z] \in Generators
      BY <1>1, <1>3, <2>2, CalleeRules DEF CInv
    <3>2. InProgress(callee[z]) /\ callee[z] # x
      <4>1. (callee[z])' = callee[z]
        BY <3>1
      <4> QED BY <1>1, <2>2, <3>1, <4>1 DEF InProgress
    <3> QED BY <1>2, <1>5, <3>1, <3>2 DEF CInv, Linked
  <2>3. \A z \in AllContexts :
          at'[z] \in {"resume", "return"} => last_coroutine'[callee'[z]] = Name(z)
    BY <1>1, <1>3 DEF CInv, Linked
  <2>4. ASSUME NEW v \in Workers
        PROVE  /\ Stands(v, {"resume", "return"})' => current_coroutine'[v] = callee'[executing'[v]]
               /\ ~Stands(v, {"resume", "return"})' => current_coroutine'[v] = Name(executing'[v])
               /\ executing'[v] # v => executing'[v] \in Generators /\ InProgress(executing[v])'
    <3>1. CASE v = w
      BY <1>1, <1>2, <1>3, <1>4, <1>5, <3>1 DEF Stands, InProgress
    <3>2. CASE v # w
      <4>1. /\ executing'[v] = executing[v] /\ executing[v] \in AllContexts
            /\ executing[v] # x /\ at'[executing[v]] = at[executing[v]]
        BY <1>1, <1>2, <1>5, <3>2 DEF CInv, ContextTypes
      <4>2. current_coroutine'[v] = current_coroutine[v] /\ callee' = callee
        BY <1>3
      <4> QED BY <4>1, <4>2 DEF CInv, Linked, Stands, InProgress
    <3> QED BY <3>1, <3>2
  <2> QED BY <2>1, <2>2, <2>3, <2>4 DEF Linked
<1>11. Homes'
  <2> PICK home \in [AllContexts -> Workers] : Homed(home)
    BY DEF CInv, Homes
  <2>1. home[y] = w
    BY <1>1, Here DEF CInv, Homed, x, y
  <2>2. \A v \in Workers : home[v] = v /\ home[executing'[v]] = v
    <3> TAKE v \in Workers
    <3>1. CASE v = w
      BY <1>5, <2>1, <3>1 DEF Homed
    <3>2. CASE v # w
      BY <1>5, <3>2 DEF Homed
    <3> QED BY <3>1, <3>2
  <2>3. \A c \in Generators : InProgress(c)' => home[caller_context'[c]] = home[c]
    BY <1>3, <1>6 DEF Homed
  <2> QED BY <2>2, <2>3 DEF Homes, Homed
<1>12. Exceptions'
  <2>1. \A z \in AllContexts : raised'[z] # None <=> at'[z] = "raised"
    BY <1>1, <1>3 DEF CInv, Exceptions, resultVars
  <2>2. \A c \in Generators : at'[c] \in {"exit", "over"} <=> at[c] \in {"exit", "over"}
    BY <1>1
  <2>3. \A e \in Generators : at[e] = "raised" => at'[e] = "raised"
    BY <1>1
  <2> QED BY <1>3, <2>1, <2>2, <2>3 DEF CInv, Exceptions, resultVars
<1>13. Carriers'
  <2>1. \A c : Awaited(c)' <=> Awaited(c)
    BY <1>1, <1>3 DEF Awaited
  <2> QED BY <1>3, <2>1, CarriersKept DEF CInv, resultVars
<1> QED BY <1>7, <1>8, <1>9, <1>10, <1>11, <1>12, <1>13 DEF CInv

LEMMA ResumeCalledInv ==
    ASSUME CInv, NEW w \in Workers, NEW c \in Generators, ResumeCalled(w, c)
    PROVE  CInv'
<1> DEFINE x == executing[w]
<1> USE ContextNames
<1>1. /\ x \in AllContexts /\ (x \in Workers => x = w) /\ (x \in Generators => x # w)
      /\ at' \in [AllContexts -> OwnPlaces \cup RoutinePlaces]
      /\ at[x] \in {"task", "code"} /\ at'[x] = "resume"
      /\ \A y \in AllContexts : y # x => at'[y] = at[y]
      /\ \A v \in Workers : executing[v] = x => v = w
  <2>1. Goes(w, {"task", "code"}, "resume")
    BY DEF ResumeCalled
  <2> QED BY <2>1, GoesRules, Here DEF CInv, OwnPlaces
<1>2. /\ at[c] \in {"new", "parked"} /\ x # c /\ ~Queued(c)
      /\ \A y \in AllContexts : callee[y] = c => y = x
  <2>1. CASE x = w
    <3>1. callee[x] = c /\ at[x] = "task"
      BY <1>1, <2>1 DEF CInv, ContextTypes, OwnPlaces, ResumeCalled
    <3>2. at[c] \in {"new", "parked"}
      BY <1>1, <3>1 DEF CInv, Claims
    <3>3. \A y \in AllContexts : callee[y] = c => y = x
      BY <1>1, <3>1 DEF CInv, Claims
    <3> QED BY <1>1, <3>1, <3>2, <3>3 DEF CInv, Handed
  <2>2. CASE x # w
    <3>1. MayResume(c)
      BY <2>2 DEF ResumeCalled
    <3> QED BY <1>1, <3>1 DEF MayResume, Queued, In
  <2> QED BY <2>1, <2>2
<1>3. /\ callee' \in [AllContexts -> Generators \cup {None}] /\ callee'[x] = c
      /\ \A y \in AllContexts : y # x => callee'[y] = callee[y]
      /\ current_coroutine' \in [Workers -> Generators \cup {None}]
      /\ current_coroutine'[w] = c
      /\ \A v \in Workers : v # w => current_coroutine'[v] = current_coroutine[v]
  BY <1>1 DEF CInv, ContextTypes, ResumeCalled
<1>4. /\ last_coroutine' \in [Generators -> Generators \cup {None}]
      /\ last_coroutine'[c] = Name(x)
      /\ \A d \in Generators : d # c => last_coroutine'[d] = last_coroutine[d]
  <2>1. current_coroutine[w] = Name(x)
    BY <1>1 DEF CInv, Linked, Stands
  <2> QED BY <2>1 DEF CInv, ContextTypes, ResumeCalled
<1>5. UNCHANGED <<ready, deferred, executing, caller_context, resultVars>>
  BY DEF ResumeCalled, poolVars
<1>6. at[x] \in {"task", "code"} /\ (x \in Generators => at[x] = "code")
      /\ (x \in Workers => at[x] = "task")
  BY <1>1 DEF CInv, ContextTypes, OwnPlaces, RoutinePlaces
<1> HIDE DEF x
<1>7. \A d \in Generators : InProgress(d)' <=> InProgress(d)
  <2> TAKE d \in Generators
  <2>1. CASE d = x
    BY <1>1, <1>6, <2>1 DEF InProgress
  <2>2. CASE d # x
    BY <1>1, <2>2 DEF InProgress
  <2> QED BY <2>1, <2>2
<1>8. ASSUME NEW y \in AllContexts, y # x, at[y] \in {"task", "resume", "return"}
      PROVE  /\ callee[y] \in Generators /\ callee[y] # c
             /\ at[y] \in {"task", "resume"} => at'[callee[y]] \in {"new", "parked"}
             /\ at[y] = "return" => at'[callee[y]] # "new"
  <2>1. callee[y] \in Generators /\ callee[y] # c
    BY <1>2, <1>8, CalleeRules DEF CInv
  <2>2. /\ at[y] \in {"task", "resume"} => at[callee[y]] \in {"new", "parked"}
        /\ at[y] = "return" => at[callee[y]] # "new"
    BY DEF CInv, Claims
  <2>3. CASE callee[y] # x
    BY <1>1, <2>1, <2>2, <2>3
  <2>4. CASE callee[y] = x
    BY <1>1, <1>6, <2>1, <2>2, <2>4
  <2> QED BY <2>3, <2>4
<1>9. ContextTypes'
  <2>1. /\ \A v \in Workers : at'[v] \in OwnPlaces
        /\ \A d \in Generators : at'[d] \in RoutinePlaces
    <3>1. at'[x] \in OwnPlaces /\ at'[x] \in RoutinePlaces
      BY <1>1 DEF OwnPlaces, RoutinePlaces
    <3> QED BY <1>1, <3>1 DEF CInv, ContextTypes
  <2> QED BY <1>1, <1>3, <1>4, <1>5, <2>1 DEF CInv, ContextTypes, resultVars
<1>10. Claims'
  <2>1. \A y \in AllContexts : \A z \in AllContexts :
          callee'[y] = callee'[z] /\ callee'[y] # None => y = z
    BY <1>2, <1>3 DEF CInv, Claims
  <2>2. \A v \in Workers : callee'[v] = None <=> at'[v] \in {"loop", "done", "gone"}
    <3> TAKE v \in Workers
    <3>1. CASE v = x
      BY <1>1, <1>3, <3>1
    <3>2. CASE v # x
      BY <1>1, <1>3, <3>2 DEF CInv, Claims
    <3> QED BY <3>1, <3>2
  <2>3. \A d \in Generators : callee'[d] = None <=> at'[d] \notin {"resume", "return"}
    <3> TAKE d \in Generators
    <3>1. CASE d = x
      BY <1>1, <1>3, <3>1
    <3>2. CASE d # x
      BY <1>1, <1>3, <3>2 DEF CInv, Claims
    <3> QED BY <3>1, <3>2
  <2>4. ASSUME NEW y \in AllContexts
        PROVE  /\ at'[y] \in {"task", "resume"} => at'[callee'[y]] \in {"new", "parked"}
               /\ at'[y] = "return" => at'[callee'[y]] # "new"
    <3>1. CASE y = x
      BY <1>1, <1>2, <1>3, <3>1
    <3>2. CASE y # x
      BY <1>1, <1>3, <1>8, <3>2
    <3> QED BY <3>1, <3>2
  <2>5. ASSUME NEW v \in Workers, at'[v] \in {"resumed", "raised"}
        PROVE  at'[callee'[v]] \in {"parked", "over"}
    <3>1. at[v] \in {"resumed", "raised"} /\ v # x /\ callee'[v] = callee[v]
      BY <1>1, <1>3, <2>5
    <3>2. callee[v] \in Generators /\ at[callee[v]] \in {"parked", "over"}
      BY <3>1, CalleeRules DEF CInv, Claims
    <3>3. callee[v] # x
      BY <1>1, <3>2
    <3> QED BY <1>1, <3>1, <3>2, <3>3
  <2> QED BY <2>1, <2>2, <2>3, <2>4, <2>5 DEF Claims
<1>11. Handed'
  <2>1. \A d \in Generators : Queued(d)' <=> Queued(d)
    BY <1>5 DEF Queued
  <2>2. \A d \in Generators : Queued(d) => at'[d] \in {"new", "parked"}
    BY <1>1, <1>6 DEF CInv, Handed
  <2>3. \A d \in Generators : Queued(d) => \A y \in AllContexts : callee'[y] # d
    BY <1>2, <1>3 DEF CInv, Handed
  <2> QED BY <1>5, <2>1, <2>2, <2>3 DEF CInv, Handed
<1>12. Linked'
  <2>1. ASSUME NEW d \in Generators, InProgress(d)'
        PROVE  /\ caller_context'[d] \in AllContexts
               /\ at'[caller_context'[d]] = "return" /\ callee'[caller_context'[d]] = d
    <3>1. /\ caller_context[d] \in AllContexts
          /\ at[caller_context[d]] = "return" /\ callee[caller_context[d]] = d
      BY <1>7, <2>1 DEF CInv, Linked
    <3>2. caller_context[d] # x
      BY <1>1, <3>1
    <3> QED BY <1>1, <1>3, <1>5, <3>1, <3>2
  <2>2. ASSUME NEW z \in AllContexts, at'[z] = "return", InProgress(callee[z])', NEW v \in Workers
        PROVE  executing'[v] # z
    <3>1. at[z] = "return" /\ z # x /\ callee'[z] = callee[z] /\ callee[z] \in Generators
      BY <1>1, <1>3, <2>2, CalleeRules DEF CInv
    <3>2. InProgress(callee[z])
      <4>1. (callee[z])' = callee[z]
        BY <3>1
      <4> QED BY <1>7, <2>2, <3>1, <4>1 DEF InProgress
    <3> QED BY <1>5, <3>1, <3>2 DEF CInv, Linked
  <2>3. ASSUME NEW z \in AllContexts, at'[z] \in {"resume", "return"}
        PROVE  last_coroutine'[callee'[z]] = Name(z)
    <3>1. CASE z = x
      BY <1>3, <1>4, <3>1
    <3>2. CASE z # x
      <4>1. at[z] \in {"resume", "return"} /\ callee[z] \in Generators /\ callee[z] # c
        BY <1>1, <1>8, <2>3, <3>2
      <4> QED BY <1>3, <1>4, <3>2, <4>1 DEF CInv, Linked
    <3> QED BY <3>1, <3>2
  <2>4. ASSUME NEW v \in Workers
        PROVE  /\ Stands(v, {"resume", "return"})' => current_coroutine'[v] = callee'[executing'[v]]
               /\ ~Stands(v, {"resume", "return"})' => current_coroutine'[v] = Name(executing'[v])
               /\ executing'[v] # v => executing'[v] \in Generators /\ InProgress(executing[v])'
    <3>1. executing'[v] = executing[v] /\ executing[v] \in AllContexts
      BY <1>5 DEF CInv, ContextTypes
    <3>2. executing[v] # v => executing[v] \in Generators /\ InProgress(executing[v])'
      <4>1. (executing[v])' = executing[v]
        BY <3>1
      <4> QED BY <1>7, <3>1, <4>1 DEF CInv, Linked, InProgress
    <3>3. CASE v = w
      <4>1. executing'[v] = x
        BY <3>1, <3>3 DEF x
      <4> QED BY <1>1, <1>3, <3>1, <3>2, <3>3, <4>1 DEF Stands
    <3>4. CASE v # w
      <4>1. executing[v] # x /\ current_coroutine'[v] = current_coroutine[v]
        BY <1>1, <1>3, <3>4
      <4>2. at'[executing[v]] = at[executing[v]] /\ callee'[executing[v]] = callee[executing[v]]
        BY <1>1, <1>3, <3>1, <4>1
      <4> QED BY <3>1, <3>2, <4>1, <4>2 DEF CInv, Linked, Stands
    <3> QED BY <3>3, <3>4
  <2> QED BY <2>1, <2>2, <2>3, <2>4 DEF Linked
<1>13. Homes'
  BY <1>5, <1>7, StillHomed DEF CInv
<1>14. Exceptions'
  <2>1. /\ \A y \in AllContexts : at'[y] = "raised" <=> at[y] = "raised"
        /\ \A d \in Generators : at'[d] \in {"exit", "over"} <=> at[d] \in {"exit", "over"}
    BY <1>1
  <2> QED BY <1>5, <2>1 DEF CInv, Exceptions, resultVars
<1>15. Carriers'
  <2>1. \A d : Awaited(d)' <=> Awaited(d)
    BY <1>1, <1>3 DEF Awaited
  <2> QED BY <1>5, <2>1, CarriersKept DEF CInv, resultVars
<1> QED BY <1>9, <1>10, <1>11, <1>12, <1>13, <1>14, <1>15 DEF CInv

LEMMA ResumeReturnsInv == ASSUME CInv, NEW w \in Workers, ResumeReturns(w) PROVE CInv'
<1> DEFINE x == executing[w]
           c == callee[x]
           f == exception[c]
           to == IF Rethrows(x, c) THEN "raised" ELSE IF x = w THEN "resumed" ELSE "code"
<1> USE ContextNames
<1>1. /\ x \in AllContexts /\ (x \in Workers => x = w) /\ (x \in Generators => x # w)
      /\ \A v \in Workers : executing[v] = x => v = w
  BY Here DEF CInv
<1>2. /\ at' \in [AllContexts -> OwnPlaces \cup RoutinePlaces]
      /\ at[x] = "return" /\ at'[x] = to
      /\ \A y \in AllContexts : y # x => at'[y] = at[y]
  <2>1. Goes(w, {"return"}, to) /\ to \in {"raised", "resumed", "code"}
    BY DEF ResumeReturns
  <2> HIDE DEF to
  <2>2. to \in OwnPlaces \cup RoutinePlaces
    BY <2>1 DEF OwnPlaces, RoutinePlaces
  <2> QED BY <2>1, <2>2, GoesRules DEF CInv
<1>3. /\ c \in Generators /\ at[c] \in {"parked", "over"} /\ x # c
      /\ \A y \in AllContexts : callee[y] = c => y = x
  <2>1. c \in Generators
    BY <1>1, <1>2, CalleeRules DEF CInv
  <2>2. ~InProgress(c) /\ at[c] # "new" /\ at[c] \in RoutinePlaces
    BY <1>1, <1>2, <2>1 DEF CInv, Linked, Claims, ContextTypes
  <2>3. \A y \in AllContexts : callee[y] = c => y = x
    BY <1>1, <2>1 DEF CInv, Claims
  <2> QED BY <1>2, <2>1, <2>2, <2>3 DEF InProgress, RoutinePlaces
<1>4. /\ f # None => to = "raised"
      /\ f = None => to \in {"resumed", "code"}
      /\ f = None /\ x \in Workers => to = "resumed"
      /\ f = None /\ x \in Generators => to = "code"
      /\ f \in Generators \cup {None}
  <2>1. Rethrows(x, c) <=> f # None
    BY <1>1 DEF Rethrows
  <2> QED BY <1>1, <1>3, <2>1 DEF CInv, ContextTypes
<1>5. /\ raised' \in [AllContexts -> Generators \cup {None}] /\ raised'[x] = f
      /\ \A y \in AllContexts : y # x => raised'[y] = raised[y]
  <2>1. raised[x] = None
    BY <1>1, <1>2 DEF CInv, Exceptions
  <2>2. raised' = [raised EXCEPT ![x] = f]
    <3>1. raised' = [raised EXCEPT ![x] = IF f # None THEN f ELSE raised[x]]
      BY <1>1 DEF ResumeReturns, Rethrows
    <3>2. (IF f # None THEN f ELSE raised[x]) = f
      BY <2>1
    <3> HIDE DEF f
    <3> QED BY <3>1, <3>2, Zenon
  <2> QED BY <1>1, <1>4, <2>2 DEF CInv, ContextTypes
<1>6. /\ current_coroutine' \in [Workers -> Generators \cup {None}]
      /\ current_coroutine'[w] = Name(x)
      /\ \A v \in Workers : v # w => current_coroutine'[v] = current_coroutine[v]
      /\ last_coroutine' \in [Generators -> Generators \cup {None}]
      /\ \A d \in Generators : d # c => last_coroutine'[d] = last_coroutine[d]
  <2>1. last_coroutine[c] = Name(x)
    BY <1>1, <1>2 DEF CInv, Linked
  <2>2. current_coroutine' = [current_coroutine EXCEPT ![w] = last_coroutine[c]]
        /\ last_coroutine' = [last_coroutine EXCEPT ![c] = None]
    BY DEF ResumeReturns
  <2> QED BY <1>3, <2>1, <2>2 DEF CInv, ContextTypes
<1>7. /\ callee' \in [AllContexts -> Generators \cup {None}]
      /\ callee'[x] = IF x \in Workers THEN c ELSE None
      /\ \A y \in AllContexts : y # x => callee'[y] = callee[y]
  <2>1. callee' = [callee EXCEPT ![x] = IF x = w THEN c ELSE None]
    BY DEF ResumeReturns
  <2> QED BY <1>1, <1>3, <2>1 DEF CInv, ContextTypes
<1>8. UNCHANGED <<ready, deferred, executing, caller_context, is_completed, exception, uncaught>>
  BY DEF ResumeReturns, poolVars
<1>9. \A y \in AllContexts : y # x /\ callee[y] # None => callee[y] # c
  BY <1>3
<1>10. at'[x] \in {"raised", "resumed", "code"} /\ (x \in Generators => at'[x] \in {"raised", "code"})
       /\ (x \in Workers => at'[x] \in {"raised", "resumed"})
  BY <1>2, <1>4
<1>11. raised[x] = None
  BY <1>1, <1>2 DEF CInv, Exceptions
<1> HIDE DEF x, c, f, to
<1>12. \A d \in Generators : InProgress(d)' <=> InProgress(d)
  <2> TAKE d \in Generators
  <2>1. CASE d = x
    BY <1>2, <1>10, <2>1 DEF InProgress
  <2>2. CASE d # x
    BY <1>2, <2>2 DEF InProgress
  <2> QED BY <2>1, <2>2
<1>13. ContextTypes'
  <2>1. /\ \A v \in Workers : at'[v] \in OwnPlaces
        /\ \A d \in Generators : at'[d] \in RoutinePlaces
    <3>1. x \in Workers => at'[x] \in OwnPlaces
      BY <1>10 DEF OwnPlaces
    <3>2. x \in Generators => at'[x] \in RoutinePlaces
      BY <1>10 DEF RoutinePlaces
    <3> QED BY <1>2, <3>1, <3>2 DEF CInv, ContextTypes
  <2> QED BY <1>2, <1>5, <1>6, <1>7, <1>8, <2>1 DEF CInv, ContextTypes
<1>14. Claims'
  <2>1. \A y \in AllContexts : \A z \in AllContexts :
          callee'[y] = callee'[z] /\ callee'[y] # None => y = z
    BY <1>1, <1>3, <1>7 DEF CInv, Claims
  <2>2. \A v \in Workers : callee'[v] = None <=> at'[v] \in {"loop", "done", "gone"}
    <3> TAKE v \in Workers
    <3>1. CASE v = x
      BY <1>3, <1>7, <1>10, <3>1
    <3>2. CASE v # x
      BY <1>2, <1>7, <3>2 DEF CInv, Claims
    <3> QED BY <3>1, <3>2
  <2>3. \A d \in Generators : callee'[d] = None <=> at'[d] \notin {"resume", "return"}
    <3> TAKE d \in Generators
    <3>1. CASE d = x
      BY <1>1, <1>7, <1>10, <3>1
    <3>2. CASE d # x
      BY <1>2, <1>7, <3>2 DEF CInv, Claims
    <3> QED BY <3>1, <3>2
  <2>4. ASSUME NEW y \in AllContexts
        PROVE  /\ at'[y] \in {"task", "resume"} => at'[callee'[y]] \in {"new", "parked"}
               /\ at'[y] = "return" => at'[callee'[y]] # "new"
    <3>1. CASE at'[y] \in {"task", "resume", "return"}
      <4>1. y # x /\ at[y] = at'[y] /\ callee'[y] = callee[y]
        BY <1>2, <1>7, <1>10, <3>1
      <4>2. callee[y] \in Generators
        BY <3>1, <4>1, CalleeRules DEF CInv
      <4>3. /\ at[y] \in {"task", "resume"} => at[callee[y]] \in {"new", "parked"}
            /\ at[y] = "return" => at[callee[y]] # "new"
        BY DEF CInv, Claims
      <4>4. callee[y] # x => at'[callee[y]] = at[callee[y]]
        BY <1>2, <4>2
      <4> QED BY <1>2, <1>10, <4>1, <4>3, <4>4
    <3> QED BY <3>1
  <2>5. ASSUME NEW v \in Workers, at'[v] \in {"resumed", "raised"}
        PROVE  at'[callee'[v]] \in {"parked", "over"}
    <3>1. CASE v = x
      BY <1>2, <1>3, <1>7, <3>1
    <3>2. CASE v # x
      <4>1. at[v] \in {"resumed", "raised"} /\ callee'[v] = callee[v]
        BY <1>2, <1>7, <2>5, <3>2
      <4>2. callee[v] \in Generators /\ at[callee[v]] \in {"parked", "over"}
        BY <4>1, CalleeRules DEF CInv, Claims
      <4>3. callee[v] # x
        BY <1>2, <4>2
      <4> QED BY <1>2, <4>1, <4>2, <4>3
    <3> QED BY <3>1, <3>2
  <2> QED BY <2>1, <2>2, <2>3, <2>4, <2>5 DEF Claims
<1>15. Handed'
  <2>1. \A d \in Generators : Queued(d)' <=> Queued(d)
    BY <1>8 DEF Queued
  <2>2. \A d \in Generators : Queued(d) => at'[d] \in {"new", "parked"}
    BY <1>2 DEF CInv, Handed
  <2>3. \A d \in Generators : Queued(d) => \A y \in AllContexts : callee'[y] # d
    BY <1>1, <1>3, <1>7 DEF CInv, Handed, c
  <2> QED BY <1>8, <2>1, <2>2, <2>3 DEF CInv, Handed
<1>16. Linked'
  <2>1. ASSUME NEW d \in Generators, InProgress(d)'
        PROVE  /\ caller_context'[d] \in AllContexts
               /\ at'[caller_context'[d]] = "return" /\ callee'[caller_context'[d]] = d
    <3>1. /\ InProgress(d) /\ caller_context[d] \in AllContexts
          /\ at[caller_context[d]] = "return" /\ callee[caller_context[d]] = d
      BY <1>12, <2>1 DEF CInv, Linked
    <3>2. caller_context[d] # x
      BY <1>3, <3>1 DEF c, InProgress
    <3> QED BY <1>2, <1>7, <1>8, <3>1, <3>2
  <2>2. ASSUME NEW z \in AllContexts, at'[z] = "return", InProgress(callee[z])', NEW v \in Workers
        PROVE  executing'[v] # z
    <3>1. at[z] = "return" /\ z # x /\ callee'[z] = callee[z] /\ callee[z] \in Generators
      BY <1>2, <1>7, <1>10, <2>2, CalleeRules DEF CInv
    <3>2. InProgress(callee[z])
      <4>1. (callee[z])' = callee[z]
        BY <3>1
      <4> QED BY <1>12, <2>2, <3>1, <4>1 DEF InProgress
    <3> QED BY <1>8, <3>1, <3>2 DEF CInv, Linked
  <2>3. ASSUME NEW z \in AllContexts, at'[z] \in {"resume", "return"}
        PROVE  last_coroutine'[callee'[z]] = Name(z)
    <3>1. z # x /\ at[z] \in {"resume", "return"} /\ callee'[z] = callee[z]
      BY <1>2, <1>7, <1>10, <2>3
    <3>2. callee[z] \in Generators /\ callee[z] # c
      BY <1>3, <3>1, CalleeRules DEF CInv
    <3> QED BY <1>6, <3>1, <3>2 DEF CInv, Linked
  <2>4. ASSUME NEW v \in Workers
        PROVE  /\ Stands(v, {"resume", "return"})' => current_coroutine'[v] = callee'[executing'[v]]
               /\ ~Stands(v, {"resume", "return"})' => current_coroutine'[v] = Name(executing'[v])
               /\ executing'[v] # v => executing'[v] \in Generators /\ InProgress(executing[v])'
    <3>1. executing'[v] = executing[v] /\ executing[v] \in AllContexts
      BY <1>8 DEF CInv, ContextTypes
    <3>2. executing[v] # v => executing[v] \in Generators /\ InProgress(executing[v])'
      <4>1. (executing[v])' = executing[v]
        BY <3>1
      <4> QED BY <1>12, <3>1, <4>1 DEF CInv, Linked, InProgress
    <3>3. CASE v = w
      <4>1. executing'[v] = x
        BY <3>1, <3>3 DEF x
      <4> QED BY <1>6, <1>10, <3>1, <3>2, <3>3, <4>1 DEF Stands
    <3>4. CASE v # w
      <4>1. executing[v] # x /\ current_coroutine'[v] = current_coroutine[v]
        BY <1>1, <1>6, <3>4
      <4>2. at'[executing[v]] = at[executing[v]] /\ callee'[executing[v]] = callee[executing[v]]
        BY <1>2, <1>7, <3>1, <4>1
      <4> QED BY <3>1, <3>2, <4>1, <4>2 DEF CInv, Linked, Stands
    <3> QED BY <3>3, <3>4
  <2> QED BY <2>1, <2>2, <2>3, <2>4 DEF Linked
<1>17. Homes'
  BY <1>8, <1>12, StillHomed DEF CInv
<1>18. Exceptions'
  <2>1. \A y \in AllContexts : raised'[y] # None <=> at'[y] = "raised"
    <3> TAKE y \in AllContexts
    <3>1. CASE y = x
      BY <1>2, <1>4, <1>5, <3>1
    <3>2. CASE y # x
      BY <1>2, <1>5, <3>2 DEF CInv, Exceptions
    <3> QED BY <3>1, <3>2
  <2>2. \A d \in Generators :
          /\ is_completed'[d] <=> at'[d] \in {"exit", "over"}
          /\ exception'[d] # None => at'[d] \in {"exit", "over"}
    BY <1>2, <1>8, <1>10 DEF CInv, Exceptions
  <2>3. ASSUME NEW e \in Generators,
               \/ e \in uncaught'
               \/ \E y \in AllContexts : raised'[y] = e
               \/ \E d \in Generators : exception'[d] = e
        PROVE  \/ at'[e] \in {"exit", "over"}
               \/ at'[e] = "raised" /\ raised'[e] = e
    <3>1. \/ e \in uncaught
          \/ \E y \in AllContexts : raised[y] = e
          \/ \E d \in Generators : exception[d] = e
      BY <1>3, <1>5, <1>8, <2>3 DEF f
    <3>2. at[e] \in {"exit", "over"} \/ (at[e] = "raised" /\ raised[e] = e)
      BY <3>1 DEF CInv, Exceptions
    <3> QED BY <1>2, <1>5, <3>2
  <2> QED BY <2>1, <2>2, <2>3 DEF Exceptions
<1>19. Carriers'
  <2>1. \A d \in Generators : d # c => (Awaited(d)' <=> Awaited(d))
    BY <1>2, <1>7, <1>10 DEF Awaited, c
  <2>2. \A d \in Generators : d = c => Awaited(d) /\ ~Awaited(d)'
    BY <1>1, <1>2, <1>3, <1>7, <1>10 DEF Awaited, c
  <2>3. \A d \in Generators : \A e : d # c => (Holds(d, e)' <=> Holds(d, e))
    BY <1>8, <2>1 DEF Holds
  <2>4. \A d \in Generators : \A e : d = c => ~Holds(d, e)' /\ (Holds(d, e) <=> f = e)
    BY <1>8, <2>2 DEF Holds, f
  <2>5. \A y \in AllContexts : raised'[y] # None => raised'[y] \in uncaught'
    BY <1>3, <1>5, <1>8, <2>2 DEF CInv, Carriers, f
  <2>6. \A d \in Generators : exception'[d] # None /\ Awaited(d)' => exception'[d] \in uncaught'
    BY <1>8, <2>1, <2>2 DEF CInv, Carriers
  <2>7. ASSUME NEW e \in uncaught
        PROVE  /\ (\E y \in AllContexts : raised'[y] = e) \/ (\E d \in Generators : Holds(d, e)')
               /\ \A y \in AllContexts : \A z \in AllContexts : raised'[y] = e /\ raised'[z] = e => y = z
               /\ \A d \in Generators : \A g \in Generators : Holds(d, e)' /\ Holds(g, e)' => d = g
               /\ \A y \in AllContexts : \A d \in Generators : ~(raised'[y] = e /\ Holds(d, e)')
    <3>1. e # None
      BY DEF CInv, ContextTypes
    <3>2. /\ (\E y \in AllContexts : raised[y] = e) \/ (\E d \in Generators : Holds(d, e))
          /\ \A y \in AllContexts : \A z \in AllContexts : raised[y] = e /\ raised[z] = e => y = z
          /\ \A d \in Generators : \A g \in Generators : Holds(d, e) /\ Holds(g, e) => d = g
          /\ \A y \in AllContexts : \A d \in Generators : ~(raised[y] = e /\ Holds(d, e))
      BY DEF CInv, Carriers
    <3>3. \A d \in Generators : (Holds(d, e)' <=> d # c /\ Holds(d, e))
      BY <2>3, <2>4
    <3>4. \A y \in AllContexts : raised'[y] = e <=> raised[y] = e \/ (y = x /\ Holds(c, e))
      BY <1>3, <1>5, <1>11, <2>4, <3>1
    <3> QED BY <1>1, <1>3, <3>2, <3>3, <3>4
  <2> QED BY <1>8, <2>5, <2>6, <2>7 DEF Carriers
<1> QED BY <1>13, <1>14, <1>15, <1>16, <1>17, <1>18, <1>19 DEF CInv

LEMMA QueuesKept ==
    ASSUME CInv, UNCHANGED <<contextVars, resultVars>>,
           ready' \in Seq(Generators), deferred' \in [Workers -> Seq(Generators)], Handed'
    PROVE  CInv'
<1>1. ContextTypes'
  BY DEF CInv, ContextTypes, contextVars, resultVars
<1>2. Claims'
  BY DEF CInv, Claims, contextVars
<1>3. Linked' /\ Homes'
  BY DEF CInv, Linked, Homes, Homed, InProgress, Stands, contextVars
<1>4. Exceptions' /\ Carriers'
  BY DEF CInv, Exceptions, Carriers, Holds, Awaited, contextVars, resultVars
<1> QED BY <1>1, <1>2, <1>3, <1>4 DEF CInv

LEMMA QuietInv ==
    ASSUME CInv, UNCHANGED <<ready, deferred, contextVars, resultVars>>
    PROVE  CInv'
<1>1. ready' \in Seq(Generators) /\ deferred' \in [Workers -> Seq(Generators)]
  BY DEF CInv, ContextTypes
<1>2. Handed'
  BY DEF CInv, Handed, Queued, contextVars
<1> QED BY <1>1, <1>2, QueuesKept

LEMMA SubmitsResumptionInv == ASSUME CInv, SubmitsResumption PROVE CInv'
<1> PICK c \in Generators : MayResume(c) /\ Submit(c)
  BY DEF SubmitsResumption
<1>1. UNCHANGED <<contextVars, resultVars, deferred>> /\ ready' = Append(ready, c)
  BY DEF SubmitsResumption, Submit
<1>2. UNCHANGED <<at, callee>>
  BY <1>1 DEF contextVars
<1>3. /\ at[c] \in {"new", "parked"} /\ \A x \in AllContexts : callee[x] # c
      /\ ~In(c, ready) /\ \A w \in Workers : ~In(c, deferred[w])
  BY DEF MayResume, In
<1>4. /\ ready' \in Seq(Generators) /\ deferred' \in [Workers -> Seq(Generators)]
      /\ \A d : In(d, ready') <=> In(d, ready) \/ d = c
      /\ Distinct(ready')
  BY <1>1, <1>3, AppendRules DEF CInv, ContextTypes, Handed
<1>5. Handed'
  <2>1. \A d \in Generators : \A w \in Workers : In(d, deferred[w])' <=> In(d, deferred[w])
    BY <1>1
  <2>2. \A d \in Generators : Queued(d)' => Queued(d) \/ d = c
    BY <1>1, <1>4 DEF Queued
  <2>3. \A d \in Generators : \A w \in Workers : In(d, deferred'[w]) =>
          ~In(d, ready') /\ \A v \in Workers : In(d, deferred'[v]) => v = w
    BY <1>1, <1>3, <1>4 DEF CInv, Handed
  <2>4. \A w \in Workers : Distinct(deferred'[w])
    BY <1>1 DEF CInv, Handed
  <2>5. \A d \in Generators : Queued(d)' =>
          at'[d] \in {"new", "parked"} /\ \A x \in AllContexts : callee'[x] # d
    BY <1>2, <1>3, <2>2 DEF CInv, Handed
  <2> QED BY <1>4, <2>3, <2>4, <2>5 DEF Handed
<1> QED BY <1>1, <1>4, <1>5, QueuesKept

(* A step of a task, between its coroutine's resumptions. *)
LEMMA TaskKeeps ==
    ASSUME CInv, NEW w \in Workers, NEW from, NEW to \in {"task", "done", "loop", "gone"},
           executing[w] = w, Goes(w, from, to), from \subseteq {"loop", "resumed", "done"},
           UNCHANGED <<executing, current_coroutine, last_coroutine, caller_context, resultVars>>,
           NEW c \in Generators \cup {None}, callee' = [callee EXCEPT ![w] = c],
           c = None <=> to # "task",
           c # None => /\ at[c] \in {"new", "parked"}
                       /\ \A y \in AllContexts : callee[y] # c,
           ready' \in Seq(Generators), deferred' \in [Workers -> Seq(Generators)], Handed'
    PROVE  CInv'
<1> USE ContextNames
<1>1. /\ at' \in [AllContexts -> OwnPlaces \cup RoutinePlaces]
      /\ at[w] \in {"loop", "resumed", "done"} /\ at'[w] = to
      /\ \A y \in AllContexts : y # w => at'[y] = at[y]
      /\ to \in OwnPlaces \cup RoutinePlaces
  <2>1. to \in OwnPlaces \cup RoutinePlaces
    BY DEF OwnPlaces
  <2>2. at[executing[w]] \in from
    BY <2>1, GoesRules DEF CInv
  <2> QED BY <2>1, <2>2, GoesRules DEF CInv
<1>2. /\ callee' \in [AllContexts -> Generators \cup {None}] /\ callee'[w] = c
      /\ \A y \in AllContexts : y # w => callee'[y] = callee[y]
  BY DEF CInv, ContextTypes
<1>3. UNCHANGED <<executing, current_coroutine, last_coroutine, caller_context,
                  is_completed, exception, raised, uncaught>>
  BY DEF resultVars
<1>4. Linked' /\ Homes'
  <2>1. from \cap {"resume", "return"} = {} /\ to \notin {"resume", "return"}
    OBVIOUS
  <2>2. \A y \in AllContexts : y # executing[w] => callee'[y] = callee[y]
    BY <1>2
  <2> QED BY <1>1, <2>1, <2>2, StepKeepsLinks
<1>5. ContextTypes'
  <2>1. /\ \A v \in Workers : at'[v] \in OwnPlaces
        /\ \A d \in Generators : at'[d] \in RoutinePlaces
    <3>1. to \in OwnPlaces
      BY DEF OwnPlaces
    <3>2. /\ \A v \in Workers : at[v] \in OwnPlaces
          /\ \A d \in Generators : at[d] \in RoutinePlaces /\ d # w
      BY DEF CInv, ContextTypes
    <3> QED BY <1>1, <3>1, <3>2
  <2> QED BY <1>1, <1>2, <1>3, <2>1 DEF CInv, ContextTypes
<1>6. Claims'
  <2>1. \A y \in AllContexts : \A z \in AllContexts :
          callee'[y] = callee'[z] /\ callee'[y] # None => y = z
    <3> SUFFICES ASSUME NEW y \in AllContexts, NEW z \in AllContexts,
                        callee'[y] = callee'[z], callee'[y] # None, y # z
                 PROVE  FALSE
      OBVIOUS
    <3>1. CASE y = w
      BY <1>2, <3>1
    <3>2. CASE z = w
      BY <1>2, <3>2
    <3>3. CASE y # w /\ z # w
      BY <1>2, <3>3 DEF CInv, Claims
    <3> QED BY <3>1, <3>2, <3>3
  <2>2. \A v \in Workers : callee'[v] = None <=> at'[v] \in {"loop", "done", "gone"}
    <3> TAKE v \in Workers
    <3>1. CASE v = w
      BY <1>1, <1>2, <3>1
    <3>2. CASE v # w
      BY <1>1, <1>2, <3>2 DEF CInv, Claims
    <3> QED BY <3>1, <3>2
  <2>3. \A d \in Generators : callee'[d] = None <=> at'[d] \notin {"resume", "return"}
    BY <1>1, <1>2 DEF CInv, Claims
  <2>4. ASSUME NEW y \in AllContexts
        PROVE  /\ at'[y] \in {"task", "resume"} => at'[callee'[y]] \in {"new", "parked"}
               /\ at'[y] = "return" => at'[callee'[y]] # "new"
    <3>1. CASE y = w
      <4>1. c # None => at'[c] = at[c]
        BY <1>1
      <4> QED BY <1>1, <1>2, <3>1, <4>1
    <3>2. CASE y # w /\ at[y] \in {"task", "resume", "return"}
      <4>1. callee[y] \in Generators
        BY <3>2, CalleeRules DEF CInv
      <4>2. /\ at[y] \in {"task", "resume"} => at[callee[y]] \in {"new", "parked"}
            /\ at[y] = "return" => at[callee[y]] # "new"
        BY DEF CInv, Claims
      <4> QED BY <1>1, <1>2, <3>2, <4>1, <4>2
    <3> QED BY <1>1, <3>1, <3>2
  <2>5. ASSUME NEW v \in Workers, at'[v] \in {"resumed", "raised"}
        PROVE  at'[callee'[v]] \in {"parked", "over"}
    <3>1. v # w /\ at[v] \in {"resumed", "raised"}
      BY <1>1, <2>5
    <3>2. callee[v] \in Generators /\ at[callee[v]] \in {"parked", "over"}
      BY <3>1, CalleeRules DEF CInv, Claims
    <3> QED BY <1>1, <1>2, <3>1, <3>2
  <2> QED BY <2>1, <2>2, <2>3, <2>4, <2>5 DEF Claims
<1>7. Exceptions'
  <2>1. /\ \A y \in AllContexts : at'[y] = "raised" <=> at[y] = "raised"
        /\ \A d \in Generators : at'[d] = at[d]
    BY <1>1
  <2> QED BY <1>3, <2>1, SMTT(30) DEF CInv, Exceptions
<1>8. Carriers'
  <2>1. \A d : Awaited(d)' <=> Awaited(d)
    BY <1>1, <1>2 DEF Awaited
  <2> QED BY <1>3, <2>1, CarriersKept DEF CInv
<1> QED BY <1>4, <1>5, <1>6, <1>7, <1>8 DEF CInv

LEMMA TaskBeginsInv == ASSUME CInv, NEW w \in Workers, TaskBegins(w) PROVE CInv'
<1> DEFINE c == Head(ready)
<1>1. /\ executing[w] = w /\ Goes(w, {"loop"}, "task") /\ ready # <<>>
      /\ ready' = Tail(ready) /\ callee' = [callee EXCEPT ![w] = c]
      /\ UNCHANGED <<deferred, executing, current_coroutine, last_coroutine, caller_context,
                     resultVars>>
  BY DEF TaskBegins, TakeHandler
<1>2. /\ c \in Generators /\ ready' \in Seq(Generators)
      /\ \A x : In(x, ready) <=> In(x, ready') \/ x = c
      /\ Distinct(ready') /\ ~In(c, ready')
  BY <1>1, HeadRules DEF CInv, ContextTypes, Handed
<1>3. deferred' \in [Workers -> Seq(Generators)]
  BY <1>1 DEF CInv, ContextTypes
<1>4. Queued(c) /\ \A v \in Workers : ~In(c, deferred[v])
  BY <1>2 DEF CInv, Handed, Queued
<1>5. at[c] \in {"new", "parked"} /\ \A y \in AllContexts : callee[y] # c
  BY <1>2, <1>4 DEF CInv, Handed
<1> HIDE DEF c
<1>6. at[w] = "loop" /\ \A d \in Generators : at'[d] = at[d]
  <2>1. "task" \in OwnPlaces \cup RoutinePlaces
    BY DEF OwnPlaces
  <2> QED BY <1>1, <2>1, GoesRules, ContextNames DEF CInv
<1>7. Handed'
  <2>1. \A d \in Generators : Queued(d)' => Queued(d) /\ d # c
    BY <1>1, <1>2, <1>4 DEF Queued
  <2>2. ASSUME NEW d \in Generators, Queued(d)'
        PROVE  at'[d] \in {"new", "parked"} /\ \A x \in AllContexts : callee'[x] # d
    <3>1. Queued(d) /\ d # c
      BY <2>1, <2>2
    <3>2. at[d] \in {"new", "parked"} /\ \A x \in AllContexts : callee[x] # d
      BY <3>1 DEF CInv, Handed
    <3> QED BY <1>1, <1>6, <3>1, <3>2, ContextNames DEF CInv, ContextTypes
  <2>3. \A d \in Generators : \A v \in Workers : In(d, deferred'[v]) =>
          ~In(d, ready') /\ \A u \in Workers : In(d, deferred'[u]) => u = v
    BY <1>1, <1>2 DEF CInv, Handed
  <2>4. \A v \in Workers : Distinct(deferred'[v])
    BY <1>1 DEF CInv, Handed
  <2> QED BY <1>2, <2>2, <2>3, <2>4 DEF Handed
<1>8. c # None
  BY <1>2, ContextNames
<1> QED BY <1>1, <1>2, <1>3, <1>5, <1>7, <1>8, TaskKeeps

LEMMA ResubmitsInv == ASSUME CInv, NEW w \in Workers, Resubmits(w) PROVE CInv'
<1> DEFINE c == callee[w]
<1>1. /\ executing[w] = w /\ Goes(w, {"resumed"}, "done")
      /\ ~is_completed[c] /\ callee' = [callee EXCEPT ![w] = None]
      /\ UNCHANGED <<executing, current_coroutine, last_coroutine, caller_context, resultVars>>
  BY DEF Resubmits
<1>2. at[w] = "resumed" /\ \A d \in Generators : at'[d] = at[d]
  <2>1. "done" \in OwnPlaces \cup RoutinePlaces
    BY DEF OwnPlaces
  <2> QED BY <1>1, <2>1, GoesRules, ContextNames DEF CInv
<1>3. c \in Generators /\ at[c] = "parked" /\ ~Queued(c)
      /\ \A y \in AllContexts : y # w => callee[y] # c
  <2>1. c \in Generators /\ at[c] \in {"parked", "over"}
    BY <1>2, CalleeRules, ContextNames DEF CInv, Claims
  <2>2. at[c] = "parked"
    BY <1>1, <2>1 DEF CInv, Exceptions
  <2>3. ~Queued(c)
    BY <2>1, ContextNames DEF CInv, Handed
  <2>4. \A y \in AllContexts : y # w => callee[y] # c
    BY <2>1, ContextNames DEF CInv, Claims
  <2> QED BY <2>1, <2>2, <2>3, <2>4
<1>4. /\ callee'[w] = None
      /\ \A y \in AllContexts : y # w => callee'[y] = callee[y]
      /\ \A y \in AllContexts : callee'[y] # c
  <2>1. /\ callee'[w] = None
        /\ \A y \in AllContexts : y # w => callee'[y] = callee[y]
    BY <1>1, ContextNames DEF CInv, ContextTypes
  <2> QED BY <1>3, <2>1, ContextNames
<1> HIDE DEF c
<1>5. /\ ready' \in Seq(Generators) /\ deferred' \in [Workers -> Seq(Generators)]
      /\ Distinct(ready') /\ \A v \in Workers : Distinct(deferred'[v])
      /\ \A d \in Generators : d # c =>
           /\ In(d, ready') <=> In(d, ready)
           /\ \A v \in Workers : In(d, deferred'[v]) <=> In(d, deferred[v])
      /\ \A v \in Workers : In(c, deferred'[v]) =>
           ~In(c, ready') /\ \A u \in Workers : In(c, deferred'[u]) => u = v
  <2>1. CASE Submit(c)
    <3>1. /\ ready' \in Seq(Generators) /\ Distinct(ready')
          /\ \A d : In(d, ready') <=> In(d, ready) \/ d = c
      BY <1>3, <2>1, AppendRules DEF CInv, ContextTypes, Handed, Submit, Queued
    <3>2. deferred' = deferred
      BY <2>1 DEF Submit
    <3> QED BY <1>3, <3>1, <3>2 DEF CInv, ContextTypes, Handed, Queued
  <2>2. CASE SubmitContinuation(w, c)
    <3>1. ready' = ready /\ deferred' = [deferred EXCEPT ![w] = Append(deferred[w], c)]
      BY <2>2 DEF SubmitContinuation
    <3>2. /\ Append(deferred[w], c) \in Seq(Generators) /\ Distinct(Append(deferred[w], c))
          /\ \A d : In(d, Append(deferred[w], c)) <=> In(d, deferred[w]) \/ d = c
      <4>1. deferred[w] \in Seq(Generators) /\ Distinct(deferred[w]) /\ ~In(c, deferred[w])
        BY <1>3 DEF CInv, ContextTypes, Handed, Queued
      <4> QED BY <1>3, <4>1, AppendRules
    <3>3. /\ deferred' \in [Workers -> Seq(Generators)]
          /\ deferred'[w] = Append(deferred[w], c)
          /\ \A v \in Workers : v # w => deferred'[v] = deferred[v]
      BY <3>1, <3>2 DEF CInv, ContextTypes
    <3> HIDE DEF CInv
    <3>4. \A v \in Workers : Distinct(deferred'[v])
      BY <3>2, <3>3 DEF CInv, Handed
    <3>5. \A v \in Workers : \A d \in Generators :
            In(d, deferred'[v]) <=> In(d, deferred[v]) \/ (v = w /\ d = c)
      BY <3>2, <3>3
    <3> QED BY <1>3, <3>1, <3>3, <3>4, <3>5 DEF CInv, ContextTypes, Handed, Queued
  <2> QED BY <2>1, <2>2 DEF Resubmits, c
<1>6. Handed'
  <2>1. ASSUME NEW d \in Generators, Queued(d)'
        PROVE  at'[d] \in {"new", "parked"} /\ \A x \in AllContexts : callee'[x] # d
    <3>1. CASE d = c
      BY <1>2, <1>3, <1>4, <3>1
    <3>2. CASE d # c
      <4>1. Queued(d)
        BY <1>5, <2>1, <3>2 DEF Queued
      <4>2. at[d] \in {"new", "parked"} /\ \A x \in AllContexts : callee[x] # d
        BY <4>1 DEF CInv, Handed
      <4>3. d # None
        BY ContextNames
      <4> QED BY <1>2, <1>4, <4>2, <4>3
    <3> QED BY <3>1, <3>2
  <2>2. ASSUME NEW d \in Generators, NEW v \in Workers, In(d, deferred'[v])
        PROVE  ~In(d, ready') /\ \A u \in Workers : In(d, deferred'[u]) => u = v
    <3>1. CASE d = c
      BY <1>5, <2>2, <3>1
    <3>2. CASE d # c
      BY <1>5, <2>2, <3>2 DEF CInv, Handed
    <3> QED BY <3>1, <3>2
  <2> QED BY <1>5, <2>1, <2>2 DEF Handed
<1> QED BY <1>1, <1>5, <1>6, TaskKeeps

LEMMA TaskEndsInv == ASSUME CInv, NEW w \in Workers, TaskEnds(w) PROVE CInv'
<1>1. /\ executing[w] = w /\ Goes(w, {"resumed", "done"}, "loop")
      /\ ready' = Cat(ready, deferred[w]) /\ deferred' = [deferred EXCEPT ![w] = <<>>]
      /\ callee' = [callee EXCEPT ![w] = None]
      /\ UNCHANGED <<executing, current_coroutine, last_coroutine, caller_context, resultVars>>
  BY DEF TaskEnds, FinishHandler, Cat
<1>2. \A d \in Generators : at'[d] = at[d]
  <2>1. "loop" \in OwnPlaces \cup RoutinePlaces
    BY DEF OwnPlaces
  <2> QED BY <1>1, <2>1, GoesRules, ContextNames DEF CInv
<1>3. \A y \in AllContexts : callee'[y] = callee[y] \/ callee'[y] = None
  BY <1>1 DEF CInv, ContextTypes
<1>4. /\ deferred' \in [Workers -> Seq(Generators)] /\ deferred'[w] = <<>>
      /\ \A v \in Workers : v # w => deferred'[v] = deferred[v]
  <2>1. <<>> \in Seq(Generators)
    OBVIOUS
  <2> QED BY <1>1, <2>1 DEF CInv, ContextTypes
<1>5. \A d : ~In(d, <<>>)
  BY DEF In
<1>6. /\ ready' \in Seq(Generators)
      /\ \A d : In(d, ready') <=> In(d, ready) \/ In(d, deferred[w])
      /\ Distinct(ready') <=> /\ Distinct(ready) /\ Distinct(deferred[w])
                              /\ \A d : ~(In(d, ready) /\ In(d, deferred[w]))
  <2>1. ready \in Seq(Generators) /\ deferred[w] \in Seq(Generators)
    BY DEF CInv, ContextTypes
  <2> DEFINE s == ready
             t == deferred[w]
  <2>2. s \in Seq(Generators) /\ t \in Seq(Generators) /\ ready' = Cat(s, t)
    BY <1>1, <2>1
  <2> SUFFICES /\ Cat(s, t) \in Seq(Generators)
               /\ \A d : In(d, Cat(s, t)) <=> In(d, s) \/ In(d, t)
               /\ Distinct(Cat(s, t)) <=> /\ Distinct(s) /\ Distinct(t)
                                          /\ \A d : ~(In(d, s) /\ In(d, t))
    BY <2>2
  <2> HIDE DEF s, t
  <2> QED BY <2>2, CatRules
<1>7. \A d : In(d, deferred[w]) => d \in Generators
  <2>1. deferred[w] \in Seq(Generators)
    BY DEF CInv, ContextTypes
  <2> QED BY <2>1, ElementOfSeq, LenProperties DEF In
<1>8. Handed'
  <2>1. Distinct(ready')
    BY <1>6, <1>7 DEF CInv, Handed
  <2>2. \A v \in Workers : Distinct(deferred'[v])
    <3>1. Distinct(<<>>)
      BY DEF Distinct
    <3> QED BY <1>4, <3>1 DEF CInv, Handed
  <2>3. ASSUME NEW d \in Generators, NEW v \in Workers, In(d, deferred'[v])
        PROVE  ~In(d, ready') /\ \A u \in Workers : In(d, deferred'[u]) => u = v
    <3>1. v # w /\ In(d, deferred[v])
      BY <1>4, <1>5, <2>3
    <3>2. ~In(d, ready) /\ ~In(d, deferred[w])
      BY <3>1 DEF CInv, Handed
    <3>3. \A u \in Workers : In(d, deferred'[u]) => In(d, deferred[u])
      BY <1>4, <1>5
    <3> QED BY <1>6, <3>1, <3>2, <3>3 DEF CInv, Handed
  <2>4. ASSUME NEW d \in Generators, Queued(d)'
        PROVE  at'[d] \in {"new", "parked"} /\ \A x \in AllContexts : callee'[x] # d
    <3>1. Queued(d)
      BY <1>4, <1>5, <1>6, <2>4 DEF Queued
    <3>2. at[d] \in {"new", "parked"} /\ \A x \in AllContexts : callee[x] # d
      BY <3>1 DEF CInv, Handed
    <3> QED BY <1>2, <1>3, <3>2, ContextNames
  <2> QED BY <2>1, <2>2, <2>3, <2>4 DEF Handed
<1> QED BY <1>1, <1>4, <1>6, <1>8, TaskKeeps

LEMMA LoopEndsInv == ASSUME CInv, NEW w \in Workers, LoopEnds(w) PROVE CInv'
<1>1. /\ executing[w] = w /\ Goes(w, {"loop"}, "gone")
      /\ UNCHANGED <<ready, deferred, executing, callee, current_coroutine, last_coroutine,
                     caller_context, resultVars>>
  BY DEF LoopEnds, poolVars
<1>2. at[w] = "loop" /\ \A d \in Generators : at'[d] = at[d]
  <2>1. "gone" \in OwnPlaces \cup RoutinePlaces
    BY DEF OwnPlaces
  <2> QED BY <1>1, <2>1, GoesRules, ContextNames DEF CInv
<1>3. callee' = [callee EXCEPT ![w] = None]
  <2>1. callee[w] = None
    BY <1>2 DEF CInv, Claims
  <2> QED BY <1>1, <2>1, ContextNames DEF CInv, ContextTypes
<1>4. ready' \in Seq(Generators) /\ deferred' \in [Workers -> Seq(Generators)]
  BY <1>1 DEF CInv, ContextTypes
<1>5. Handed'
  <2>1. \A d \in Generators : Queued(d)' <=> Queued(d)
    BY <1>1 DEF Queued
  <2> QED BY <1>1, <1>2, <2>1 DEF CInv, Handed
<1> QED BY <1>1, <1>3, <1>4, <1>5, TaskKeeps

LEMMA CInvNext ==
    CInv /\ [CoroutineTasksNext]_<<poolVars, contextVars, resultVars, resumptions>> => CInv'
<1> SUFFICES ASSUME CInv,
                    [CoroutineTasksNext]_<<poolVars, contextVars, resultVars, resumptions>>
             PROVE  CInv'
  OBVIOUS
<1>1. CASE UNCHANGED <<poolVars, contextVars, resultVars, resumptions>>
  BY <1>1, QuietInv DEF poolVars
<1>2. CASE SubmitsResumption
  BY <1>2, SubmitsResumptionInv
<1>3. CASE JoinCalled \/ JoinEnded
  BY <1>3, QuietInv DEF JoinCalled, JoinEnded, JoinResetsGuard, JoinReturns
<1>4. ASSUME NEW w \in Workers, WorkerGoesOn(w) \/ TaskThrows(w) PROVE CInv'
  <2>1. CASE TaskThrows(w)
    BY <2>1, QuietInv DEF TaskThrows, HandlerThrows
  <2>2. CASE TaskBegins(w)
    BY <2>2, TaskBeginsInv
  <2>3. CASE Resubmits(w)
    BY <2>3, ResubmitsInv
  <2>4. CASE TaskEnds(w)
    BY <2>4, TaskEndsInv
  <2>5. CASE LoopEnds(w)
    BY <2>5, LoopEndsInv
  <2>6. CASE CoroutineGoesOn(w)
    BY <2>6, ResumeCalledInv, SwitchesToInv, ResumeReturnsInv, LeavesInv,
       RoutineThrowsInv, CatchesInv, RoutineEndsInv DEF CoroutineGoesOn
  <2> QED BY <1>4, <2>1, <2>2, <2>3, <2>4, <2>5, <2>6 DEF WorkerGoesOn
<1> QED BY <1>1, <1>2, <1>3, <1>4 DEF CoroutineTasksNext

LEMMA CInvAlways == CoroutineTasksSpec => []CInv
BY CInvInit, CInvNext, PTL DEF CoroutineTasksSpec

LEMMA ClimbFollows == ASSUME CInv PROVE ExceptionsClimb
<1>1. \A x \in AllContexts : raised[x] # None => raised[x] \in uncaught
  BY DEF CInv, Carriers
<1>2. ASSUME NEW e \in uncaught
      PROVE  Cardinality({x \in AllContexts : raised[x] = e})
               + Cardinality({c \in Generators : Holds(c, e)}) = 1
  <2> DEFINE R == {x \in AllContexts : raised[x] = e}
             H == {c \in Generators : Holds(c, e)}
  <2>1. /\ R # {} \/ H # {}
        /\ R = {} \/ H = {}
        /\ \A x \in R : R = {x}
        /\ \A c \in H : H = {c}
    BY DEF CInv, Carriers
  <2> HIDE DEF R, H
  <2>2. CASE R # {}
    <3>1. PICK x \in R : TRUE
      BY <2>2
    <3>2. R = {x} /\ H = {}
      BY <2>1, <3>1
    <3>3. Cardinality(R) = 1 /\ Cardinality(H) = 0
      BY <3>2, FS_Singleton, FS_EmptySet
    <3> QED BY <3>3 DEF R, H
  <2>3. CASE R = {}
    <3>1. PICK c \in H : TRUE
      BY <2>1, <2>3
    <3>2. H = {c}
      BY <2>1, <3>1
    <3>3. Cardinality(R) = 0 /\ Cardinality(H) = 1
      BY <2>3, <3>2, FS_Singleton, FS_EmptySet
    <3> QED BY <3>3 DEF R, H
  <2> QED BY <2>2, <2>3
<1> QED BY <1>1, <1>2 DEF ExceptionsClimb, Holds, Awaited

(* However many routines an exception passes through, on whatever workers, *)
(* it is at any moment in one place (impl.cpp:20-22, 36-42).               *)
THEOREM ExceptionsAreCarried == CoroutineTasksSpec => []ExceptionsClimb
BY CInvAlways, ClimbFollows, PTL

----------------------------------------------------------------------------
(* The refinement of Coroutine.tla *)

(* Its variables, as Nesting reads them off the contexts. *)
Innermost == [w \in Workers |-> IF executing[w] \in Own THEN None ELSE executing[w]]

Resumer == [c \in Generators |->
              IF InProgress(c) /\ caller_context[c] \in Generators
              THEN caller_context[c] ELSE None]

Progress == [c \in Generators |-> IF InProgress(c) THEN "running"
                                  ELSE IF at[c] = "over" THEN "completed"
                                  ELSE "suspended"]

LEMMA NestingResume ==
    ASSUME NEW w \in Workers, NEW c \in Generators,
           Progress[c] = "suspended",
           Resumer' = [Resumer EXCEPT ![c] = Innermost[w]],
           Innermost' = [Innermost EXCEPT ![w] = c],
           Progress' = [Progress EXCEPT ![c] = "running"]
    PROVE  Nesting!CoroutineStep(w)
<1>1. Nesting!Resume(w, c)
  BY DEF Nesting!Resume, Innermost, Resumer, Progress
<1> QED BY <1>1 DEF Nesting!CoroutineStep, Progress

LEMMA NestingSwitchBack ==
    ASSUME NEW w \in Workers, NEW p \in {"suspended", "completed"},
           Innermost[w] # None,
           Resumer' = [Resumer EXCEPT ![Innermost[w]] = None],
           Innermost' = [Innermost EXCEPT ![w] = Resumer[Innermost[w]]],
           Progress' = [Progress EXCEPT ![Innermost[w]] = p]
    PROVE  Nesting!CoroutineStep(w)
<1>1. Nesting!SwitchBack(w, p)
  BY DEF Nesting!SwitchBack, Innermost, Resumer, Progress
<1>2. Nesting!Suspend(w) \/ Nesting!Complete(w)
  BY <1>1 DEF Nesting!Suspend, Nesting!Complete
<1> QED BY <1>2 DEF Nesting!CoroutineStep, Innermost

LEMMA NestingStutters ==
    ASSUME UNCHANGED <<executing, caller_context>>,
           \A c \in Generators : InProgress(c)' <=> InProgress(c),
           \A c \in Generators : at'[c] = "over" <=> at[c] = "over"
    PROVE  UNCHANGED Nesting!coroutineVars
<1>1. Innermost' = Innermost
  BY DEF Innermost
<1>2. Resumer' = Resumer
  BY DEF Resumer
<1>3. Progress' = Progress
  BY DEF Progress
<1> QED BY <1>1, <1>2, <1>3 DEF Nesting!coroutineVars, Innermost, Resumer, Progress

LEMMA StepStutters ==
    ASSUME CInv, NEW w \in Workers, NEW from, NEW to \in OwnPlaces \cup RoutinePlaces,
           Goes(w, from, to), UNCHANGED <<executing, caller_context>>,
           executing[w] = w \/ to \in {"code", "resume", "return", "raised", "exit"}
    PROVE  UNCHANGED Nesting!coroutineVars
<1> DEFINE x == executing[w]
<1>1. /\ x \in AllContexts /\ at'[x] = to
      /\ \A y \in AllContexts : y # x => at'[y] = at[y]
      /\ x \in Generators => InProgress(x)
  BY GoesRules, Here DEF CInv
<1>2. executing[w] = w => x \notin Generators
  BY ContextNames
<1> HIDE DEF x
<1>3. ASSUME NEW c \in Generators
      PROVE  (InProgress(c)' <=> InProgress(c)) /\ (at'[c] = "over" <=> at[c] = "over")
  <2>1. CASE c = x
    BY <1>1, <1>2, <2>1 DEF InProgress
  <2>2. CASE c # x
    BY <1>1, <2>2, ContextNames DEF InProgress
  <2> QED BY <2>1, <2>2
<1> QED BY <1>3, NestingStutters

LEMMA SwitchesToResumes ==
    ASSUME CInv, NEW w \in Workers, SwitchesTo(w)
    PROVE  Nesting!CoroutineStep(w)
<1> DEFINE x == executing[w]
           c == callee[x]
<1> USE ContextNames
<1>1. /\ x \in AllContexts /\ at[x] = "resume" /\ (x \in Workers => x = w)
      /\ x \in Generators => InProgress(x)
      /\ \A v \in Workers : executing[v] = x => v = w
  BY Here DEF CInv, SwitchesTo, Stands
<1>2. c \in Generators /\ at[c] \in {"new", "parked"} /\ x # c
  <2>1. c \in Generators
    BY <1>1, CalleeRules DEF CInv
  <2> QED BY <1>1, <2>1 DEF CInv, Claims
<1>3. /\ caller_context' = [caller_context EXCEPT ![c] = x]
      /\ executing' = [executing EXCEPT ![w] = c]
      /\ at' = [at EXCEPT ![x] = "return", ![c] = "code"]
  BY DEF SwitchesTo
<1>4. /\ at'[x] = "return" /\ at'[c] = "code"
      /\ \A y \in AllContexts : y # x /\ y # c => at'[y] = at[y]
  BY <1>1, <1>2, <1>3 DEF CInv, ContextTypes
<1> HIDE DEF c
<1>5. Progress[c] = "suspended"
  BY <1>2 DEF Progress, InProgress
<1>6. Innermost' = [Innermost EXCEPT ![w] = c]
  BY <1>2, <1>3 DEF Innermost, CInv, ContextTypes
<1>7. Innermost[w] = IF x \in Generators THEN x ELSE None
  BY <1>1 DEF Innermost
<1> HIDE DEF x
<1>8. \A d \in Generators : d # c => /\ InProgress(d)' <=> InProgress(d)
                                     /\ at'[d] = "over" <=> at[d] = "over"
  <2> TAKE d \in Generators
  <2>1. CASE d = x
    BY <1>1, <1>4, <2>1 DEF InProgress
  <2>2. CASE d # x
    BY <1>4, <2>2 DEF InProgress
  <2> QED BY <2>1, <2>2
<1>9. at'[c] = "code" /\ caller_context'[c] = x
      /\ \A d \in Generators : d # c => caller_context'[d] = caller_context[d]
  BY <1>2, <1>3, <1>4 DEF CInv, ContextTypes
<1>10. Resumer' = [Resumer EXCEPT ![c] = Innermost[w]]
  <2>1. \A d \in Generators : d = c => InProgress(d)'
    BY <1>9 DEF InProgress
  <2>2. ASSUME NEW d \in Generators
        PROVE  Resumer'[d] = IF d = c THEN Innermost[w] ELSE Resumer[d]
    <3>1. CASE d = c
      BY <1>7, <1>9, <2>1, <3>1 DEF Resumer
    <3>2. CASE d # c
      BY <1>8, <1>9, <3>2 DEF Resumer
    <3> QED BY <3>1, <3>2
  <2>3. Resumer' = [d \in Generators |-> Resumer'[d]]
        /\ Resumer = [d \in Generators |-> Resumer[d]]
    BY DEF Resumer
  <2> HIDE DEF CInv
  <2> QED BY <1>2, <2>2, <2>3
<1>11. Progress' = [Progress EXCEPT ![c] = "running"]
  <2>1. \A d \in Generators : d = c => InProgress(d)'
    BY <1>9 DEF InProgress
  <2>2. ASSUME NEW d \in Generators
        PROVE  Progress'[d] = IF d = c THEN "running" ELSE Progress[d]
    <3>1. CASE d = c
      BY <2>1, <3>1 DEF Progress
    <3>2. CASE d # c
      BY <1>8, <3>2 DEF Progress
    <3> QED BY <3>1, <3>2
  <2>3. Progress' = [d \in Generators |-> Progress'[d]]
        /\ Progress = [d \in Generators |-> Progress[d]]
    BY DEF Progress
  <2> QED BY <1>2, <2>2, <2>3
<1> QED BY <1>2, <1>5, <1>6, <1>10, <1>11, NestingResume

LEMMA LeavesSwitchesBack ==
    ASSUME CInv, NEW w \in Workers, SuspendCalled(w) \/ ExitsTo(w)
    PROVE  Nesting!CoroutineStep(w)
<1> DEFINE x == executing[w]
           y == caller_context[x]
           p == IF at[x] = "code" THEN "suspended" ELSE "completed"
<1> USE ContextNames
<1>1. /\ x \in Generators
      /\ \A z \in AllContexts : z # x => at'[z] = at[z]
      /\ \/ at[x] = "code" /\ at'[x] = "parked"
         \/ at[x] = "exit" /\ at'[x] = "over"
  <2>1. CASE SuspendCalled(w)
    BY <2>1, GoesRules DEF CInv, SuspendCalled, InRoutine, RoutinePlaces
  <2>2. CASE ExitsTo(w)
    BY <2>2, GoesRules DEF CInv, ExitsTo, InRoutine, RoutinePlaces
  <2> QED BY <2>1, <2>2
<1>2. y \in AllContexts /\ (y \in Workers => y = w)
      /\ \A v \in Workers : executing[v] = x => v = w
  BY <1>1, Here DEF CInv
<1>3. current_coroutine[w] = x
  BY <1>1 DEF CInv, Linked, Stands
<1>4. executing' = [executing EXCEPT ![w] = y] /\ caller_context' = caller_context
  BY <1>3 DEF SuspendCalled, ExitsTo, Switch
<1>5. Innermost[w] = x /\ x # None
  BY <1>1 DEF Innermost
<1>6. InProgress(x) /\ Resumer[x] = IF y \in Generators THEN y ELSE None
  BY <1>1 DEF Resumer, InProgress
<1>7. Innermost' = [Innermost EXCEPT ![w] = Resumer[x]]
  BY <1>2, <1>4, <1>6 DEF Innermost, CInv, ContextTypes
<1> HIDE DEF x, y
<1>8. \A d \in Generators : d # x => /\ InProgress(d)' <=> InProgress(d)
                                     /\ at'[d] = "over" <=> at[d] = "over"
  BY <1>1 DEF InProgress
<1>9. \A d \in Generators : d = x => ~InProgress(d)'
  BY <1>1 DEF InProgress
<1>10. Resumer' = [Resumer EXCEPT ![x] = None]
  <2>1. ASSUME NEW d \in Generators PROVE Resumer'[d] = IF d = x THEN None ELSE Resumer[d]
    <3>1. CASE d = x
      BY <1>9, <3>1 DEF Resumer
    <3>2. CASE d # x
      BY <1>4, <1>8, <3>2 DEF Resumer
    <3> QED BY <3>1, <3>2
  <2>2. Resumer' = [d \in Generators |-> Resumer'[d]]
        /\ Resumer = [d \in Generators |-> Resumer[d]]
    BY DEF Resumer
  <2> QED BY <1>1, <2>1, <2>2
<1>11. Progress' = [Progress EXCEPT ![x] = p]
  <2>1. ASSUME NEW d \in Generators PROVE Progress'[d] = IF d = x THEN p ELSE Progress[d]
    <3>1. CASE d = x
      BY <1>1, <1>9, <3>1 DEF Progress
    <3>2. CASE d # x
      BY <1>8, <3>2 DEF Progress
    <3> QED BY <3>1, <3>2
  <2>2. Progress' = [d \in Generators |-> Progress'[d]]
        /\ Progress = [d \in Generators |-> Progress[d]]
    BY DEF Progress
  <2> HIDE DEF p
  <2> QED BY <1>1, <2>1, <2>2
<1>12. p \in {"suspended", "completed"}
  OBVIOUS
<1> HIDE DEF p
<1> QED BY <1>5, <1>7, <1>10, <1>11, <1>12, NestingSwitchBack

LEMMA NestingInit == CoroutineTasksInit => Nesting!CoroutineInit
BY ContextNames DEF CoroutineTasksInit, Nesting!CoroutineInit, InProgress

LEMMA NestingStep ==
    CInv /\ [CoroutineTasksNext]_<<poolVars, contextVars, resultVars, resumptions>>
      => [\E w \in Workers : Nesting!CoroutineStep(w)]_(Nesting!coroutineVars)
<1> SUFFICES ASSUME CInv,
                    [CoroutineTasksNext]_<<poolVars, contextVars, resultVars, resumptions>>
             PROVE  (\E w \in Workers : Nesting!CoroutineStep(w)) \/ UNCHANGED Nesting!coroutineVars
  OBVIOUS
<1>1. ASSUME UNCHANGED contextVars PROVE UNCHANGED Nesting!coroutineVars
  <2>1. UNCHANGED <<executing, caller_context, at>>
    BY <1>1 DEF contextVars
  <2> QED BY <2>1, NestingStutters DEF InProgress
<1>2. CASE UNCHANGED <<poolVars, contextVars, resultVars, resumptions>>
  BY <1>1, <1>2
<1>3. CASE SubmitsResumption \/ JoinCalled \/ JoinEnded
  BY <1>1, <1>3 DEF SubmitsResumption, JoinCalled, JoinEnded
<1>4. ASSUME NEW w \in Workers, WorkerGoesOn(w) \/ TaskThrows(w)
      PROVE  Nesting!CoroutineStep(w) \/ UNCHANGED Nesting!coroutineVars
  <2> USE DEF OwnPlaces, RoutinePlaces
  <2>1. CASE TaskThrows(w)
    BY <1>1, <2>1 DEF TaskThrows
  <2>2. CASE TaskBegins(w)
    BY <2>2, StepStutters DEF TaskBegins
  <2>3. CASE Resubmits(w)
    BY <2>3, StepStutters DEF Resubmits
  <2>4. CASE TaskEnds(w)
    BY <2>4, StepStutters DEF TaskEnds
  <2>5. CASE LoopEnds(w)
    BY <2>5, StepStutters DEF LoopEnds
  <2>6. ASSUME NEW c \in Generators, ResumeCalled(w, c) PROVE UNCHANGED Nesting!coroutineVars
    BY <2>6, StepStutters DEF ResumeCalled
  <2>7. CASE SwitchesTo(w)
    BY <2>7, SwitchesToResumes
  <2>8. CASE SuspendCalled(w) \/ ExitsTo(w)
    BY <2>8, LeavesSwitchesBack
  <2>9. CASE RoutineThrows(w)
    BY <2>9, StepStutters DEF RoutineThrows
  <2>10. CASE RoutineEnds(w)
    BY <2>10, StepStutters DEF RoutineEnds
  <2>11. CASE Catches(w)
    <3>1. CASE executing[w] = w
      <4>1. Goes(w, {"raised"}, "resumed")
        BY <2>11, <3>1 DEF Catches
      <4> QED BY <2>11, <3>1, <4>1, StepStutters DEF Catches
    <3>2. CASE executing[w] # w
      <4>1. Goes(w, {"raised"}, "code")
        BY <2>11, <3>2 DEF Catches
      <4> QED BY <2>11, <4>1, StepStutters DEF Catches
    <3> QED BY <3>1, <3>2
  <2>12. CASE ResumeReturns(w)
    <3> DEFINE x == executing[w]
               to == IF Rethrows(x, callee[x]) THEN "raised" ELSE IF x = w THEN "resumed" ELSE "code"
    <3>1. Goes(w, {"return"}, to) /\ UNCHANGED <<executing, caller_context>>
      BY <2>12 DEF ResumeReturns
    <3>2. /\ to \in OwnPlaces \cup RoutinePlaces
          /\ x = w \/ to \in {"code", "resume", "return", "raised", "exit"}
      OBVIOUS
    <3> HIDE DEF to
    <3> QED BY <3>1, <3>2, StepStutters
  <2> QED BY <1>4, <2>1, <2>2, <2>3, <2>4, <2>5, <2>6, <2>7, <2>8, <2>9, <2>10, <2>11, <2>12
          DEF WorkerGoesOn, CoroutineGoesOn
<1> QED BY <1>2, <1>3, <1>4 DEF CoroutineTasksNext

(* The pointers current and last, and the caller saved in each context, do *)
(* what nested coroutines promise: whoever suspends or ends goes back to   *)
(* who resumed it, on whatever worker that now runs (impl.cpp:15-43).      *)
THEOREM CoroutinesAreNested == CoroutineTasksSpec => ImplementsCoroutines
BY NestingInit, NestingStep, CInvAlways, PTL
   DEF CoroutineTasksSpec, ImplementsCoroutines, Nesting!CoroutineSpec

=============================================================================
