-------------------------- MODULE SpinLocks_proofs --------------------------
(***************************************************************************)
(* The locks of SpinLocks.tla exclude, their sections see each other, and  *)
(* the lock over the exchange of two instructions excludes until exchanges *)
(* overlap: for every finite set of threads, every length of the store     *)
(* buffers and every number of rounds.                                     *)
(***************************************************************************)
EXTENDS SpinLocks, FiniteSetTheorems, TLAPS

Locks == {"tas", "support", "tricky", "mutexed", "atomic"}

Places == Contending \cup {"idle", "read", "write", "unlock", "drop"}

Entries == [cell : Cells, value : Nat]

(* TypeOK without the range of the lock's cell, which follows from Word    *)
(* and AtomicWords below.                                                  *)
Types ==
    /\ lock \in Locks
    /\ memory \in [Cells -> Nat]
    /\ buffer \in [Threads -> Seq(Entries)]
    /\ \A t \in Threads : Len(buffer[t]) <= BufferSize
    /\ pc \in [Threads -> Places]
    /\ register \in [Threads -> Nat]
    /\ sections \in [Threads -> 0..Rounds]
    /\ \A t \in Threads : pc[t] # "idle" => sections[t] < Rounds
    /\ overlapped \in BOOLEAN
    /\ IsFiniteSet(SectionsLeft)

----------------------------------------------------------------------------
(* Buffers as sequences. *)
LEMMA Stored ==
  ASSUME NEW E, NEW b \in Seq(E), NEW e \in E
  PROVE  /\ Append(b, e) \in Seq(E)
         /\ Len(Append(b, e)) = Len(b) + 1
         /\ Append(b, e)[Len(b) + 1] = e
         /\ \A i \in 1..Len(b) : Append(b, e)[i] = b[i]
         /\ Append(b, e) # <<>>
         /\ Len(b) \in Nat
OBVIOUS

LEMMA Empty ==
  ASSUME NEW E, NEW b \in Seq(E)
  PROVE  Len(b) \in Nat /\ (b = <<>> <=> Len(b) = 0)
OBVIOUS

LEMMA Flushed ==
  ASSUME NEW E, NEW b \in Seq(E), b # <<>>
  PROVE  /\ Tail(b) \in Seq(E)
         /\ Len(b) \in Nat \ {0}
         /\ Len(Tail(b)) = Len(b) - 1
         /\ \A i \in 1..(Len(b) - 1) : Tail(b)[i] = b[i + 1]
         /\ Head(b) = b[1] /\ b[1] \in E
         /\ Tail(b) = <<>> <=> Len(b) = 1
<1>1. /\ Tail(b) \in Seq(E)
      /\ Len(b) \in Nat \ {0}
      /\ Len(Tail(b)) = Len(b) - 1
      /\ \A i \in 1..(Len(b) - 1) : Tail(b)[i] = b[i + 1]
  OBVIOUS
<1>2. Head(b) = b[1] /\ b[1] \in E
  OBVIOUS
<1>3. Tail(b) = <<>> <=> Len(Tail(b)) = 0
  BY <1>1, Empty
<1> QED BY <1>1, <1>2, <1>3

(* A set of numbers up to n that is not empty has a greatest one: of the   *)
(* sets i..n, i among them, one has none of the others inside.             *)
LEMMA Greatest ==
  ASSUME NEW n \in Nat, NEW S, S \subseteq 1..n, S # {}
  PROVE  \E i \in S : \A j \in S : j <= i
<1> DEFINE N == 1..n
           T == {i..n : i \in S}
<1>1. \A i \in S : i \in Nat /\ i <= n /\ i \in i..n /\ i..n \subseteq N
  OBVIOUS
<1>2. IsFiniteSet(N) /\ FiniteSubsetsOf(N) = SUBSET N
  BY FS_Interval, FS_FiniteSubsetsOfFinite
<1>3. T \subseteq FiniteSubsetsOf(N) /\ T # {}
  <2>1. \A i \in S : i..n \in SUBSET N
    BY <1>1
  <2>2. \A x \in T : x \in SUBSET N
    BY <2>1
  <2>3. T # {}
    OBVIOUS
  <2> HIDE DEF T, N
  <2> QED BY <1>2, <2>2, <2>3
<1>4. IsWellFoundedOn(StrictSubsetOrdering(N), FiniteSubsetsOf(N))
  BY FS_StrictSubsetOrderingWellFounded
<1>5. PICK x \in T : \A y \in T : ~ (<<y, x>> \in StrictSubsetOrdering(N))
  <2> HIDE DEF T, N
  <2> QED BY <1>3, <1>4, WFMin
<1>6. PICK i \in S : x = i..n
  BY <1>5
<1>7. ASSUME NEW j \in S PROVE j <= i
  <2>1. SUFFICES ASSUME j > i PROVE FALSE
    BY <1>1
  <2>2. j..n \in T /\ i..n \in T /\ j..n \in SUBSET N /\ i..n \in SUBSET N
    BY <1>1
  <2>3. j..n \subseteq i..n /\ j..n # i..n
    BY <1>1, <2>1
  <2>4. <<j..n, i..n>> \in StrictSubsetOrdering(N)
    BY <2>2, <2>3 DEF StrictSubsetOrdering
  <2> QED BY <1>5, <1>6, <2>2, <2>4
<1> QED BY <1>7

(* What a thread loads is the last value in its buffer or that in memory. *)
LEMMA Loads ==
  ASSUME Types, NEW t \in Threads, NEW c \in Cells
  PROVE  /\ Load(t, c) \in Nat
         /\ \/ /\ \A i \in 1..Len(buffer[t]) : buffer[t][i].cell # c
               /\ Load(t, c) = memory[c]
            \/ \E i \in 1..Len(buffer[t]) :
                   buffer[t][i].cell = c /\ Load(t, c) = buffer[t][i].value
<1> DEFINE own == {i \in 1..Len(buffer[t]) : buffer[t][i].cell = c}
           last == CHOOSE i \in own : \A j \in own : j <= i
<1>1. Len(buffer[t]) \in Nat /\ memory[c] \in Nat
  BY DEF Types
<1>2. CASE own = {}
  <2>1. Load(t, c) = memory[c]
    BY <1>2 DEF Load
  <2> QED BY <1>1, <1>2, <2>1
<1>3. CASE own # {}
  <2>1. last \in own
    <3>1. own \subseteq 1..Len(buffer[t])
      OBVIOUS
    <3> HIDE DEF own
    <3> QED BY <1>1, <1>3, <3>1, Greatest
  <2>2. Load(t, c) = buffer[t][last].value
    BY <1>3 DEF Load
  <2>3. buffer[t][last] \in Entries
    <3>1. buffer[t] \in Seq(Entries) /\ last \in 1..Len(buffer[t])
      BY <2>1 DEF Types
    <3> HIDE DEF last
    <3> QED BY <3>1
  <2> HIDE DEF last
  <2> QED BY <2>1, <2>2, <2>3 DEF Entries
<1> QED BY <1>2, <1>3

LEMMA LoadsMemory ==
  ASSUME NEW t, NEW c, buffer[t] = <<>>
  PROVE  Load(t, c) = memory[c]
BY DEF Load

----------------------------------------------------------------------------
(* The locks other than that of mm/atomic.  Busy is who is in the section  *)
(* or has left stores of it in the buffer. *)
Busy(t) == InSection(t) \/ buffer[t] # <<>>

(* The counter as t sees it, and how far it is ahead of the sections left. *)
Seen(t) ==
    IF buffer[t] # <<>> /\ buffer[t][1].cell = data THEN buffer[t][1].value
                                                    ELSE memory[data]

Updates(t) == IF pc[t] = "unlock" THEN 1 ELSE 0

IsRelease(e) == e.cell = locked /\ e.value = 0

(* Only data is buffered in a section, and behind it only the release. *)
Shape(t) ==
    \/ buffer[t] = <<>>
    \/ pc[t] = "unlock" /\ Len(buffer[t]) = 1 /\ buffer[t][1].cell = data
    \/ /\ lock = "tas" /\ ~InSection(t)
       /\ \/ Len(buffer[t]) = 1 /\ IsRelease(buffer[t][1])
          \/ /\ Len(buffer[t]) = 2
             /\ buffer[t][1].cell = data /\ IsRelease(buffer[t][2])

Counted == {t \in Threads : InSection(t) \/ pc[t] = "stepBack"}

Word ==
    IF lock = "tricky" THEN memory[locked] = Cardinality(Counted)
    ELSE /\ memory[locked] \in {0, 1}
         /\ memory[locked] = 0 => \A t \in Threads : ~Busy(t)

OneBusy == \A t, u \in Threads : Busy(t) /\ Busy(u) => t = u

(* Unless somebody else is busy, the counter t sees is what it should be.  *)
DataSeen == \A t \in Threads :
    (\A u \in Threads \ {t} : ~Busy(u)) => Seen(t) = Total + Updates(t)

DataRead == \A t \in Threads :
    pc[t] \in {"write", "unlock"} => register[t] = Total

Sections ==
    /\ \A t \in Threads : Shape(t)
    /\ OneBusy /\ DataSeen /\ DataRead

(* What a step of t leaves alone. *)
OnlyMoves(t) ==
    /\ lock' = lock
    /\ \A u \in Threads \ {t} : /\ pc'[u] = pc[u] /\ buffer'[u] = buffer[u]
                                /\ register'[u] = register[u]

(* Steps outside the section and within it that leave the buffer alone. *)
LEMMA Stays ==
  ASSUME Types, Sections, NEW t \in Threads, OnlyMoves(t), buffer' = buffer,
         memory'[data] = memory[data], Total' = Total,
         InSection(t)' <=> InSection(t), pc[t] # "unlock", pc'[t] # "unlock",
         pc'[t] = "write" => register'[t] = Total
  PROVE  Sections' /\ (\A u \in Threads : Busy(u)' <=> Busy(u))
<1>1. \A u \in Threads : Busy(u)' <=> Busy(u)
  BY DEF OnlyMoves, Busy, InSection
<1>2. \A u \in Threads : Shape(u)'
  BY DEF OnlyMoves, Sections, Shape, InSection, IsRelease
<1>3. \A u \in Threads : Seen(u)' = Seen(u) /\ Updates(u)' = Updates(u)
  BY DEF OnlyMoves, Seen, Updates
<1>4. OneBusy' /\ DataSeen'
  BY <1>1, <1>3 DEF Sections, OneBusy, DataSeen
<1>5. DataRead'
  BY DEF OnlyMoves, Sections, DataRead
<1> QED BY <1>1, <1>2, <1>4, <1>5 DEF Sections

(* A thread enters when nobody is busy. *)
LEMMA Enters ==
  ASSUME Types, Sections, NEW t \in Threads, OnlyMoves(t), buffer' = buffer,
         memory'[data] = memory[data], Total' = Total,
         pc'[t] = "read", \A u \in Threads : ~Busy(u)
  PROVE  Sections' /\ (\A u \in Threads : Busy(u)' <=> u = t)
<1>1. \A u \in Threads : buffer[u] = <<>> /\ buffer'[u] = <<>> /\ ~InSection(u)
  BY DEF OnlyMoves, Busy
<1>2. \A u \in Threads : Busy(u)' <=> u = t
  BY <1>1 DEF OnlyMoves, Busy, InSection
<1>3. \A u \in Threads : Shape(u)'
  BY <1>1 DEF Shape
<1>4. OneBusy'
  BY <1>2 DEF OneBusy
<1>5. Seen(t)' = Seen(t) /\ Updates(t)' = 0 /\ Updates(t) = 0
  BY <1>1 DEF Seen, Updates, InSection
<1>6. Seen(t) = Total + Updates(t)
  BY DEF Sections, DataSeen
<1>7. DataSeen'
  BY <1>2, <1>5, <1>6 DEF DataSeen
<1>8. DataRead'
  BY <1>1 DEF OnlyMoves, DataRead, InSection
<1> QED BY <1>2, <1>3, <1>4, <1>7, <1>8 DEF Sections

(* One more section is left. *)
LEMMA SectionCounted ==
  ASSUME Types, NEW t \in Threads, sections' = [sections EXCEPT ![t] = @ + 1]
  PROVE  Total \in Nat /\ Total' = Total + 1 /\ IsFiniteSet(SectionsLeft)'
<1> DEFINE new == <<t, sections[t] + 1>>
<1>1. \A u \in Threads : sections[u] \in Nat
  BY CriticalSectionAssumption DEF Types
<1>2. new \notin SectionsLeft
  BY <1>1 DEF SectionsLeft
<1>3. \A u \in Threads \ {t} : sections'[u] = sections[u]
  BY DEF Types
<1>4. sections'[t] = sections[t] + 1
  BY DEF Types
<1>5. SectionsLeft' = SectionsLeft \cup {new}
  <2>1. \A x : x \in SectionsLeft <=>
            \E u \in Threads : \E i \in 1..sections[u] : x = <<u, i>>
    BY DEF SectionsLeft
  <2>2. \A x : x \in SectionsLeft' <=>
            \E u \in Threads : \E i \in 1..sections'[u] : x = <<u, i>>
    BY DEF SectionsLeft
  <2>3. 1..sections'[t] = (1..sections[t]) \cup {sections[t] + 1}
    BY <1>1, <1>4
  <2>4. ASSUME NEW x, x \in SectionsLeft' PROVE x \in SectionsLeft \cup {new}
    <3>1. PICK u \in Threads : \E i \in 1..sections'[u] : x = <<u, i>>
      BY <2>2, <2>4
    <3>2. PICK i \in 1..sections'[u] : x = <<u, i>>
      BY <3>1
    <3>3. CASE u = t
      BY <2>1, <2>3, <3>2, <3>3
    <3>4. CASE u # t
      BY <1>3, <2>1, <3>2, <3>4
    <3> QED BY <3>3, <3>4
  <2>5. ASSUME NEW x, x \in SectionsLeft \cup {new} PROVE x \in SectionsLeft'
    <3>1. CASE x = new
      BY <2>2, <2>3, <3>1
    <3>2. CASE x \in SectionsLeft
      <4>1. PICK u \in Threads : \E i \in 1..sections[u] : x = <<u, i>>
        BY <2>1, <3>2
      <4>2. CASE u = t
        BY <2>2, <2>3, <4>1, <4>2
      <4>3. CASE u # t
        BY <1>3, <2>2, <4>1, <4>3
      <4> QED BY <4>2, <4>3
    <3> QED BY <2>5, <3>1, <3>2
  <2> QED BY <2>4, <2>5
<1>6. IsFiniteSet(SectionsLeft)
  BY DEF Types
<1>7. /\ IsFiniteSet(SectionsLeft \cup {new})
      /\ Cardinality(SectionsLeft \cup {new}) = Cardinality(SectionsLeft) + 1
  BY <1>2, <1>6, FS_AddElement
<1>8. Cardinality(SectionsLeft) \in Nat
  BY <1>6, FS_CardinalityType
<1> QED BY <1>5, <1>7, <1>8 DEF Total

LEMMA SectionsSame ==
  ASSUME Types, sections' = sections
  PROVE  Total \in Nat /\ Total' = Total /\ IsFiniteSet(SectionsLeft)'
<1>1. SectionsLeft' = SectionsLeft
  BY DEF SectionsLeft
<1>2. IsFiniteSet(SectionsLeft)
  BY DEF Types
<1>3. Cardinality(SectionsLeft) \in Nat
  BY <1>2, FS_CardinalityType
<1> QED BY <1>1, <1>2, <1>3 DEF Total

(* A thread leaves with nothing in its buffer: nobody is busy. *)
LEMMA LeavesDrained ==
  ASSUME Types, Sections, NEW t \in Threads, OnlyMoves(t), InSection(t),
         buffer[t] = <<>>, buffer' = buffer, memory'[data] = memory[data],
         pc'[t] = "idle", Total \in Nat, Total' = Total + Updates(t)
  PROVE  Sections' /\ (\A u \in Threads : ~Busy(u)')
<1>1. \A u \in Threads \ {t} : ~Busy(u)
  BY DEF Sections, OneBusy, Busy
<1>2. \A u \in Threads : buffer[u] = <<>> /\ buffer'[u] = <<>>
  BY <1>1 DEF OnlyMoves, Busy
<1>3. \A u \in Threads : ~InSection(u)'
  BY <1>1 DEF OnlyMoves, Busy, InSection
<1>4. \A u \in Threads : ~Busy(u)' /\ Shape(u)'
  BY <1>2, <1>3 DEF Busy, Shape
<1>5. Seen(t) = Total + Updates(t)
  BY <1>1 DEF Sections, DataSeen
<1>6. \A u \in Threads : Seen(u)' = Seen(t)
  BY <1>2 DEF Seen
<1>7. \A u \in Threads : Updates(u)' = 0
  BY <1>3 DEF Updates, InSection
<1>8. Total' \in Nat
  BY DEF Updates
<1>9. DataSeen'
  BY <1>5, <1>6, <1>7, <1>8 DEF DataSeen
<1>10. OneBusy' /\ DataRead'
  BY <1>3, <1>4 DEF OneBusy, DataRead, InSection
<1> QED BY <1>4, <1>9, <1>10 DEF Sections

(* A thread leaves with its release in the buffer. *)
LEMMA LeavesBuffered ==
  ASSUME Types, Sections, NEW t \in Threads, OnlyMoves(t), lock = "tas",
         pc[t] = "unlock", memory' = memory, pc'[t] = "idle",
         NEW e \in Entries, IsRelease(e), buffer'[t] = Append(buffer[t], e),
         Total \in Nat, Total' = Total + 1
  PROVE  Sections' /\ (\A u \in Threads : Busy(u)' <=> u = t)
<1>1. \A u \in Threads \ {t} : ~Busy(u)
  BY DEF Sections, OneBusy, Busy, InSection
<1>2. /\ buffer[t] \in Seq(Entries) /\ locked # data
      /\ Len(buffer'[t]) = Len(buffer[t]) + 1
      /\ buffer'[t][Len(buffer[t]) + 1] = e
      /\ \A i \in 1..Len(buffer[t]) : buffer'[t][i] = buffer[t][i]
      /\ buffer'[t] # <<>>
      /\ Len(buffer[t]) \in Nat
  BY Stored, CriticalSectionAssumption DEF Types
<1>3. \A u \in Threads : Busy(u)' <=> u = t
  BY <1>1, <1>2 DEF OnlyMoves, Busy, InSection
<1>4. OneBusy'
  BY <1>3 DEF OneBusy
<1>5. \/ buffer[t] = <<>> /\ Len(buffer[t]) = 0
      \/ Len(buffer[t]) = 1 /\ buffer[t][1].cell = data
  BY DEF Sections, Shape, InSection
<1>6. Shape(t)'
  BY <1>2, <1>5 DEF Shape, OnlyMoves, InSection
<1>7. \A u \in Threads : Shape(u)'
  BY <1>1, <1>6 DEF Shape, OnlyMoves, Busy
<1>8. Seen(t)' = Seen(t)
  <2>1. CASE buffer[t] = <<>> /\ Len(buffer[t]) = 0
    BY <1>2, <2>1 DEF Seen, IsRelease
  <2>2. CASE Len(buffer[t]) = 1 /\ buffer[t][1].cell = data
    <3>1. buffer[t] # <<>> /\ buffer'[t][1] = buffer[t][1]
      BY <1>2, <2>2
    <3> QED BY <1>2, <2>2, <3>1 DEF Seen
  <2> QED BY <1>5, <2>1, <2>2
<1>9. Seen(t) = Total + 1 /\ Updates(t)' = 0
  BY <1>1 DEF Sections, DataSeen, Updates
<1>10. DataSeen'
  BY <1>3, <1>8, <1>9 DEF DataSeen
<1>11. DataRead'
  BY <1>1 DEF OnlyMoves, DataRead, Busy, InSection
<1> QED BY <1>3, <1>4, <1>7, <1>10, <1>11 DEF Sections

(* The counter is written. *)
LEMMA Writes ==
  ASSUME Types, Sections, NEW t \in Threads, OnlyMoves(t),
         pc[t] = "write", memory' = memory, pc'[t] = "unlock",
         register'[t] = register[t],
         NEW e \in Entries, e.cell = data, e.value = register[t] + 1,
         buffer'[t] = Append(buffer[t], e), Total' = Total
  PROVE  Sections' /\ (\A u \in Threads : Busy(u)' <=> Busy(u))
<1>1. \A u \in Threads \ {t} : ~Busy(u)
  BY DEF Sections, OneBusy, Busy, InSection
<1>2. buffer[t] = <<>>
  BY DEF Sections, Shape, InSection
<1>3. /\ Len(buffer'[t]) = 1 /\ buffer'[t][1] = e /\ buffer'[t] # <<>>
  <2>1. buffer[t] \in Seq(Entries) /\ Len(buffer[t]) = 0
    BY <1>2 DEF Types
  <2> QED BY <2>1, Stored
<1>4. \A u \in Threads : (Busy(u)' <=> u = t) /\ (Busy(u) <=> u = t)
  BY <1>1 DEF OnlyMoves, Busy, InSection
<1>5. OneBusy'
  BY <1>4 DEF OneBusy
<1>6. \A u \in Threads : Shape(u)'
  BY <1>1, <1>3 DEF Shape, OnlyMoves, Busy
<1>7. register[t] = Total
  BY DEF Sections, DataRead
<1>8. Seen(t)' = Total + 1 /\ Updates(t)' = 1
  BY <1>3, <1>7 DEF Seen, Updates
<1>9. DataSeen'
  BY <1>4, <1>8 DEF DataSeen
<1>10. DataRead'
  BY <1>1, <1>7 DEF OnlyMoves, DataRead, Busy, InSection
<1> QED BY <1>4, <1>5, <1>6, <1>9, <1>10 DEF Sections

(* The counter's new value reaches memory. *)
LEMMA FlushesData ==
  ASSUME Types, Sections, NEW t \in Threads, OnlyMoves(t), buffer[t] # <<>>,
         pc'[t] = pc[t], register'[t] = register[t],
         buffer[t][1].cell = data, memory'[data] = buffer[t][1].value,
         buffer'[t] = Tail(buffer[t]), Total' = Total
  PROVE  Sections' /\ (\A u \in Threads : Busy(u)' <=> Busy(u))
<1>1. \A u \in Threads \ {t} : ~Busy(u)
  BY DEF Sections, OneBusy, Busy
<1>2. /\ Len(buffer[t]) \in Nat \ {0}
      /\ Len(buffer'[t]) = Len(buffer[t]) - 1
      /\ \A i \in 1..(Len(buffer[t]) - 1) : buffer'[t][i] = buffer[t][i + 1]
      /\ buffer'[t] = <<>> <=> Len(buffer[t]) = 1
  BY Flushed DEF Types
<1>3. locked # data
  BY CriticalSectionAssumption
<1>4. \/ pc[t] = "unlock" /\ Len(buffer[t]) = 1 /\ buffer'[t] = <<>>
      \/ /\ lock = "tas" /\ ~InSection(t) /\ Len(buffer[t]) = 2
         /\ IsRelease(buffer[t][2])
  BY <1>2, <1>3 DEF Sections, Shape, IsRelease
<1>5. \/ pc[t] = "unlock" /\ buffer'[t] = <<>>
      \/ /\ lock = "tas" /\ ~InSection(t) /\ Len(buffer'[t]) = 1
         /\ IsRelease(buffer'[t][1]) /\ buffer'[t] # <<>>
  BY <1>2, <1>4
<1>6. \A u \in Threads : (Busy(u)' <=> u = t) /\ (Busy(u) <=> u = t)
  <2>1. Busy(t) /\ Busy(t)'
    BY <1>5 DEF Busy, InSection
  <2>2. \A u \in Threads \ {t} : ~Busy(u)'
    BY <1>1 DEF OnlyMoves, Busy, InSection
  <2> QED BY <1>1, <2>1, <2>2
<1>7. OneBusy'
  BY <1>6 DEF OneBusy
<1>8. Shape(t)'
  BY <1>5 DEF OnlyMoves, Shape, InSection, IsRelease
<1>9. \A u \in Threads : Shape(u)'
  BY <1>1, <1>8 DEF Shape, OnlyMoves, Busy
<1>10. Seen(t)' = Seen(t) /\ Updates(t)' = Updates(t)
  BY <1>3, <1>5 DEF Seen, Updates, IsRelease
<1>11. DataSeen'
  BY <1>6, <1>10 DEF DataSeen, Sections
<1>12. DataRead'
  BY DEF OnlyMoves, Sections, DataRead
<1> QED BY <1>6, <1>7, <1>9, <1>11, <1>12 DEF Sections

(* The release reaches memory: nobody is busy. *)
LEMMA FlushesRelease ==
  ASSUME Types, Sections, NEW t \in Threads, OnlyMoves(t), buffer[t] # <<>>,
         pc'[t] = pc[t], register'[t] = register[t],
         buffer[t][1].cell # data, memory'[data] = memory[data],
         buffer'[t] = Tail(buffer[t]), Total \in Nat, Total' = Total
  PROVE  /\ Sections' /\ (\A u \in Threads : ~Busy(u)')
         /\ lock = "tas" /\ IsRelease(buffer[t][1])
<1>1. \A u \in Threads \ {t} : ~Busy(u)
  BY DEF Sections, OneBusy, Busy
<1>2. buffer'[t] = <<>> <=> Len(buffer[t]) = 1
  BY Flushed DEF Types
<1>3. /\ lock = "tas" /\ ~InSection(t)
      /\ Len(buffer[t]) = 1 /\ IsRelease(buffer[t][1])
  BY DEF Sections, Shape
<1>4. \A u \in Threads : ~Busy(u)' /\ buffer'[u] = <<>>
  BY <1>1, <1>2, <1>3 DEF OnlyMoves, Busy, InSection
<1>5. OneBusy' /\ \A u \in Threads : Shape(u)'
  BY <1>4 DEF OneBusy, Shape
<1>6. Seen(t) = memory[data] /\ Updates(t) = 0
  BY <1>3 DEF Seen, Updates, InSection
<1>7. memory[data] = Total
  BY <1>1, <1>6 DEF Sections, DataSeen
<1>8. \A u \in Threads : Seen(u)' = Total /\ Updates(u)' = 0
  BY <1>4, <1>7 DEF Seen, Updates, Busy, InSection
<1>9. DataSeen'
  BY <1>8 DEF DataSeen
<1>10. DataRead'
  BY <1>4 DEF DataRead, Busy, InSection
<1> QED BY <1>3, <1>4, <1>5, <1>9, <1>10 DEF Sections

----------------------------------------------------------------------------
(* The memory's operations. *)
MemoryTypes ==
    /\ memory \in [Cells -> Nat]
    /\ buffer \in [Threads -> Seq(Entries)]
    /\ \A t \in Threads : Len(buffer[t]) <= BufferSize

LEMMA Stores ==
  ASSUME Types, NEW t \in Threads, NEW c \in Cells, NEW v \in Nat, Store(t, c, v)
  PROVE  /\ MemoryTypes' /\ memory' = memory
         /\ [cell |-> c, value |-> v] \in Entries
         /\ buffer'[t] = Append(buffer[t], [cell |-> c, value |-> v])
         /\ \A u \in Threads \ {t} : buffer'[u] = buffer[u]
<1> DEFINE e == [cell |-> c, value |-> v]
<1>1. e \in Entries
  BY DEF Entries
<1>2. buffer[t] \in Seq(Entries)
  BY DEF Types
<1>3. Append(buffer[t], e) \in Seq(Entries) /\ Len(Append(buffer[t], e)) <= BufferSize
  <2>1. Len(buffer[t]) < BufferSize /\ Len(buffer[t]) \in Nat
    BY <1>2, Empty DEF Store
  <2> QED BY <1>1, <1>2, <2>1, Stored, BufferAssumption
<1> HIDE DEF e
<1>4. memory' = memory /\ buffer' = [buffer EXCEPT ![t] = Append(buffer[t], e)]
  BY DEF Store, e
<1>5. /\ buffer'[t] = Append(buffer[t], e)
      /\ \A u \in Threads \ {t} : buffer'[u] = buffer[u]
      /\ buffer' \in [Threads -> Seq(Entries)]
  BY <1>3, <1>4 DEF Types
<1>6. MemoryTypes'
  BY <1>3, <1>4, <1>5 DEF Types, MemoryTypes
<1> QED BY <1>1, <1>4, <1>5, <1>6 DEF e

LEMMA LockedStores ==
  ASSUME Types, NEW t \in Threads, NEW c \in Cells, NEW v \in Nat,
         LockedStore(t, c, v)
  PROVE  /\ MemoryTypes' /\ buffer[t] = <<>> /\ buffer' = buffer
         /\ memory'[c] = v
         /\ \A d \in Cells \ {c} : memory'[d] = memory[d]
BY DEF LockedStore, MemoryTypes, Types

LEMMA Flushes ==
  ASSUME Types, NEW t \in Threads, Flush(t)
  PROVE  /\ MemoryTypes' /\ buffer[t] # <<>> /\ buffer[t][1] \in Entries
         /\ buffer'[t] = Tail(buffer[t])
         /\ \A u \in Threads \ {t} : buffer'[u] = buffer[u]
         /\ memory'[buffer[t][1].cell] = buffer[t][1].value
         /\ \A d \in Cells \ {buffer[t][1].cell} : memory'[d] = memory[d]
<1>1. buffer[t] # <<>> /\ buffer[t] \in Seq(Entries)
  BY DEF Flush, Types
<1>2. /\ Tail(buffer[t]) \in Seq(Entries) /\ Head(buffer[t]) = buffer[t][1]
      /\ Len(Tail(buffer[t])) = Len(buffer[t]) - 1 /\ Len(buffer[t]) \in Nat
      /\ buffer[t][1] \in Entries
  BY <1>1, Flushed
<1>3. /\ memory' = [memory EXCEPT ![buffer[t][1].cell] = buffer[t][1].value]
      /\ buffer' = [buffer EXCEPT ![t] = Tail(buffer[t])]
  BY <1>2 DEF Flush
<1>4. buffer[t][1].cell \in Cells /\ buffer[t][1].value \in Nat
  BY <1>2 DEF Entries
<1>5. /\ buffer'[t] = Tail(buffer[t])
      /\ \A u \in Threads \ {t} : buffer'[u] = buffer[u]
      /\ buffer' \in [Threads -> Seq(Entries)]
  BY <1>2, <1>3 DEF Types
<1>6. /\ memory' \in [Cells -> Nat]
      /\ memory'[buffer[t][1].cell] = buffer[t][1].value
      /\ \A d \in Cells \ {buffer[t][1].cell} : memory'[d] = memory[d]
  BY <1>3, <1>4 DEF Types
<1>7. \A u \in Threads : Len(buffer'[u]) <= BufferSize
  <2>1. Len(buffer[t]) <= BufferSize
    BY DEF Types
  <2>2. Len(buffer'[t]) <= BufferSize
    BY <1>2, <1>5, <2>1, BufferAssumption
  <2> QED BY <1>5, <2>2 DEF Types
<1> QED BY <1>1, <1>2, <1>5, <1>6, <1>7 DEF MemoryTypes

(* Who goes from one place to another alone moves. *)
LEMMA Moves ==
  ASSUME Types, NEW t \in Threads, NEW from, NEW to \in Places,
         Transition(t, from, to)
  PROVE  /\ pc[t] = from /\ pc'[t] = to /\ pc' \in [Threads -> Places]
         /\ \A u \in Threads \ {t} : pc'[u] = pc[u]
BY DEF Transition, Types

LEMMA Leaves ==
  ASSUME Types, NEW t \in Threads, Leave(t)
  PROVE  /\ pc[t] = "unlock" /\ pc'[t] = "idle" /\ pc' \in [Threads -> Places]
         /\ \A u \in Threads \ {t} : pc'[u] = pc[u]
         /\ register' = register
         /\ Total \in Nat /\ Total' = Total + 1 /\ IsFiniteSet(SectionsLeft)'
<1>1. /\ Transition(t, "unlock", "idle") /\ register' = register
      /\ sections' = [sections EXCEPT ![t] = @ + 1]
  BY DEF Leave
<1>2. "idle" \in Places
  BY DEF Places
<1> QED BY <1>1, <1>2, Moves, SectionCounted

ControlTypes ==
    /\ pc \in [Threads -> Places]
    /\ register \in [Threads -> Nat]
    /\ sections \in [Threads -> 0..Rounds]
    /\ \A t \in Threads : pc[t] # "idle" => sections[t] < Rounds
    /\ IsFiniteSet(SectionsLeft)

LEMMA MovesTypes ==
  ASSUME Types, NEW t \in Threads, NEW from, NEW to \in Places,
         Transition(t, from, to), from # "idle" \/ sections[t] < Rounds,
         register' \in [Threads -> Nat], sections' = sections
  PROVE  ControlTypes' /\ Total' = Total
<1>1. IsFiniteSet(SectionsLeft)' /\ Total' = Total
  BY SectionsSame
<1>2. /\ pc[t] = from /\ pc'[t] = to /\ pc' \in [Threads -> Places]
      /\ \A u \in Threads \ {t} : pc'[u] = pc[u]
  BY Moves
<1>3. \A u \in Threads : pc'[u] # "idle" => sections'[u] < Rounds
  BY <1>2 DEF Types
<1> QED BY <1>1, <1>2, <1>3 DEF ControlTypes, Types

LEMMA LeavesTypes ==
  ASSUME Types, NEW t \in Threads, Leave(t)
  PROVE  ControlTypes'
<1>1. /\ pc[t] = "unlock" /\ pc'[t] = "idle" /\ pc' \in [Threads -> Places]
      /\ \A u \in Threads \ {t} : pc'[u] = pc[u]
      /\ register' = register /\ IsFiniteSet(SectionsLeft)'
  BY Leaves
<1>2. sections[t] \in Nat /\ sections[t] < Rounds /\ Rounds \in Nat
  BY <1>1, CriticalSectionAssumption DEF Types
<1>3. sections[t] + 1 \in 0..Rounds
  BY <1>2
<1>4. sections' = [sections EXCEPT ![t] = sections[t] + 1]
  BY DEF Leave
<1>5. /\ sections' \in [Threads -> 0..Rounds]
      /\ \A u \in Threads \ {t} : sections'[u] = sections[u]
  BY <1>3, <1>4 DEF Types
<1>6. \A u \in Threads : pc'[u] # "idle" => sections'[u] < Rounds
  BY <1>1, <1>5 DEF Types
<1> QED BY <1>1, <1>5, <1>6 DEF ControlTypes, Types

(* An operation of the memory or none. *)
LEMMA TypesFit ==
  ASSUME Types, lock' = lock, overlapped' \in BOOLEAN, ControlTypes',
         MemoryTypes' \/ UNCHANGED memoryVars
  PROVE  Types'
BY DEF Types, ControlTypes, MemoryTypes, memoryVars

----------------------------------------------------------------------------
(* The steps of the four locks. *)
Plain == lock # "atomic" => Sections /\ Word

LEMMA Cell ==
  /\ locked \in Cells /\ data \in Cells /\ locked # data
  /\ \A c \in Cells : c = locked \/ c = data
BY CriticalSectionAssumption

LEMMA CountedFinite == IsFiniteSet(Counted) /\ Cardinality(Counted) <= Cardinality(Threads)
BY CriticalSectionAssumption, FS_Subset DEF Counted

(* A step outside the lock's cell and the buffers keeps Word. *)
LEMMA WordSame ==
  ASSUME Word, NEW t \in Threads, OnlyMoves(t), memory'[locked] = memory[locked],
         (InSection(t) \/ pc[t] = "stepBack") <=> (InSection(t) \/ pc[t] = "stepBack")',
         \A u \in Threads : Busy(u)' <=> Busy(u)
  PROVE  Word'
<1>1. Counted' = Counted
  BY DEF Counted, OnlyMoves, InSection
<1> QED BY <1>1 DEF Word, OnlyMoves

LEMMA CallsPlain ==
  ASSUME Types, lock # "atomic", Sections, Word, NEW t \in Threads, Calls(t)
  PROVE  Types' /\ Sections' /\ Word'
<1>1. /\ Transition(t, "idle", "lock") /\ sections[t] < Rounds
      /\ memory' = memory /\ buffer' = buffer
      /\ UNCHANGED <<register, sections, lock, overlapped>>
  BY DEF Calls, CallLock, TryLock, memoryVars
<1>2. "lock" \in Places
  BY DEF Places, Contending
<1>3. /\ pc[t] = "idle" /\ pc'[t] = "lock"
      /\ \A u \in Threads \ {t} : pc'[u] = pc[u]
  BY <1>1, <1>2, Moves
<1>4. ControlTypes' /\ Total' = Total
  BY <1>1, <1>2, MovesTypes DEF Types
<1>5. Types'
  BY <1>1, <1>4, TypesFit DEF memoryVars, Types
<1>6. OnlyMoves(t)
  BY <1>1, <1>3 DEF OnlyMoves
<1>7. Sections' /\ (\A u \in Threads : Busy(u)' <=> Busy(u))
  BY <1>1, <1>3, <1>4, <1>6, Stays DEF InSection
<1>8. Word'
  BY <1>1, <1>3, <1>6, <1>7, WordSame DEF InSection
<1> QED BY <1>5, <1>7, <1>8

LEMMA ReadsPlain ==
  ASSUME Types, lock # "atomic", Sections, Word, NEW t \in Threads,
         ReadData(t) \/ TakesCopy(t), UNCHANGED <<lock, overlapped>>
  PROVE  Types' /\ Sections' /\ Word'
<1> PICK to \in {"write", "drop"} :
         /\ Transition(t, "read", to)
         /\ register' = [register EXCEPT ![t] = Load(t, data)]
         /\ memory' = memory /\ buffer' = buffer /\ sections' = sections
  BY DEF ReadData, TakesCopy, memoryVars
<1>1. to \in Places
  BY DEF Places
<1>2. /\ pc[t] = "read" /\ pc'[t] = to
      /\ \A u \in Threads \ {t} : pc'[u] = pc[u]
  BY <1>1, Moves
<1>3. Load(t, data) \in Nat
  BY Cell, Loads
<1>4. /\ register'[t] = Load(t, data) /\ register' \in [Threads -> Nat]
      /\ \A u \in Threads \ {t} : register'[u] = register[u]
  BY <1>3 DEF Types
<1>5. ControlTypes' /\ Total' = Total
  BY <1>1, <1>4, MovesTypes
<1>6. Types'
  BY <1>5, TypesFit DEF memoryVars, Types
<1>7. OnlyMoves(t)
  BY <1>2, <1>4 DEF OnlyMoves
<1>8. buffer[t] = <<>>
  BY <1>2 DEF Sections, Shape, InSection
<1>9. Load(t, data) = memory[data] /\ Seen(t) = memory[data] /\ Updates(t) = 0
  BY <1>2, <1>8, LoadsMemory DEF Seen, Updates
<1>10. \A u \in Threads \ {t} : ~Busy(u)
  BY <1>2 DEF Sections, OneBusy, Busy, InSection
<1>11. register'[t] = Total
  <2>1. Total \in Nat
    BY SectionsSame
  <2>2. Seen(t) = Total + Updates(t)
    BY <1>10 DEF Sections, DataSeen
  <2> QED BY <1>4, <1>9, <2>1, <2>2
<1>12. Sections' /\ (\A u \in Threads : Busy(u)' <=> Busy(u))
  BY <1>2, <1>5, <1>7, <1>11, Stays DEF InSection
<1>13. Word'
  BY <1>2, <1>7, <1>12, WordSame DEF InSection
<1> QED BY <1>6, <1>12, <1>13

LEMMA WritesPlain ==
  ASSUME Types, lock # "atomic", Sections, Word, NEW t \in Threads,
         WriteData(t), UNCHANGED <<lock, overlapped>>
  PROVE  Types' /\ Sections' /\ Word'
<1> DEFINE e == [cell |-> data, value |-> register[t] + 1]
<1>1. /\ Transition(t, "write", "unlock") /\ Store(t, data, register[t] + 1)
      /\ register' = register /\ sections' = sections
  BY DEF WriteData
<1>2. "unlock" \in Places /\ register[t] + 1 \in Nat
  BY DEF Places, Types
<1>3. /\ pc[t] = "write" /\ pc'[t] = "unlock"
      /\ \A u \in Threads \ {t} : pc'[u] = pc[u]
  BY <1>1, <1>2, Moves
<1>4. /\ MemoryTypes' /\ memory' = memory /\ e \in Entries
      /\ buffer'[t] = Append(buffer[t], e)
      /\ \A u \in Threads \ {t} : buffer'[u] = buffer[u]
  BY <1>1, <1>2, Cell, Stores
<1>5. ControlTypes' /\ Total' = Total
  BY <1>1, <1>2, MovesTypes DEF Types
<1>6. Types'
  BY <1>4, <1>5, TypesFit DEF Types
<1>7. OnlyMoves(t)
  BY <1>1, <1>3, <1>4 DEF OnlyMoves
<1>8. e.cell = data /\ e.value = register[t] + 1
  OBVIOUS
<1>9. Sections' /\ (\A u \in Threads : Busy(u)' <=> Busy(u))
  <2> HIDE DEF e
  <2> QED BY <1>1, <1>3, <1>4, <1>5, <1>7, <1>8, Writes
<1>10. Word'
  BY <1>3, <1>4, <1>7, <1>9, WordSame DEF InSection
<1> QED BY <1>6, <1>9, <1>10

LEMMA DrainsPlain ==
  ASSUME Types, lock # "atomic", Sections, Word, NEW t \in Threads, Drains(t)
  PROVE  Types' /\ Sections' /\ Word'
<1>1. Flush(t) /\ UNCHANGED <<pc, register, sections, lock, overlapped>>
  BY DEF Drains, Drain
<1>2. /\ MemoryTypes' /\ buffer[t] # <<>> /\ buffer[t][1] \in Entries
      /\ buffer'[t] = Tail(buffer[t])
      /\ \A u \in Threads \ {t} : buffer'[u] = buffer[u]
      /\ memory'[buffer[t][1].cell] = buffer[t][1].value
      /\ \A d \in Cells \ {buffer[t][1].cell} : memory'[d] = memory[d]
  BY <1>1, Flushes
<1>3. Total \in Nat /\ Total' = Total /\ IsFiniteSet(SectionsLeft)'
  BY <1>1, SectionsSame
<1>4. Types'
  BY <1>1, <1>2, <1>3, TypesFit DEF Types, ControlTypes
<1>5. OnlyMoves(t)
  BY <1>1, <1>2 DEF OnlyMoves
<1>6. CASE buffer[t][1].cell = data
  <2>1. Sections' /\ (\A u \in Threads : Busy(u)' <=> Busy(u))
    BY <1>1, <1>2, <1>3, <1>5, <1>6, FlushesData
  <2>2. memory'[locked] = memory[locked]
    BY <1>2, <1>6, Cell
  <2>3. Word'
    BY <1>1, <1>5, <2>1, <2>2, WordSame DEF InSection
  <2> QED BY <1>4, <2>1, <2>3
<1>7. CASE buffer[t][1].cell # data
  <2>1. memory'[data] = memory[data]
    BY <1>2, <1>7, Cell
  <2>2. /\ Sections' /\ (\A u \in Threads : ~Busy(u)')
        /\ lock = "tas" /\ IsRelease(buffer[t][1])
    BY <1>1, <1>2, <1>3, <1>5, <1>7, <2>1, FlushesRelease
  <2>3. Word'
    BY <1>1, <1>2, <2>2 DEF Word, IsRelease
  <2> QED BY <1>4, <2>2, <2>3
<1> QED BY <1>6, <1>7

(* The exchange of a 1, by whichever lock, and the place of a thread that  *)
(* finds the lock taken. *)
LEMMA TakesPlain ==
  ASSUME Types, lock \notin {"atomic", "tricky"}, Sections, Word,
         NEW t \in Threads, NEW to \in {"read", "lock", "spin"},
         Transition(t, "lock", to), to = "read" <=> Load(t, locked) = 0,
         LockedStore(t, locked, 1), UNCHANGED <<register, sections, lock, overlapped>>
  PROVE  Types' /\ Sections' /\ Word'
<1>1. to \in Places
  BY DEF Places, Contending
<1>2. /\ pc[t] = "lock" /\ pc'[t] = to
      /\ \A u \in Threads \ {t} : pc'[u] = pc[u]
  BY <1>1, Moves
<1>3. /\ MemoryTypes' /\ buffer[t] = <<>> /\ buffer' = buffer
      /\ memory'[locked] = 1 /\ memory'[data] = memory[data]
  BY Cell, LockedStores
<1>4. ControlTypes' /\ Total' = Total
  BY <1>1, MovesTypes DEF Types
<1>5. Types'
  BY <1>3, <1>4, TypesFit DEF Types
<1>6. OnlyMoves(t)
  BY <1>2, <1>3 DEF OnlyMoves
<1>7. Load(t, locked) = memory[locked]
  BY <1>3, LoadsMemory
<1>8. Word'
  BY <1>3 DEF Word
<1>9. CASE to = "read"
  <2>1. \A u \in Threads : ~Busy(u)
    BY <1>7, <1>9 DEF Word
  <2> QED BY <1>2, <1>3, <1>4, <1>5, <1>6, <1>8, <1>9, <2>1, Enters
<1>10. CASE to # "read"
  BY <1>2, <1>3, <1>4, <1>5, <1>6, <1>8, <1>10, Stays DEF InSection
<1> QED BY <1>9, <1>10

(* while (atomic_.load()) *)
LEMMA SpinsPlain ==
  ASSUME Types, lock \notin {"atomic", "tricky"}, Sections, Word,
         NEW t \in Threads, SpinsOnLoad(t), UNCHANGED <<lock, overlapped>>
  PROVE  Types' /\ Sections' /\ Word'
<1> PICK to \in {"spin", "lock"} : Transition(t, "spin", to)
  BY DEF SpinsOnLoad
<1>1. memory' = memory /\ buffer' = buffer /\ register' = register /\ sections' = sections
  BY DEF SpinsOnLoad, memoryVars
<1>2. to \in Places
  BY DEF Places, Contending
<1>3. /\ pc[t] = "spin" /\ pc'[t] = to
      /\ \A u \in Threads \ {t} : pc'[u] = pc[u]
  BY <1>2, Moves
<1>4. ControlTypes' /\ Total' = Total
  BY <1>1, <1>2, MovesTypes DEF Types
<1>5. Types'
  BY <1>1, <1>4, TypesFit DEF memoryVars, Types
<1>6. OnlyMoves(t)
  BY <1>1, <1>3 DEF OnlyMoves
<1>7. Sections' /\ (\A u \in Threads : Busy(u)' <=> Busy(u))
  BY <1>1, <1>3, <1>4, <1>6, Stays DEF InSection
<1>8. Word'
  BY <1>1, <1>3, <1>6, <1>7, WordSame DEF InSection
<1> QED BY <1>5, <1>7, <1>8

(* A release by a locked store of any value. *)
LEMMA ReleasesPlain ==
  ASSUME Types, lock # "atomic", Sections, NEW t \in Threads,
         \/ Leave(t)
         \/ Transition(t, "drop", "idle") /\ UNCHANGED <<register, sections>>,
         NEW v \in Nat, LockedStore(t, locked, v), UNCHANGED <<lock, overlapped>>
  PROVE  /\ Types' /\ Sections' /\ OnlyMoves(t) /\ (\A u \in Threads : ~Busy(u)')
         /\ memory'[locked] = v /\ buffer[t] = <<>>
         /\ InSection(t) /\ pc'[t] = "idle"
<1>1. /\ MemoryTypes' /\ buffer[t] = <<>> /\ buffer' = buffer
      /\ memory'[locked] = v /\ memory'[data] = memory[data]
  BY Cell, LockedStores
<1>2. /\ pc[t] \in {"unlock", "drop"} /\ pc'[t] = "idle" /\ register' = register
      /\ \A u \in Threads \ {t} : pc'[u] = pc[u]
      /\ Total \in Nat /\ Total' = Total + Updates(t) /\ ControlTypes'
  <2>1. CASE Leave(t)
    BY <2>1, Leaves, LeavesTypes DEF Updates
  <2>2. CASE Transition(t, "drop", "idle") /\ UNCHANGED <<register, sections>>
    <3>1. "idle" \in Places
      BY DEF Places
    <3>2. pc[t] = "drop"
      BY <2>2 DEF Transition
    <3>3. Total \in Nat
      BY SectionsSame, <2>2
    <3>4. ControlTypes' /\ Total' = Total
      BY <2>2, <3>1, MovesTypes DEF Types
    <3> QED BY <2>2, <3>1, <3>2, <3>3, <3>4, Moves DEF Updates
  <2> QED BY <2>1, <2>2
<1>3. Types'
  BY <1>1, <1>2, TypesFit DEF Types
<1>4. OnlyMoves(t)
  BY <1>1, <1>2 DEF OnlyMoves
<1>5. InSection(t)
  BY <1>2 DEF InSection
<1>6. Sections' /\ (\A u \in Threads : ~Busy(u)')
  BY <1>1, <1>2, <1>4, <1>5, LeavesDrained
<1> QED BY <1>1, <1>2, <1>3, <1>4, <1>5, <1>6

(* AtomicStore(&locked_, 0) *)
LEMMA UnlocksPlain ==
  ASSUME Types, lock = "tas", Sections, Word, NEW t \in Threads,
         Unlock(t), UNCHANGED <<lock, overlapped>>
  PROVE  Types' /\ Sections' /\ Word'
<1> DEFINE e == [cell |-> locked, value |-> 0]
<1>1. Leave(t) /\ Store(t, locked, 0)
  BY DEF Unlock
<1>2. /\ pc[t] = "unlock" /\ pc'[t] = "idle"
      /\ \A u \in Threads \ {t} : pc'[u] = pc[u]
      /\ register' = register /\ Total \in Nat /\ Total' = Total + 1 /\ ControlTypes'
  BY <1>1, Leaves, LeavesTypes
<1>3. /\ MemoryTypes' /\ memory' = memory /\ e \in Entries
      /\ buffer'[t] = Append(buffer[t], e)
      /\ \A u \in Threads \ {t} : buffer'[u] = buffer[u]
  BY <1>1, Cell, Stores
<1>4. Types'
  BY <1>2, <1>3, TypesFit DEF Types
<1>5. OnlyMoves(t)
  BY <1>2, <1>3 DEF OnlyMoves
<1>6. IsRelease(e)
  BY DEF IsRelease
<1>7. Sections' /\ (\A u \in Threads : Busy(u)' <=> u = t)
  <2> HIDE DEF e
  <2> QED BY <1>2, <1>3, <1>5, <1>6, LeavesBuffered
<1>8. Word'
  <2>1. Busy(t)
    BY <1>2 DEF Busy, InSection
  <2> QED BY <1>3, <2>1 DEF Word
<1> QED BY <1>4, <1>7, <1>8

(* The thread joins the count, or leaves it. *)
LEMMA CountsPlain ==
  ASSUME Types, lock = "tricky", Word, NEW t \in Threads, OnlyMoves(t),
         InSection(t)' \/ pc'[t] = "stepBack" <=> ~(InSection(t) \/ pc[t] = "stepBack"),
         memory'[locked] = memory[locked]
                           + (IF InSection(t) \/ pc[t] = "stepBack" THEN -1 ELSE 1)
  PROVE  Word'
<1> DEFINE in == InSection(t) \/ pc[t] = "stepBack"
<1>1. IsFiniteSet(Counted) /\ memory[locked] = Cardinality(Counted) /\ memory[locked] \in Nat
  BY CountedFinite, Cell DEF Word, Types
<1>2. CASE in
  <2>1. Counted' = Counted \ {t} /\ t \in Counted
    BY <1>2 DEF Counted, OnlyMoves, InSection
  <2>2. Cardinality(Counted \ {t}) = Cardinality(Counted) - 1
    BY <1>1, <2>1, FS_RemoveElement
  <2>3. Cardinality(Counted)' = Cardinality(Counted) - 1
    BY <2>1, <2>2
  <2>4. memory'[locked] = memory[locked] - 1
    BY <1>1, <1>2
  <2> QED BY <1>1, <2>3, <2>4 DEF Word, OnlyMoves
<1>3. CASE ~in
  <2>1. Counted' = Counted \cup {t} /\ t \notin Counted
    BY <1>3 DEF Counted, OnlyMoves, InSection
  <2>2. Cardinality(Counted \cup {t}) = Cardinality(Counted) + 1
    BY <1>1, <2>1, FS_AddElement
  <2>3. Cardinality(Counted)' = Cardinality(Counted) + 1
    BY <2>1, <2>2
  <2>4. memory'[locked] = memory[locked] + 1
    BY <1>1, <1>3
  <2> QED BY <1>1, <2>3, <2>4 DEF Word, OnlyMoves
<1> QED BY <1>2, <1>3

(* Whoever is in the count is counted. *)
LEMMA CountPositive ==
  ASSUME Types, lock = "tricky", Word, NEW t \in Threads,
         InSection(t) \/ pc[t] = "stepBack"
  PROVE  memory[locked] \in Nat \ {0} /\ memory[locked] - 1 \in Nat
<1>1. IsFiniteSet(Counted) /\ memory[locked] = Cardinality(Counted) /\ memory[locked] \in Nat
  BY CountedFinite, Cell DEF Word, Types
<1>2. Counted # {}
  BY DEF Counted
<1>3. memory[locked] # 0
  BY <1>1, <1>2, FS_EmptySet
<1> QED BY <1>1, <1>3

LEMMA AddsPlain ==
  ASSUME Types, lock = "tricky", Sections, Word, NEW t \in Threads,
         FetchAdd(t), UNCHANGED <<lock, overlapped>>
  PROVE  Types' /\ Sections' /\ Word'
<1> DEFINE to == IF Load(t, locked) > 0 THEN "stepBack" ELSE "read"
<1>1. /\ Transition(t, "lock", to) /\ LockedStore(t, locked, Load(t, locked) + 1)
      /\ register' = register /\ sections' = sections
  BY DEF FetchAdd
<1>2. to \in Places
  BY DEF Places, Contending
<1>3. /\ pc[t] = "lock" /\ pc'[t] = to
      /\ \A u \in Threads \ {t} : pc'[u] = pc[u]
  BY <1>1, <1>2, Moves
<1>4. buffer[t] = <<>> /\ Load(t, locked) = memory[locked] /\ memory[locked] \in Nat
  BY <1>1, Cell, LoadsMemory DEF LockedStore, Types
<1>5. /\ MemoryTypes' /\ buffer' = buffer
      /\ memory'[locked] = memory[locked] + 1 /\ memory'[data] = memory[data]
  <2>1. Load(t, locked) + 1 \in Nat
    BY <1>4
  <2> QED BY <1>1, <1>4, <2>1, Cell, LockedStores
<1>6. ControlTypes' /\ Total' = Total
  BY <1>1, <1>2, MovesTypes DEF Types
<1>7. Types'
  BY <1>5, <1>6, TypesFit DEF Types
<1>8. OnlyMoves(t)
  BY <1>1, <1>3, <1>5 DEF OnlyMoves
<1>9. /\ ~(InSection(t) \/ pc[t] = "stepBack")
      /\ InSection(t)' \/ pc'[t] = "stepBack"
  BY <1>3 DEF InSection
<1>10. Word'
  BY <1>5, <1>8, <1>9, CountsPlain
<1>11. CASE memory[locked] = 0
  <2>1. to = "read"
    BY <1>4, <1>11
  <2>2. Counted = {}
    BY <1>11, CountedFinite, FS_EmptySet DEF Word
  <2>3. \A u \in Threads : ~InSection(u)
    BY <2>2 DEF Counted
  <2>4. \A u \in Threads : ~Busy(u)
    BY <2>3 DEF Sections, Shape, Busy, InSection
  <2> QED BY <1>3, <1>5, <1>6, <1>7, <1>8, <1>10, <2>1, <2>4, Enters
<1>12. CASE memory[locked] # 0
  <2>1. to = "stepBack"
    BY <1>4, <1>12
  <2> QED BY <1>3, <1>5, <1>6, <1>7, <1>8, <1>10, <2>1, Stays DEF InSection
<1> QED BY <1>11, <1>12

LEMMA StepsBackPlain ==
  ASSUME Types, lock = "tricky", Sections, Word, NEW t \in Threads,
         StepBack(t), UNCHANGED <<lock, overlapped>>
  PROVE  Types' /\ Sections' /\ Word'
<1>1. /\ Transition(t, "stepBack", "lock") /\ LockedStore(t, locked, Load(t, locked) - 1)
      /\ register' = register /\ sections' = sections
  BY DEF StepBack
<1>2. "lock" \in Places
  BY DEF Places, Contending
<1>3. /\ pc[t] = "stepBack" /\ pc'[t] = "lock"
      /\ \A u \in Threads \ {t} : pc'[u] = pc[u]
  BY <1>1, <1>2, Moves
<1>4. buffer[t] = <<>> /\ Load(t, locked) = memory[locked] /\ memory[locked] - 1 \in Nat
  BY <1>1, <1>3, LoadsMemory, CountPositive DEF LockedStore
<1>5. /\ MemoryTypes' /\ buffer' = buffer
      /\ memory'[locked] = memory[locked] - 1 /\ memory'[data] = memory[data]
  BY <1>1, <1>4, Cell, LockedStores
<1>6. ControlTypes' /\ Total' = Total
  BY <1>1, <1>2, MovesTypes DEF Types
<1>7. Types'
  BY <1>5, <1>6, TypesFit DEF Types
<1>8. OnlyMoves(t)
  BY <1>1, <1>3, <1>5 DEF OnlyMoves
<1>9. /\ InSection(t) \/ pc[t] = "stepBack"
      /\ ~(InSection(t)' \/ pc'[t] = "stepBack")
  BY <1>3 DEF InSection
<1>10. memory'[locked] = memory[locked] + (-1)
  BY <1>4, <1>5, Cell DEF Types
<1>11. Word'
  BY <1>8, <1>9, <1>10, CountsPlain
<1>12. Sections'
  BY <1>3, <1>5, <1>6, <1>8, Stays DEF InSection
<1> QED BY <1>7, <1>11, <1>12

LEMMA SubsPlain ==
  ASSUME Types, lock = "tricky", Sections, Word, NEW t \in Threads,
         FetchSub(t), UNCHANGED <<lock, overlapped>>
  PROVE  Types' /\ Sections' /\ Word'
<1>1. Leave(t) /\ LockedStore(t, locked, Load(t, locked) - 1)
  BY DEF FetchSub
<1>2. pc[t] = "unlock" /\ InSection(t)
  BY <1>1 DEF Leave, Transition, InSection
<1>3. buffer[t] = <<>> /\ Load(t, locked) = memory[locked] /\ memory[locked] - 1 \in Nat
  BY <1>1, <1>2, LoadsMemory, CountPositive DEF LockedStore
<1>4. /\ Types' /\ Sections' /\ OnlyMoves(t)
      /\ memory'[locked] = memory[locked] - 1 /\ pc'[t] = "idle"
  BY <1>1, <1>3, ReleasesPlain
<1>5. memory'[locked] = memory[locked] + (-1)
  BY <1>4, Cell DEF Types
<1>6. ~(InSection(t)' \/ pc'[t] = "stepBack")
  BY <1>4 DEF InSection
<1>7. Word'
  BY <1>2, <1>4, <1>5, <1>6, CountsPlain
<1> QED BY <1>4, <1>7

LEMMA PlainStep ==
  ASSUME Types, lock # "atomic", Sections, Word, Next
  PROVE  Types' /\ Sections' /\ Word'
<1> PICK t \in Threads : Calls(t) \/ Continue(t) \/ Drains(t)
  BY DEF Next
<1>1. CASE Calls(t)
  BY <1>1, CallsPlain
<1>2. CASE Drains(t)
  BY <1>2, DrainsPlain
<1>3. CASE Continue(t)
  <2>1. UNCHANGED <<lock, overlapped>>
    BY <1>3 DEF Continue, LockStep
  <2>2. CASE lock = "tas" /\ TASStep(t)
    <3>1. CASE Exchange(t)
      BY <2>1, <2>2, <3>1, TakesPlain DEF Exchange
    <3>2. CASE Unlock(t)
      BY <2>1, <2>2, <3>2, UnlocksPlain
    <3> QED BY <2>2, <3>1, <3>2 DEF TASStep
  <2>3. CASE lock = "support" /\ SupportStep(t)
    <3>1. CASE ExchangesTrue(t)
      BY <2>1, <2>3, <3>1, TakesPlain DEF ExchangesTrue
    <3>2. CASE SpinsOnLoad(t)
      BY <2>1, <2>3, <3>2, SpinsPlain
    <3>3. CASE StoresFalse(t)
      <4>1. Types' /\ Sections' /\ (\A u \in Threads : ~Busy(u)') /\ memory'[locked] = 0
        BY <2>1, <2>3, <3>3, ReleasesPlain DEF StoresFalse
      <4> QED BY <2>1, <2>3, <4>1 DEF Word
    <3> QED BY <2>3, <3>1, <3>2, <3>3 DEF SupportStep
  <2>4. CASE lock = "tricky" /\ TrickyStep(t)
    BY <2>1, <2>4, AddsPlain, StepsBackPlain, SubsPlain DEF TrickyStep
  <2>5. CASE lock = "mutexed" /\ RefStep(t)
    <3>1. CASE MakesRef(t)
      BY <2>1, <2>5, <3>1, TakesPlain DEF MakesRef
    <3>2. CASE TakesCopy(t) \/ ReadData(t)
      BY <2>1, <2>5, <3>2, ReadsPlain
    <3>3. CASE WriteData(t)
      BY <2>1, <2>5, <3>3, WritesPlain
    <3>4. CASE DropsRef(t)
      <4>1. Types' /\ Sections' /\ (\A u \in Threads : ~Busy(u)') /\ memory'[locked] = 0
        BY <2>1, <2>5, <3>4, ReleasesPlain DEF DropsRef
      <4> QED BY <2>1, <2>5, <4>1 DEF Word
    <3> QED BY <2>5, <3>1, <3>2, <3>3, <3>4 DEF RefStep, UsesArrow
  <2>6. CASE ReadData(t)
    BY <2>1, <2>6, ReadsPlain
  <2>7. CASE WriteData(t)
    BY <2>1, <2>7, WritesPlain
  <2> QED BY <1>3, <2>2, <2>3, <2>4, <2>5, <2>6, <2>7 DEF Continue, LockStep
<1> QED BY <1>1, <1>2, <1>3

----------------------------------------------------------------------------
(* The lock of mm/atomic.  Its word is 0 or 1, in memory and in buffers.   *)
IsWord(e, v) == e.cell = locked /\ e.value = v

AtomicWords ==
    lock = "atomic" =>
        /\ memory[locked] \in {0, 1}
        /\ \A t \in Threads : \A i \in 1..Len(buffer[t]) :
               buffer[t][i].cell = locked => buffer[t][i].value \in {0, 1}

Zero(t) == \E i \in 1..Len(buffer[t]) : IsWord(buffer[t][i], 0)

One(t) == \E i \in 1..Len(buffer[t]) : IsWord(buffer[t][i], 1)

(* t has read the 0, is in its section or has its release in the buffer.   *)
Owner(t) ==
    \/ InSection(t)
    \/ pc[t] = "swap" /\ register[t] # 1
    \/ Zero(t)

(* Before a release in the buffer, and after it in a section, is a 1.      *)
Alternate(t) ==
    /\ \A i, j \in 1..Len(buffer[t]) :
           i < j /\ IsWord(buffer[t][i], 0) /\ IsWord(buffer[t][j], 0) =>
               \E k \in 1..Len(buffer[t]) : i < k /\ k < j /\ IsWord(buffer[t][k], 1)
    /\ InSection(t) =>
           \A i \in 1..Len(buffer[t]) : IsWord(buffer[t][i], 0) =>
               \E k \in 1..Len(buffer[t]) : i < k /\ IsWord(buffer[t][k], 1)

(* An owner alone, whose exchange is under way or whose 1 is in memory.    *)
Owned ==
    lock = "atomic" /\ ~overlapped =>
        /\ \A t, u \in Threads : Owner(t) /\ Owner(u) => t = u
        /\ \A t \in Threads : Owner(t) => Exchanging(t) \/ memory[locked] = 1
        /\ \A t \in Threads : Alternate(t)

LEMMA ExchangingWord ==
  ASSUME Types, NEW t \in Threads
  PROVE  Exchanging(t) <=> pc[t] = "swap" \/ One(t)
<1>1. \A e \in Entries : IsWord(e, 1) <=> e = [cell |-> locked, value |-> 1]
  BY Cell DEF IsWord, Entries
<1>2. \A i \in 1..Len(buffer[t]) : buffer[t][i] \in Entries
  BY DEF Types
<1> QED BY <1>1, <1>2 DEF Exchanging, One

(* The same of the state after a step. *)
LEMMA ExchangingWordNext ==
  ASSUME Types', NEW t \in Threads
  PROVE  Exchanging(t)' <=> pc'[t] = "swap" \/ One(t)'
<1>1. \A e \in Entries : IsWord(e, 1) <=> e = [cell |-> locked, value |-> 1]
  BY Cell DEF IsWord, Entries
<1>2. \A i \in 1..Len(buffer'[t]) : buffer'[t][i] \in Entries
  BY DEF Types
<1> QED BY <1>1, <1>2 DEF Exchanging, One

(* The entries of a buffer to which a store is added. *)
LEMMA AppendsWord ==
  ASSUME Types, NEW t \in Threads, NEW e \in Entries,
         buffer'[t] = Append(buffer[t], e)
  PROVE  /\ Zero(t)' <=> Zero(t) \/ IsWord(e, 0)
         /\ One(t)' <=> One(t) \/ IsWord(e, 1)
         /\ /\ Alternate(t)
            /\ InSection(t)' => InSection(t) \/ IsWord(e, 1)
            /\ IsWord(e, 0) => InSection(t) /\ ~InSection(t)'
            => Alternate(t)'
<1> DEFINE n == Len(buffer[t])
<1>1. /\ n \in Nat /\ Len(buffer'[t]) = n + 1 /\ buffer'[t][n + 1] = e
      /\ \A i \in 1..n : buffer'[t][i] = buffer[t][i]
  BY Stored DEF Types
<1>2. \A i \in 1..(n + 1) : i \in 1..n \/ i = n + 1
  BY <1>1
<1>3. \A i \in 1..n : i \in 1..(n + 1) /\ i < n + 1 /\ i \in Nat
  BY <1>1
<1>4. n + 1 \in 1..(n + 1) /\ \A i \in 1..(n + 1) : ~(n + 1 < i)
  BY <1>1
<1>5. Zero(t)' <=> Zero(t) \/ IsWord(e, 0)
  <2> HIDE DEF n
  <2>1. Zero(t)' <=> \E i \in 1..(n + 1) : IsWord(buffer'[t][i], 0)
    BY <1>1 DEF Zero
  <2>2. Zero(t) <=> \E i \in 1..n : IsWord(buffer[t][i], 0)
    BY DEF Zero, n
  <2> QED BY <1>1, <1>2, <1>3, <1>4, <2>1, <2>2
<1>6. One(t)' <=> One(t) \/ IsWord(e, 1)
  <2> HIDE DEF n
  <2>1. One(t)' <=> \E i \in 1..(n + 1) : IsWord(buffer'[t][i], 1)
    BY <1>1 DEF One
  <2>2. One(t) <=> \E i \in 1..n : IsWord(buffer[t][i], 1)
    BY DEF One, n
  <2> QED BY <1>1, <1>2, <1>3, <1>4, <2>1, <2>2
<1>7. ASSUME Alternate(t),
             InSection(t)' => InSection(t) \/ IsWord(e, 1),
             IsWord(e, 0) => InSection(t) /\ ~InSection(t)'
      PROVE  Alternate(t)'
  <2> HIDE DEF n
  <2>1. /\ \A i, j \in 1..n :
               i < j /\ IsWord(buffer[t][i], 0) /\ IsWord(buffer[t][j], 0) =>
                   \E k \in 1..n : i < k /\ k < j /\ IsWord(buffer[t][k], 1)
        /\ InSection(t) =>
               \A i \in 1..n : IsWord(buffer[t][i], 0) =>
                   \E k \in 1..n : i < k /\ IsWord(buffer[t][k], 1)
    BY <1>7 DEF Alternate, n
  <2>2. ASSUME NEW i \in 1..(n + 1), NEW j \in 1..(n + 1), i < j,
               IsWord(buffer'[t][i], 0), IsWord(buffer'[t][j], 0)
        PROVE  \E k \in 1..(n + 1) : i < k /\ k < j /\ IsWord(buffer'[t][k], 1)
    <3>1. i \in 1..n /\ IsWord(buffer[t][i], 0)
      BY <1>1, <1>2, <1>4, <2>2
    <3>2. CASE j \in 1..n
      <4>1. IsWord(buffer[t][j], 0)
        BY <1>1, <2>2, <3>2
      <4>2. PICK k \in 1..n : i < k /\ k < j /\ IsWord(buffer[t][k], 1)
        BY <2>1, <2>2, <3>1, <3>2, <4>1
      <4> QED BY <1>1, <1>3, <4>2
    <3>3. CASE j = n + 1
      <4>1. IsWord(e, 0)
        BY <1>1, <2>2, <3>3
      <4>2. PICK k \in 1..n : i < k /\ IsWord(buffer[t][k], 1)
        BY <1>7, <2>1, <3>1, <4>1
      <4> QED BY <1>1, <1>3, <3>3, <4>2
    <3> QED BY <1>2, <3>2, <3>3
  <2>3. ASSUME InSection(t)', NEW i \in 1..(n + 1), IsWord(buffer'[t][i], 0)
        PROVE  \E k \in 1..(n + 1) : i < k /\ IsWord(buffer'[t][k], 1)
    <3>1. i \in 1..n /\ IsWord(buffer[t][i], 0)
      BY <1>1, <1>2, <1>7, <2>3
    <3>2. CASE IsWord(e, 1)
      BY <1>1, <1>3, <1>4, <3>1, <3>2
    <3>3. CASE InSection(t)
      <4>1. PICK k \in 1..n : i < k /\ IsWord(buffer[t][k], 1)
        BY <2>1, <3>1, <3>3
      <4> QED BY <1>1, <1>3, <4>1
    <3> QED BY <1>7, <2>3, <3>2, <3>3
  <2> QED BY <1>1, <2>2, <2>3 DEF Alternate
<1> QED BY <1>5, <1>6, <1>7

(* The entries of a buffer whose oldest store leaves. *)
LEMMA FlushesWord ==
  ASSUME Types, NEW t \in Threads, buffer[t] # <<>>, Alternate(t),
         buffer'[t] = Tail(buffer[t]), InSection(t)' <=> InSection(t)
  PROVE  /\ Zero(t)' => Zero(t)
         /\ One(t) => One(t)' \/ IsWord(buffer[t][1], 1)
         /\ Alternate(t)'
         /\ IsWord(buffer[t][1], 0) /\ (Zero(t)' \/ InSection(t)) => One(t)'
<1> DEFINE n == Len(buffer'[t])
<1>1. /\ n \in Nat /\ Len(buffer[t]) = n + 1
      /\ \A i \in 1..n : buffer'[t][i] = buffer[t][i + 1]
  <2>1. /\ Len(buffer[t]) \in Nat \ {0}
        /\ Len(buffer'[t]) = Len(buffer[t]) - 1
        /\ \A i \in 1..(Len(buffer[t]) - 1) : buffer'[t][i] = buffer[t][i + 1]
    BY Flushed DEF Types
  <2> QED BY <2>1
<1> HIDE DEF n
<1>2. \A i \in 1..n : i + 1 \in 1..(n + 1) /\ 1 < i + 1 /\ i \in Nat
  BY <1>1
<1>3. 1 \in 1..(n + 1)
  BY <1>1
<1>4. \A i \in 1..(n + 1) : 1 < i => i - 1 \in 1..n /\ (i - 1) + 1 = i
  BY <1>1
<1>5. /\ \A i, j \in 1..(n + 1) :
             i < j /\ IsWord(buffer[t][i], 0) /\ IsWord(buffer[t][j], 0) =>
                 \E k \in 1..(n + 1) : i < k /\ k < j /\ IsWord(buffer[t][k], 1)
      /\ InSection(t) =>
             \A i \in 1..(n + 1) : IsWord(buffer[t][i], 0) =>
                 \E k \in 1..(n + 1) : i < k /\ IsWord(buffer[t][k], 1)
  BY <1>1 DEF Alternate
<1>6. /\ Zero(t)' <=> \E i \in 1..n : IsWord(buffer'[t][i], 0)
      /\ One(t)' <=> \E i \in 1..n : IsWord(buffer'[t][i], 1)
      /\ Zero(t) <=> \E i \in 1..(n + 1) : IsWord(buffer[t][i], 0)
      /\ One(t) <=> \E i \in 1..(n + 1) : IsWord(buffer[t][i], 1)
  BY <1>1 DEF Zero, One, n
<1>7. Zero(t)' => Zero(t)
  BY <1>1, <1>2, <1>6
<1>8. One(t) => One(t)' \/ IsWord(buffer[t][1], 1)
  <2>1. ASSUME NEW i \in 1..(n + 1), IsWord(buffer[t][i], 1), i # 1
        PROVE  One(t)'
    <3>1. 1 < i
      BY <1>1, <2>1
    <3>2. i - 1 \in 1..n /\ buffer'[t][i - 1] = buffer[t][i]
      BY <1>1, <1>4, <3>1
    <3> QED BY <1>6, <2>1, <3>2
  <2> QED BY <1>6, <2>1
<1>9. ASSUME NEW i \in 1..(n + 1), 1 < i, IsWord(buffer[t][i], 1)
      PROVE  i - 1 \in 1..n /\ IsWord(buffer'[t][i - 1], 1)
  <2>1. i - 1 \in 1..n /\ buffer'[t][i - 1] = buffer[t][i]
    BY <1>1, <1>4, <1>9
  <2> QED BY <1>9, <2>1
<1>10. ASSUME IsWord(buffer[t][1], 0), Zero(t)' \/ InSection(t)
       PROVE  One(t)'
  <2>1. \E k \in 1..(n + 1) : 1 < k /\ IsWord(buffer[t][k], 1)
    <3>1. CASE InSection(t)
      BY <1>3, <1>5, <1>10, <3>1
    <3>2. CASE Zero(t)'
      <4>1. PICK i \in 1..n : IsWord(buffer'[t][i], 0)
        BY <1>6, <3>2
      <4>2. i + 1 \in 1..(n + 1) /\ 1 < i + 1 /\ IsWord(buffer[t][i + 1], 0)
        BY <1>1, <1>2, <4>1
      <4> QED BY <1>3, <1>5, <1>10, <4>2
    <3> QED BY <1>10, <3>1, <3>2
  <2> QED BY <1>6, <1>9, <2>1
<1>11. Alternate(t)'
  <2>1. ASSUME NEW i \in 1..n, NEW j \in 1..n, i < j,
               IsWord(buffer'[t][i], 0), IsWord(buffer'[t][j], 0)
        PROVE  \E k \in 1..n : i < k /\ k < j /\ IsWord(buffer'[t][k], 1)
    <3>1. /\ i + 1 \in 1..(n + 1) /\ j + 1 \in 1..(n + 1) /\ i + 1 < j + 1
          /\ IsWord(buffer[t][i + 1], 0) /\ IsWord(buffer[t][j + 1], 0)
      BY <1>1, <1>2, <2>1
    <3>2. PICK k \in 1..(n + 1) : i + 1 < k /\ k < j + 1 /\ IsWord(buffer[t][k], 1)
      BY <1>5, <3>1
    <3>3. 1 < k /\ i < k - 1 /\ k - 1 < j
      BY <1>1, <3>2
    <3> QED BY <1>9, <3>2, <3>3
  <2>2. ASSUME InSection(t)', NEW i \in 1..n, IsWord(buffer'[t][i], 0)
        PROVE  \E k \in 1..n : i < k /\ IsWord(buffer'[t][k], 1)
    <3>1. i + 1 \in 1..(n + 1) /\ IsWord(buffer[t][i + 1], 0)
      BY <1>1, <1>2, <2>2
    <3>2. PICK k \in 1..(n + 1) : i + 1 < k /\ IsWord(buffer[t][k], 1)
      BY <1>5, <2>2, <3>1
    <3>3. 1 < k /\ i < k - 1
      BY <1>1, <3>2
    <3> QED BY <1>9, <3>2, <3>3
  <2> QED BY <2>1, <2>2 DEF Alternate, n
<1> QED BY <1>7, <1>8, <1>10, <1>11

(* A step of t after which t owns only if it did, and which writes no 0    *)
(* into memory under another owner. *)
LEMMA OwnedKept ==
  ASSUME Types, Types', lock = "atomic", ~overlapped, Owned, NEW t \in Threads,
         OnlyMoves(t), Owner(t)' => Owner(t), Alternate(t)',
         Owner(t)' => (pc'[t] = "swap" \/ One(t)' \/ memory'[locked] = 1),
         \A u \in Threads \ {t} :
             Owner(u) => memory'[locked] \in {1, memory[locked]}
  PROVE  Owned'
<1>1. \A u \in Threads \ {t} : /\ Owner(u)' <=> Owner(u)
                               /\ Exchanging(u)' <=> Exchanging(u)
                               /\ Alternate(u)' <=> Alternate(u)
  BY ZenonT(40) DEF OnlyMoves, Owner, Exchanging, Alternate, InSection, Zero
<1>2. Owner(t)' => Exchanging(t)' \/ memory'[locked] = 1
  BY ExchangingWordNext
<1>3. /\ \A v, u \in Threads : Owner(v) /\ Owner(u) => v = u
      /\ \A u \in Threads : Owner(u) => Exchanging(u) \/ memory[locked] = 1
      /\ \A u \in Threads : Alternate(u)
  BY DEF Owned
<1>4. \A v, u \in Threads : Owner(v)' /\ Owner(u)' => v = u
  BY <1>1, <1>3
<1>5. \A u \in Threads : Owner(u)' => Exchanging(u)' \/ memory'[locked] = 1
  BY <1>1, <1>2, <1>3
<1>6. \A u \in Threads : Alternate(u)'
  BY <1>1, <1>3
<1> QED BY <1>4, <1>5, <1>6 DEF Owned

LEMMA WordsStored ==
  ASSUME Types, AtomicWords, lock' = lock, NEW t \in Threads, memory' = memory,
         NEW e \in Entries, e.cell = locked => e.value \in {0, 1},
         buffer'[t] = Append(buffer[t], e),
         \A u \in Threads \ {t} : buffer'[u] = buffer[u]
  PROVE  AtomicWords'
<1>1. /\ Len(buffer[t]) \in Nat /\ Len(buffer'[t]) = Len(buffer[t]) + 1
      /\ buffer'[t][Len(buffer[t]) + 1] = e
      /\ \A i \in 1..Len(buffer[t]) : buffer'[t][i] = buffer[t][i]
  BY Stored DEF Types
<1>2. \A i \in 1..Len(buffer'[t]) : i \in 1..Len(buffer[t]) \/ i = Len(buffer[t]) + 1
  BY <1>1
<1>3. lock = "atomic" => \A i \in 1..Len(buffer'[t]) :
          buffer'[t][i].cell = locked => buffer'[t][i].value \in {0, 1}
  <2> SUFFICES ASSUME lock = "atomic", NEW i \in 1..Len(buffer'[t])
               PROVE  buffer'[t][i].cell = locked => buffer'[t][i].value \in {0, 1}
    OBVIOUS
  <2>1. CASE i \in 1..Len(buffer[t])
    BY <1>1, <2>1 DEF AtomicWords
  <2>2. CASE i = Len(buffer[t]) + 1
    BY <1>1, <2>2
  <2> QED BY <1>2, <2>1, <2>2
<1>4. lock = "atomic" => \A u \in Threads : \A i \in 1..Len(buffer'[u]) :
          buffer'[u][i].cell = locked => buffer'[u][i].value \in {0, 1}
  BY <1>3 DEF AtomicWords
<1> QED BY <1>4 DEF AtomicWords

(* Calling Lock and reading the counter. *)
LEMMA QuietAtomic ==
  ASSUME Types, lock = "atomic", AtomicWords, Owned, NEW t \in Threads,
         NEW from \in {"idle", "read"}, NEW to \in {"lock", "write"},
         from = "idle" <=> to = "lock", Transition(t, from, to),
         from = "idle" => sections[t] < Rounds, memory' = memory, buffer' = buffer,
         register' \in [Threads -> Nat],
         \A u \in Threads \ {t} : register'[u] = register[u],
         UNCHANGED <<sections, lock, overlapped>>
  PROVE  Types' /\ AtomicWords' /\ Owned'
<1>1. to \in Places
  BY DEF Places, Contending
<1>2. /\ pc[t] = from /\ pc'[t] = to
      /\ \A u \in Threads \ {t} : pc'[u] = pc[u]
  BY <1>1, Moves
<1>3. Types'
  BY <1>1, MovesTypes, TypesFit DEF memoryVars, Types
<1>4. AtomicWords'
  BY DEF AtomicWords
<1>5. OnlyMoves(t)
  BY <1>2 DEF OnlyMoves
<1>6. CASE overlapped
  BY <1>3, <1>4, <1>6 DEF Owned
<1>7. CASE ~overlapped
  <2>1. Owner(t)' <=> Owner(t)
    BY <1>2 DEF Owner, InSection, Zero
  <2>2. Alternate(t) /\ (Owner(t) => Exchanging(t) \/ memory[locked] = 1)
    BY <1>7 DEF Owned
  <2>3. Alternate(t)'
    BY <1>2, <2>2 DEF Alternate, InSection
  <2>4. Owner(t)' => One(t)' \/ memory'[locked] = 1
    BY <1>2, <2>1, <2>2, ExchangingWord DEF One
  <2>5. Owned'
    BY <1>3, <1>5, <1>7, <2>1, <2>3, <2>4, OwnedKept
  <2> QED BY <1>3, <1>4, <2>5
<1> QED BY <1>6, <1>7

(* The three stores: of the counter, of the 1 and of the release. *)
LEMMA StoresAtomic ==
  ASSUME Types, Types', lock = "atomic", AtomicWords, Owned, NEW t \in Threads,
         OnlyMoves(t), memory' = memory, register' = register,
         UNCHANGED <<lock, overlapped>>,
         NEW e \in Entries, e.cell = locked => e.value \in {0, 1},
         buffer'[t] = Append(buffer[t], e),
         \/ pc[t] = "write" /\ pc'[t] = "unlock" /\ e.cell = data
         \/ pc[t] = "unlock" /\ pc'[t] = "idle" /\ IsWord(e, 0)
         \/ /\ pc[t] = "swap" /\ IsWord(e, 1)
            /\ pc'[t] = IF register[t] = 1 THEN "lock" ELSE "read"
  PROVE  AtomicWords' /\ Owned'
<1>1. AtomicWords'
  BY WordsStored DEF OnlyMoves
<1>2. CASE overlapped
  BY <1>1, <1>2 DEF Owned
<1>3. CASE ~overlapped
  <2>1. /\ Zero(t)' <=> Zero(t) \/ IsWord(e, 0)
        /\ One(t)' <=> One(t) \/ IsWord(e, 1)
        /\ /\ Alternate(t)
           /\ InSection(t)' => InSection(t) \/ IsWord(e, 1)
           /\ IsWord(e, 0) => InSection(t) /\ ~InSection(t)'
           => Alternate(t)'
    BY AppendsWord
  <2>2. Alternate(t) /\ (Owner(t) => Exchanging(t) \/ memory[locked] = 1)
    BY <1>3 DEF Owned
  <2>3. ~(IsWord(e, 0) /\ e.cell = data) /\ ~(IsWord(e, 0) /\ IsWord(e, 1))
    BY Cell DEF IsWord
  <2>4. Alternate(t)'
    BY <2>1, <2>2, <2>3 DEF InSection
  <2>5. Owner(t)' => Owner(t)
    BY <2>1, <2>3 DEF Owner, InSection
  <2>6. Owner(t)' => One(t)' \/ memory'[locked] = 1
    BY <2>1, <2>2, <2>5, ExchangingWord
  <2>7. Owned'
    BY <1>3, <2>4, <2>5, <2>6, OwnedKept
  <2> QED BY <1>1, <2>7
<1> QED BY <1>2, <1>3

(* A 0 is loaded only by an owner, or when nobody owns and nobody's        *)
(* exchange is under way.  Otherwise the exchanges overlap. *)
LEMMA LoadsAtomic ==
  ASSUME Types, lock = "atomic", AtomicWords, Owned, NEW t \in Threads,
         ExchangeLoads(t), lock' = lock
  PROVE  Types' /\ AtomicWords' /\ Owned'
<1>1. /\ Transition(t, "lock", "swap") /\ memory' = memory /\ buffer' = buffer
      /\ register' = [register EXCEPT ![t] = Load(t, locked)] /\ sections' = sections
      /\ overlapped' = (overlapped \/ /\ register'[t] = 0
                                      /\ \E u \in Threads \ {t} : Exchanging(u))
  BY DEF ExchangeLoads, ExchangeLoad, memoryVars
<1>2. "swap" \in Places
  BY DEF Places, Contending
<1>3. /\ pc[t] = "lock" /\ pc'[t] = "swap"
      /\ \A u \in Threads \ {t} : pc'[u] = pc[u]
  BY <1>1, <1>2, Moves
<1>4. Load(t, locked) \in Nat
  BY Cell, Loads
<1>5. /\ register'[t] = Load(t, locked) /\ register' \in [Threads -> Nat]
      /\ \A u \in Threads \ {t} : register'[u] = register[u]
  BY <1>1, <1>4 DEF Types
<1>6. overlapped' \in BOOLEAN
  BY <1>1
<1>7. Types'
  BY <1>1, <1>2, <1>5, <1>6, MovesTypes, TypesFit DEF memoryVars
<1>8. AtomicWords'
  BY <1>1 DEF AtomicWords
<1>9. OnlyMoves(t)
  BY <1>1, <1>3, <1>5 DEF OnlyMoves
<1>10. CASE overlapped'
  BY <1>7, <1>8, <1>10 DEF Owned
<1>11. CASE ~overlapped'
  <2>1. ~overlapped
    BY <1>1, <1>11
  <2>2. /\ \A v, u \in Threads : Owner(v) /\ Owner(u) => v = u
        /\ \A u \in Threads : Owner(u) => Exchanging(u) \/ memory[locked] = 1
        /\ \A u \in Threads : Alternate(u)
    BY <2>1 DEF Owned
  <2>3. Alternate(t)'
    BY <1>1, <1>3, <2>2 DEF Alternate, InSection
  <2>4. CASE Owner(t)
    <3>1. Owner(t)' => pc'[t] = "swap"
      BY <1>3
    <3>2. Owned'
      BY <1>1, <1>7, <1>9, <2>1, <2>3, <2>4, <3>1, OwnedKept
    <3> QED BY <1>7, <1>8, <3>2
  <2>5. CASE Load(t, locked) = 1
    <3>1. Owner(t)' => Owner(t)
      BY <1>1, <1>3, <1>5, <2>5 DEF Owner, InSection, Zero
    <3>2. Owner(t)' => pc'[t] = "swap"
      BY <1>3
    <3>3. Owned'
      BY <1>1, <1>7, <1>9, <2>1, <2>3, <3>1, <3>2, OwnedKept
    <3> QED BY <1>7, <1>8, <3>3
  <2>6. CASE ~Owner(t) /\ Load(t, locked) # 1
    <3>1. /\ \A i \in 1..Len(buffer[t]) : buffer[t][i].cell # locked
          /\ Load(t, locked) = memory[locked]
      <4>1. \A i \in 1..Len(buffer[t]) :
                buffer[t][i].cell = locked => buffer[t][i].value = 1
        BY <2>6 DEF Owner, Zero, IsWord, AtomicWords
      <4>2. \/ /\ \A i \in 1..Len(buffer[t]) : buffer[t][i].cell # locked
               /\ Load(t, locked) = memory[locked]
            \/ \E i \in 1..Len(buffer[t]) :
                   buffer[t][i].cell = locked /\ Load(t, locked) = buffer[t][i].value
        BY Cell, Loads
      <4> QED BY <2>6, <4>1, <4>2
    <3>2. memory[locked] = 0 /\ register'[t] = 0
      BY <1>5, <2>6, <3>1 DEF AtomicWords
    <3>3. \A u \in Threads \ {t} : ~Exchanging(u) /\ ~Owner(u)
      <4>1. register'[t] # 0 \/ ~ \E u \in Threads \ {t} : Exchanging(u)
        BY <1>1, <1>11, Zenon
      <4> QED BY <2>2, <3>2, <4>1
    <3>4. \A u \in Threads \ {t} : ~Owner(u)' /\ (Alternate(u)' <=> Alternate(u))
      BY <1>1, <1>9, <3>3 DEF OnlyMoves, Owner, Alternate, InSection, Zero
    <3>5. Exchanging(t)'
      BY <1>3 DEF Exchanging
    <3>6. /\ \A v, u \in Threads : Owner(v)' /\ Owner(u)' => v = u
          /\ \A u \in Threads : Owner(u)' => Exchanging(u)'
          /\ \A u \in Threads : Alternate(u)'
      BY <2>2, <2>3, <3>4, <3>5
    <3> QED BY <1>7, <1>8, <3>6 DEF Owned
  <2> QED BY <1>7, <1>8, <2>4, <2>5, <2>6
<1> QED BY <1>10, <1>11

LEMMA DrainsAtomic ==
  ASSUME Types, lock = "atomic", AtomicWords, Owned, NEW t \in Threads, Drains(t)
  PROVE  Types' /\ AtomicWords' /\ Owned'
<1>1. Flush(t) /\ UNCHANGED <<pc, register, sections, lock, overlapped>>
  BY DEF Drains, Drain
<1>2. /\ MemoryTypes' /\ buffer[t] # <<>> /\ buffer[t][1] \in Entries
      /\ buffer'[t] = Tail(buffer[t])
      /\ \A u \in Threads \ {t} : buffer'[u] = buffer[u]
      /\ memory'[buffer[t][1].cell] = buffer[t][1].value
      /\ \A d \in Cells \ {buffer[t][1].cell} : memory'[d] = memory[d]
  BY <1>1, Flushes
<1>3. IsFiniteSet(SectionsLeft)'
  BY <1>1, SectionsSame
<1>4. Types'
  BY <1>1, <1>2, <1>3, TypesFit DEF Types, ControlTypes
<1>5. OnlyMoves(t)
  BY <1>1, <1>2 DEF OnlyMoves
<1>6. /\ Len(buffer[t]) \in Nat \ {0} /\ Len(buffer'[t]) = Len(buffer[t]) - 1
      /\ \A i \in 1..(Len(buffer[t]) - 1) : buffer'[t][i] = buffer[t][i + 1]
  BY <1>2, Flushed DEF Types
<1>7. 1 \in 1..Len(buffer[t])
  BY <1>6
<1>8. \/ /\ buffer[t][1].cell = data /\ memory'[locked] = memory[locked]
         /\ \A v : ~IsWord(buffer[t][1], v)
      \/ /\ IsWord(buffer[t][1], 0) /\ memory'[locked] = 0
      \/ /\ IsWord(buffer[t][1], 1) /\ memory'[locked] = 1
  <2>1. buffer[t][1].cell \in Cells
    BY <1>2 DEF Entries
  <2>2. CASE buffer[t][1].cell = data
    BY <1>2, <2>2, Cell DEF IsWord
  <2>3. CASE buffer[t][1].cell = locked
    <3>1. buffer[t][1].value \in {0, 1}
      BY <1>7, <2>3 DEF AtomicWords
    <3> QED BY <1>2, <2>3, <3>1 DEF IsWord
  <2> QED BY <2>1, <2>2, <2>3, Cell
<1>9. AtomicWords'
  <2>1. \A i \in 1..Len(buffer'[t]) :
            buffer'[t][i].cell = locked => buffer'[t][i].value \in {0, 1}
    <3>1. \A i \in 1..Len(buffer'[t]) :
              i + 1 \in 1..Len(buffer[t]) /\ buffer'[t][i] = buffer[t][i + 1]
      BY <1>6
    <3> QED BY <3>1 DEF AtomicWords
  <2>2. memory'[locked] \in {0, 1}
    BY <1>8 DEF AtomicWords
  <2> QED BY <1>1, <1>2, <2>1, <2>2 DEF AtomicWords
<1>10. CASE overlapped
  BY <1>1, <1>4, <1>9, <1>10 DEF Owned
<1>11. CASE ~overlapped
  <2>1. /\ \A v, u \in Threads : Owner(v) /\ Owner(u) => v = u
        /\ \A u \in Threads : Owner(u) => Exchanging(u) \/ memory[locked] = 1
        /\ Alternate(t)
    BY <1>11 DEF Owned
  <2>2. InSection(t)' <=> InSection(t)
    BY <1>1 DEF InSection
  <2>3. /\ Zero(t)' => Zero(t)
        /\ One(t) => One(t)' \/ IsWord(buffer[t][1], 1)
        /\ Alternate(t)'
        /\ IsWord(buffer[t][1], 0) /\ (Zero(t)' \/ InSection(t)) => One(t)'
    BY <1>2, <2>1, <2>2, FlushesWord
  <2>4. Owner(t)' => Owner(t)
    BY <1>1, <2>2, <2>3 DEF Owner
  <2>5. Owner(t)' => (pc'[t] = "swap" \/ One(t)' \/ memory'[locked] = 1)
    <3>1. Owner(t)' => InSection(t) \/ pc'[t] = "swap" \/ Zero(t)'
      BY <2>2 DEF Owner
    <3>2. Owner(t)' => pc[t] = "swap" \/ One(t) \/ memory[locked] = 1
      BY <2>1, <2>4, ExchangingWord
    <3> QED BY <1>1, <1>8, <2>3, <3>1, <3>2
  <2>6. ASSUME NEW u \in Threads \ {t}, Owner(u)
        PROVE  memory'[locked] \in {1, memory[locked]}
    <3>1. ~IsWord(buffer[t][1], 0)
      BY <1>7, <2>1, <2>6 DEF Owner, Zero
    <3> QED BY <1>8, <3>1
  <2>7. Owned'
    BY <1>4, <1>5, <1>11, <2>3, <2>4, <2>5, <2>6, OwnedKept
  <2> QED BY <1>4, <1>9, <2>7
<1> QED BY <1>10, <1>11

LEMMA AtomicStep ==
  ASSUME Types, lock = "atomic", AtomicWords, Owned, Next
  PROVE  Types' /\ AtomicWords' /\ Owned'
<1> PICK t \in Threads : Calls(t) \/ Continue(t) \/ Drains(t)
  BY DEF Next
<1>1. CASE Calls(t)
  <2>1. /\ Transition(t, "idle", "lock") /\ sections[t] < Rounds
        /\ memory' = memory /\ buffer' = buffer
        /\ UNCHANGED <<register, sections, lock, overlapped>>
    BY <1>1 DEF Calls, CallLock, memoryVars
  <2> QED BY <2>1, QuietAtomic DEF Types
<1>2. CASE Drains(t)
  BY <1>2, DrainsAtomic
<1>3. CASE Continue(t)
  <2>0. lock' = lock
    BY <1>3 DEF Continue
  <2>1. CASE ExchangeLoads(t)
    BY <2>0, <2>1, LoadsAtomic
  <2>2. CASE ExchangeStores(t)
    <3> DEFINE e == [cell |-> locked, value |-> 1]
               to == IF register[t] = 1 THEN "lock" ELSE "read"
    <3>1. /\ Transition(t, "swap", to) /\ Store(t, locked, 1)
          /\ UNCHANGED <<register, sections, overlapped>>
      BY <2>2 DEF ExchangeStores, ExchangeStore
    <3>2. to \in Places
      BY DEF Places, Contending
    <3>3. /\ pc[t] = "swap" /\ pc'[t] = to
          /\ \A u \in Threads \ {t} : pc'[u] = pc[u]
      BY <3>1, <3>2, Moves
    <3>4. /\ MemoryTypes' /\ memory' = memory /\ e \in Entries
          /\ buffer'[t] = Append(buffer[t], e)
          /\ \A u \in Threads \ {t} : buffer'[u] = buffer[u]
      BY <3>1, Cell, Stores
    <3>5. ControlTypes'
      BY <3>1, <3>2, MovesTypes DEF Types
    <3>6. Types'
      BY <2>0, <3>1, <3>4, <3>5, TypesFit DEF Types
    <3>7. OnlyMoves(t)
      BY <2>0, <3>1, <3>3, <3>4 DEF OnlyMoves
    <3>8. IsWord(e, 1) /\ (e.cell = locked => e.value \in {0, 1})
      BY DEF IsWord
    <3> HIDE DEF e
    <3> QED BY <2>0, <3>1, <3>3, <3>4, <3>6, <3>7, <3>8, StoresAtomic
  <2>3. CASE StoresRelease(t)
    <3> DEFINE e == [cell |-> locked, value |-> 0]
    <3>1. Leave(t) /\ Store(t, locked, 0) /\ overlapped' = overlapped
      BY <2>3 DEF StoresRelease, AtomicStore, MemoryOrder, MovesTo
    <3>2. /\ pc[t] = "unlock" /\ pc'[t] = "idle" /\ register' = register
          /\ \A u \in Threads \ {t} : pc'[u] = pc[u]
          /\ ControlTypes'
      BY <3>1, Leaves, LeavesTypes
    <3>3. /\ MemoryTypes' /\ memory' = memory /\ e \in Entries
          /\ buffer'[t] = Append(buffer[t], e)
          /\ \A u \in Threads \ {t} : buffer'[u] = buffer[u]
      BY <3>1, Cell, Stores
    <3>4. Types'
      BY <2>0, <3>1, <3>2, <3>3, TypesFit DEF Types
    <3>5. OnlyMoves(t)
      BY <2>0, <3>2, <3>3 DEF OnlyMoves
    <3>6. IsWord(e, 0) /\ (e.cell = locked => e.value \in {0, 1})
      BY DEF IsWord
    <3> HIDE DEF e
    <3> QED BY <2>0, <3>1, <3>2, <3>3, <3>4, <3>5, <3>6, StoresAtomic
  <2>4. CASE ReadData(t) /\ overlapped' = overlapped
    <3>1. /\ Transition(t, "read", "write") /\ memory' = memory /\ buffer' = buffer
          /\ register' = [register EXCEPT ![t] = Load(t, data)]
          /\ sections' = sections
      BY <2>4 DEF ReadData, memoryVars
    <3>2. Load(t, data) \in Nat
      BY Cell, Loads
    <3>3. /\ register' \in [Threads -> Nat]
          /\ \A u \in Threads \ {t} : register'[u] = register[u]
      BY <3>1, <3>2 DEF Types
    <3> QED BY <2>0, <2>4, <3>1, <3>3, QuietAtomic
  <2>5. CASE WriteData(t) /\ overlapped' = overlapped
    <3> DEFINE e == [cell |-> data, value |-> register[t] + 1]
    <3>1. /\ Transition(t, "write", "unlock") /\ Store(t, data, register[t] + 1)
          /\ register' = register /\ sections' = sections
      BY <2>5 DEF WriteData
    <3>2. "unlock" \in Places /\ register[t] + 1 \in Nat
      BY DEF Places, Types
    <3>3. /\ pc[t] = "write" /\ pc'[t] = "unlock"
          /\ \A u \in Threads \ {t} : pc'[u] = pc[u]
      BY <3>1, <3>2, Moves
    <3>4. /\ MemoryTypes' /\ memory' = memory /\ e \in Entries
          /\ buffer'[t] = Append(buffer[t], e)
          /\ \A u \in Threads \ {t} : buffer'[u] = buffer[u]
      BY <3>1, <3>2, Cell, Stores
    <3>5. ControlTypes'
      BY <3>1, <3>2, MovesTypes DEF Types
    <3>6. Types'
      BY <2>0, <2>5, <3>4, <3>5, TypesFit DEF Types
    <3>7. OnlyMoves(t)
      BY <2>0, <3>1, <3>3, <3>4 DEF OnlyMoves
    <3>8. e.cell = data /\ (e.cell = locked => e.value \in {0, 1})
      BY Cell
    <3> HIDE DEF e
    <3> QED BY <2>0, <2>5, <3>1, <3>3, <3>4, <3>6, <3>7, <3>8, StoresAtomic
  <2> QED BY <1>3, <2>1, <2>2, <2>3, <2>4, <2>5 DEF Continue, LockStep, AtomicLockStep
<1> QED BY <1>1, <1>2, <1>3

----------------------------------------------------------------------------
IInv == Types /\ Plain /\ AtomicWords /\ Owned

LEMMA InitIInv ==
  ASSUME Init
  PROVE  IInv
<1>1. /\ memory = [c \in Cells |-> 0] /\ buffer = [t \in Threads |-> <<>>]
      /\ pc = [t \in Threads |-> "idle"] /\ register = [t \in Threads |-> 0]
      /\ sections = [t \in Threads |-> 0] /\ lock \in Locks /\ overlapped = FALSE
  BY DEF Init, SectionsInit, MemoryInit, Locks
<1>2. SectionsLeft = {}
  <2>1. \A t \in Threads : {t} \X (1..sections[t]) = {}
    <3>1. 1..0 = {}
      OBVIOUS
    <3>2. \A t : {t} \X {} = {}
      OBVIOUS
    <3>3. \A t \in Threads : 1..sections[t] = {}
      BY <1>1, <3>1
    <3> QED BY <3>2, <3>3
  <2> QED BY <2>1 DEF SectionsLeft
<1>3. Total = 0 /\ IsFiniteSet(SectionsLeft)
  BY <1>2, FS_EmptySet DEF Total
<1>4. \A t \in Threads : buffer[t] = <<>> /\ Len(buffer[t]) = 0 /\ buffer[t] \in Seq(Entries)
  <2>1. <<>> \in Seq(Entries) /\ Len(<<>>) = 0
    OBVIOUS
  <2>2. \A t \in Threads : buffer[t] = <<>>
    BY <1>1
  <2> QED BY <2>1, <2>2
<1>5. \A t \in Threads : ~InSection(t) /\ ~Busy(t) /\ Shape(t) /\ Updates(t) = 0
  BY <1>1, <1>4 DEF InSection, Busy, Shape, Updates
<1>6. Types
  <2>1. memory \in [Cells -> Nat] /\ register \in [Threads -> Nat] /\ "idle" \in Places
    BY <1>1 DEF Places
  <2>2. sections \in [Threads -> 0..Rounds]
    BY <1>1, CriticalSectionAssumption
  <2>3. \A t \in Threads : Len(buffer[t]) <= BufferSize
    <3>1. 0 <= BufferSize
      BY BufferAssumption
    <3> QED BY <1>4, <3>1
  <2>4. buffer \in [Threads -> Seq(Entries)]
    BY <1>1, <1>4
  <2> QED BY <1>1, <1>3, <2>1, <2>2, <2>3, <2>4 DEF Types
<1>7. memory[locked] = 0 /\ memory[data] = 0
  BY <1>1, Cell
<1>8. \A t \in Threads : Seen(t) = 0
  BY <1>4, <1>7 DEF Seen
<1>9. Sections
  BY <1>1, <1>3, <1>5, <1>8 DEF Sections, OneBusy, DataSeen, DataRead
<1>10. Word
  <2>1. Counted = {}
    BY <1>1, <1>5 DEF Counted
  <2> QED BY <1>5, <1>7, <2>1, FS_EmptySet DEF Word
<1>11. AtomicWords
  BY <1>4, <1>7 DEF AtomicWords
<1>12. \A t \in Threads : ~Owner(t) /\ Alternate(t)
  <2>1. 1..0 = {}
    OBVIOUS
  <2>2. \A t \in Threads : 1..Len(buffer[t]) = {}
    BY <1>4, <2>1
  <2> QED BY <1>1, <1>5, <2>2 DEF Owner, Alternate, Zero
<1>13. Owned
  BY <1>12 DEF Owned
<1> QED BY <1>6, <1>9, <1>10, <1>11, <1>13 DEF IInv, Plain

LEMMA NextIInv ==
  ASSUME IInv, [Next]_lockVars
  PROVE  IInv'
<1>1. CASE Next
  <2>1. lock' = lock
    BY <1>1 DEF Next, Calls, Continue, Drains
  <2>2. CASE lock = "atomic"
    BY <1>1, <2>1, <2>2, AtomicStep DEF IInv, Plain
  <2>3. CASE lock # "atomic"
    BY <1>1, <2>1, <2>3, PlainStep DEF IInv, Plain, AtomicWords, Owned
  <2> QED BY <2>2, <2>3
<1>2. CASE UNCHANGED lockVars
  <2>1. UNCHANGED <<memory, buffer, pc, register, sections, lock, overlapped>>
    BY <1>2 DEF lockVars, vars, memoryVars
  <2>2. Types'
    BY <2>1, SectionsSame DEF IInv, Types
  <2>3. Plain'
    BY <2>1 DEF IInv, Plain, Sections, Word, Shape, OneBusy, DataSeen, DataRead, Busy,
                InSection, Seen, Updates, IsRelease, Counted, Total, SectionsLeft
  <2>4. AtomicWords' /\ Owned'
    BY <2>1 DEF IInv, AtomicWords, Owned, Owner, Exchanging, Alternate, Zero,
                InSection, IsWord
  <2> QED BY <2>2, <2>3, <2>4 DEF IInv
<1> QED BY <1>1, <1>2

(* The memory, the buffers and the threads have the values of their types: *)
(* the lock's word is 0 or 1, or a number of threads (TrickyLock), which   *)
(* is what lets Lock compare it with 0 alone.                              *)
THEOREM TypeCorrect == Spec => []TypeOK
<1>1. Init => IInv
  BY InitIInv
<1>2. IInv /\ [Next]_lockVars => IInv'
  BY NextIInv
<1>3. IInv => TypeOK
  <2> SUFFICES ASSUME IInv PROVE TypeOK
    OBVIOUS
  <2>1. memory[locked] \in 0..(IF lock = "tricky" THEN Cardinality(Threads) ELSE 1)
    <3>1. Cardinality(Counted) \in Nat /\ Cardinality(Threads) \in Nat
      BY CountedFinite, CriticalSectionAssumption, FS_CardinalityType
    <3> QED BY <3>1, CountedFinite DEF IInv, Plain, Word, AtomicWords
  <2> QED BY <2>1 DEF IInv, Types, TypeOK, Locks, Places, Entries
<1> QED BY <1>1, <1>2, <1>3, PTL DEF Spec

(* At most one thread is between Lock and Unlock of the spin locks of      *)
(* mutex/spinlock and coroutine/mtf/support, of TrickyLock and of Mutexed, *)
(* although the release may still be in a store buffer.                    *)
THEOREM LocksExclude == Spec => []MutualExclusion
<1>1. Init => IInv
  BY InitIInv
<1>2. IInv /\ [Next]_lockVars => IInv'
  BY NextIInv
<1>3. IInv => MutualExclusion
  BY DEF IInv, Plain, Sections, OneBusy, Busy, MutualExclusion
<1> QED BY <1>1, <1>2, <1>3, PTL DEF Spec

(* Under these locks a section reads what all sections before it wrote:    *)
(* the plain store of the release stays behind the store of the data.      *)
THEOREM SectionsAreOrdered == Spec => []SectionsSeeEachOther
<1>1. Init => IInv
  BY InitIInv
<1>2. IInv /\ [Next]_lockVars => IInv'
  BY NextIInv
<1>3. IInv => SectionsSeeEachOther
  BY DEF IInv, Plain, Sections, DataRead, SectionsSeeEachOther
<1> QED BY <1>1, <1>2, <1>3, PTL DEF Spec

(* The spin lock over the exchange in two instructions of mm/atomic        *)
(* excludes as long as no exchange reads a 0 while another is under way.   *)
THEOREM OverlapIsNeeded == Spec => []ExclusionFailsOnlyByOverlap
<1>1. Init => IInv
  BY InitIInv
<1>2. IInv /\ [Next]_lockVars => IInv'
  BY NextIInv
<1>3. IInv => ExclusionFailsOnlyByOverlap
  BY DEF IInv, Owned, Owner, ExclusionFailsOnlyByOverlap
<1> QED BY <1>1, <1>2, <1>3, PTL DEF Spec

=============================================================================
