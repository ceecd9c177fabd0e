---------------------------- MODULE Tables_proofs ----------------------------
(***************************************************************************)
(* ForksExclusive of ForksTable.tla and PlatesExclusive of                 *)
(* DiningTable.tla, checked on small tables, proved for tables of every    *)
(* size and tickets of every range.                                        *)
(*                                                                         *)
(* A ticket lock that is a fork has two users, and the argument is that    *)
(* its counters and the stages and tickets of the two fit together: the    *)
(* tickets between owner_ticket and next_free_ticket are theirs.  With     *)
(* more tickets than users, they tell who is first although they wrap.     *)
(* Of the mutexes of dining, it is enough that whoever accesses a plate    *)
(* holds the fork of the same number, and a fork has one holder.           *)
(***************************************************************************)
EXTENDS ForksTable, DiningTable, FiniteSetTheorems, TLAPS

----------------------------------------------------------------------------
(* Tables with ticket locks *)

ForkTypes ==
    /\ next_free_ticket \in [Locks -> Tickets]
    /\ owner_ticket \in [Locks -> Tickets]
    /\ ticket \in [Threads -> Tickets]
    /\ seen \in [Threads -> [counter : Counters, value : Tickets]]
    /\ pc \in [Threads -> Steps]

Stage(p, f) == IF Holds(p, f) THEN "holds"
               ELSE IF InQueue(p, f) THEN "queued" ELSE "away"

Stages == {"holds", "queued", "away"}

(* Who is first at a lock whose owner_ticket is o: its holder, or a thread *)
(* whose turn has come.  Who is second waits for the next ticket.          *)
First(x, tx, o) == x = "holds" \/ (x = "queued" /\ tx = o)
Second(x, tx, o) == x = "queued" /\ tx = Succ(o)

(* The counters n and o of a lock, and the stages and tickets of its two   *)
(* users, fit together.                                                    *)
Fit(n, o, x, tx, y, ty) ==
    \/ x = "away" /\ y = "away" /\ n = o
    \/ First(x, tx, o) /\ y = "away" /\ n = Succ(o)
    \/ x = "away" /\ First(y, ty, o) /\ n = Succ(o)
    \/ First(x, tx, o) /\ Second(y, ty, o) /\ n = Succ(Succ(o))
    \/ Second(x, tx, o) /\ First(y, ty, o) /\ n = Succ(Succ(o))

(* It is so for each fork, the left one of l and the right one of r. *)
ForksFit ==
    \A l, r \in Threads : Right(r) = l =>
        Fit(next_free_ticket[l], owner_ticket[l], Stage(l, l), ticket[l], Stage(r, l), ticket[r])

(* What a holder has seen of its right fork, in the middle of a TryLock,   *)
(* is not going to look free.                                              *)
SeenBusy ==
    \A p \in Threads : pc[p] = "comparesAgain" =>
        (seen[p].counter = "owner" <=> seen[p].value = owner_ticket[Right(p)])

NeverTwice == \A p \in Threads : pc[p] # "tookTwice"

ForksIInv == ForkTypes /\ ForksFit /\ SeenBusy /\ NeverTwice

----------------------------------------------------------------------------
(* Tickets and seats *)

LEMMA SuccIs ==
    ASSUME NEW n \in Tickets
    PROVE  Succ(n) = IF n = TicketRange - 1 THEN 0 ELSE n + 1
<1>1. CASE n = TicketRange - 1
  <2>1. (n + 1) % TicketRange = 0
    BY <1>1, TableAssumption
  <2> QED BY <1>1, <2>1 DEF Succ
<1>2. CASE n # TicketRange - 1
  <2>1. (n + 1) % TicketRange = n + 1
    BY <1>2, TableAssumption DEF Tickets
  <2> QED BY <1>2, <2>1 DEF Succ
<1> QED BY <1>1, <1>2

LEMMA SuccFacts ==
    \A n \in Tickets : /\ Succ(n) \in Tickets
                       /\ Succ(n) # n /\ Succ(Succ(n)) # n
<1>1. ASSUME NEW n \in Tickets PROVE Succ(n) \in Tickets /\ Succ(n) # n
  BY SuccIs, TableAssumption DEF Tickets
<1>2. ASSUME NEW n \in Tickets PROVE Succ(Succ(n)) # n
  BY <1>1, SuccIs, TableAssumption, SMTT(30) DEF Tickets
<1> QED BY <1>1, <1>2

LEMMA Neighbours ==
    /\ Locks = Threads
    /\ \A p \in Threads : /\ Left(p) = p
                          /\ Right(p) \in Threads /\ Right(p) # p
    /\ \A p, q \in Threads : Right(p) = Right(q) => p = q
    /\ \A f \in Threads : \E r \in Threads : Right(r) = f
<1>1. ASSUME NEW p \in Threads
      PROVE  Right(p) = IF p = Seats - 1 THEN 0 ELSE p + 1
  <2>1. CASE p = Seats - 1
    <3>1. (p + 1) % Seats = 0
      BY <2>1, TableAssumption
    <3> QED BY <2>1, <3>1 DEF Right
  <2>2. CASE p # Seats - 1
    <3>1. (p + 1) % Seats = p + 1
      BY <2>2, TableAssumption
    <3> QED BY <2>2, <3>1 DEF Right
  <2> QED BY <2>1, <2>2
<1>2. ASSUME NEW f \in Threads PROVE \E r \in Threads : Right(r) = f
  <2> DEFINE r == IF f = 0 THEN Seats - 1 ELSE f - 1
  <2> r \in Threads /\ Right(r) = f
    BY <1>1, TableAssumption
  <2> QED OBVIOUS
<1>3. ASSUME NEW p \in Threads
      PROVE  Left(p) = p /\ Right(p) \in Threads /\ Right(p) # p
  BY <1>1, TableAssumption DEF Left
<1>4. ASSUME NEW p \in Threads, NEW q \in Threads, Right(p) = Right(q) PROVE p = q
  BY <1>1, <1>4, TableAssumption
<1> QED BY <1>2, <1>3, <1>4, TableAssumption

(* The counters stay fitting when a user takes a ticket, gets its turn, or *)
(* unlocks; a lock has one holder and does not look free to it.            *)
LEMMA FitFacts ==
    ASSUME NEW n \in Tickets, NEW o \in Tickets, NEW x, NEW y, NEW tx, NEW ty,
           Fit(n, o, x, tx, y, ty)
    PROVE  /\ Fit(n, o, y, ty, x, tx)
           /\ x = "away" => Fit(Succ(n), o, "queued", n, y, ty)
           /\ x = "queued" /\ tx = o => \A t : Fit(n, o, "holds", t, y, ty)
           /\ x = "holds" => \A t : Fit(n, Succ(o), "away", t, y, ty)
           /\ x # "queued" => \A t : Fit(n, o, x, t, y, ty)
           /\ x = "holds" => n # o /\ y # "holds"
BY SuccFacts, Zenon DEF Fit, First, Second

----------------------------------------------------------------------------
(* Steps *)

(* A step of p keeps every fork fitting, if it keeps p fitting its own two *)
(* forks, whoever their other users are, and touches no other fork.        *)
LEMMA OwnForks ==
    ASSUME ForksFit, ForkTypes, NEW p \in Threads,
           \A q \in Threads \ {p} : pc'[q] = pc[q] /\ ticket'[q] = ticket[q],
           \A f \in Threads \ {Left(p), Right(p)} :
               /\ next_free_ticket'[f] = next_free_ticket[f]
               /\ owner_ticket'[f] = owner_ticket[f],
           \A f \in {Left(p), Right(p)}, y \in Stages, ty \in Tickets :
               Fit(next_free_ticket[f], owner_ticket[f], Stage(p, f), ticket[p], y, ty)
               => Fit(next_free_ticket'[f], owner_ticket'[f], Stage(p, f)', ticket'[p], y, ty)
    PROVE  ForksFit'
<1> SUFFICES ASSUME NEW l \in Threads, NEW r \in Threads, Right(r) = l
             PROVE  Fit(next_free_ticket'[l], owner_ticket'[l],
                        Stage(l, l)', ticket'[l], Stage(r, l)', ticket'[r])
  BY DEF ForksFit
<1>1. Fit(next_free_ticket[l], owner_ticket[l], Stage(l, l), ticket[l], Stage(r, l), ticket[r])
  BY DEF ForksFit
<1>2. \A q \in Threads \ {p} : \A f : Stage(q, f)' = Stage(q, f)
  BY DEF Stage, Holds, InQueue, HasBoth
<1>3. /\ \A q, f : Stage(q, f) \in Stages /\ Stage(q, f)' \in Stages
      /\ ticket[l] \in Tickets /\ ticket[r] \in Tickets
      /\ next_free_ticket[l] \in Tickets /\ owner_ticket[l] \in Tickets
  BY Neighbours DEF Stage, Stages, ForkTypes
<1>4. CASE p = l
  <2>1. l \in {Left(p), Right(p)} /\ r # p
    BY <1>4, Neighbours
  <2>2. Fit(next_free_ticket'[l], owner_ticket'[l], Stage(l, l)', ticket'[l],
            Stage(r, l), ticket[r])
    BY <1>1, <1>3, <1>4, <2>1
  <2>3. Stage(r, l)' = Stage(r, l) /\ ticket'[r] = ticket[r]
    BY <1>2, <2>1
  <2> QED BY <2>2, <2>3
<1>5. CASE p = r
  <2>1. l \in {Left(p), Right(p)} /\ l # p
    BY <1>5, Neighbours
  <2>2. Stage(l, l)' = Stage(l, l) /\ ticket'[l] = ticket[l]
    BY <1>2, <2>1
  <2>3. Fit(next_free_ticket[l], owner_ticket[l], Stage(r, l), ticket[r], Stage(l, l), ticket[l])
    BY <1>1, <1>3, FitFacts
  <2>4. Fit(next_free_ticket'[l], owner_ticket'[l], Stage(r, l)', ticket'[r],
            Stage(l, l), ticket[l])
    BY <1>3, <1>5, <2>1, <2>3
  <2> QED BY <2>2, <2>4 DEF Fit
<1>6. CASE p # l /\ p # r
  <2>1. l \notin {Left(p), Right(p)}
    BY <1>6, Neighbours
  <2> QED BY <1>1, <1>2, <1>6, <2>1
<1> QED BY <1>4, <1>5, <1>6

(* The thread that holds a fork has it to itself, and the fork does not    *)
(* look free.                                                              *)
LEMMA HolderAlone ==
    ASSUME ForksFit, ForkTypes, NEW p \in Threads, NEW f \in Threads, Holds(p, f)
    PROVE  /\ next_free_ticket[f] # owner_ticket[f]
           /\ \A q \in Threads : Holds(q, f) => q = p
<1>1. /\ next_free_ticket[f] \in Tickets /\ owner_ticket[f] \in Tickets
      /\ \A q : Holds(q, f) <=> Stage(q, f) = "holds"
      /\ \A q : Holds(q, f) => f \in {Left(q), Right(q)}
  BY Neighbours DEF ForkTypes, Stage, Holds
<1>2. PICK r \in Threads : Right(r) = f
  BY Neighbours
<1>3. Fit(next_free_ticket[f], owner_ticket[f], Stage(f, f), ticket[f], Stage(r, f), ticket[r])
  BY <1>2 DEF ForksFit
<1>4. Fit(next_free_ticket[f], owner_ticket[f], Stage(r, f), ticket[r], Stage(f, f), ticket[f])
  BY <1>1, <1>3, FitFacts
<1>5. \A q \in Threads : Holds(q, f) => q \in {f, r}
  BY <1>1, <1>2, Neighbours
<1>6. ~(Holds(f, f) /\ Holds(r, f))
  BY <1>1, <1>3, FitFacts
<1>7. next_free_ticket[f] # owner_ticket[f]
  BY <1>1, <1>3, <1>4, <1>5, FitFacts
<1> QED BY <1>5, <1>6, <1>7

----------------------------------------------------------------------------
LEMMA InitForks == Init => ForksIInv
<1> SUFFICES ASSUME Init PROVE ForksIInv
  OBVIOUS
<1> USE DEF Init, LockInit
<1>1. ForkTypes
  <2>1. 0 \in Tickets /\ Nothing \in [counter : Counters, value : Tickets]
    BY TableAssumption DEF Nothing, Counters, Tickets
  <2> QED BY <2>1 DEF ForkTypes, Steps
<1>2. ForksFit
  BY Neighbours DEF ForksFit, Fit, Stage, Holds, InQueue, HasBoth
<1> QED BY <1>1, <1>2 DEF ForksIInv, SeenBusy, NeverTwice

(* Where a philosopher stands says its stage at either fork. *)
Both == {"triesAgain", "comparesAgain", "tookTwice", "eats"}

LeftStage(s) ==
    IF s \in Both \cup {"tries", "compares", "takes", "waitsRight", "gaveUp", "hasLeft"}
    THEN "holds" ELSE IF s = "waitsLeft" THEN "queued" ELSE "away"

RightStage(s) ==
    IF s \in Both \cup {"hasRight"} THEN "holds"
    ELSE IF s = "waitsRight" THEN "queued" ELSE "away"

LEMMA StageOf ==
    ASSUME NEW p \in Threads
    PROVE  /\ Stage(p, Left(p)) = LeftStage(pc[p])
           /\ Stage(p, Left(p))' = LeftStage(pc'[p])
           /\ Stage(p, Right(p)) = RightStage(pc[p])
           /\ Stage(p, Right(p))' = RightStage(pc'[p])
           /\ Left(p) # Right(p) /\ {Left(p), Right(p)} \subseteq Threads
<1>1. Left(p) # Right(p) /\ {Left(p), Right(p)} \subseteq Threads
  BY Neighbours
<1> QED
  BY <1>1 DEF Stage, Holds, InQueue, HasBoth, LeftStage, RightStage, Both

(* The steps by kind.  A philosopher enters the queue of a fork ... *)
LEMMA EnterFits ==
    ASSUME ForksIInv, NEW p \in Threads, NEW to \in Steps,
           NEW f \in {Left(p), Right(p)}, NEW g \in {Left(p), Right(p)}, g # f,
           TakeTicket(p, f), pc' = [pc EXCEPT ![p] = to],
           Stage(p, f) = "away", Stage(p, f)' = "queued",
           Stage(p, g) # "queued", Stage(p, g)' = Stage(p, g)
    PROVE  ForkTypes' /\ ForksFit'
<1>1. /\ ForkTypes /\ ForksFit /\ f \in Threads /\ g \in Threads
      /\ ticket' = [ticket EXCEPT ![p] = next_free_ticket[f]]
      /\ next_free_ticket' = [next_free_ticket EXCEPT ![f] = Succ(@)]
      /\ seen' = [seen EXCEPT ![p] = Nothing]
      /\ owner_ticket' = owner_ticket
  BY StageOf DEF ForksIInv, TakeTicket
<1>2. ForkTypes'
  <2>1. Nothing \in [counter : Counters, value : Tickets]
    BY TableAssumption DEF Nothing, Counters, Tickets
  <2> QED BY <1>1, <2>1, SuccFacts, Neighbours DEF ForkTypes
<1>3. /\ next_free_ticket[f] \in Tickets /\ owner_ticket[f] \in Tickets
      /\ next_free_ticket[g] \in Tickets /\ owner_ticket[g] \in Tickets
      /\ ticket'[p] = next_free_ticket[f]
      /\ next_free_ticket'[f] = Succ(next_free_ticket[f])
      /\ \A h \in Threads \ {f} : next_free_ticket'[h] = next_free_ticket[h]
  BY <1>1, Neighbours DEF ForkTypes
<1>4. ASSUME NEW y, NEW ty,
             Fit(next_free_ticket[f], owner_ticket[f], Stage(p, f), ticket[p], y, ty)
      PROVE  Fit(next_free_ticket'[f], owner_ticket'[f], Stage(p, f)', ticket'[p], y, ty)
  BY <1>1, <1>3, <1>4, FitFacts
<1>5. ASSUME NEW y, NEW ty,
             Fit(next_free_ticket[g], owner_ticket[g], Stage(p, g), ticket[p], y, ty)
      PROVE  Fit(next_free_ticket'[g], owner_ticket'[g], Stage(p, g)', ticket'[p], y, ty)
  BY <1>1, <1>3, <1>5, FitFacts
<1>6. /\ \A q \in Threads \ {p} : pc'[q] = pc[q] /\ ticket'[q] = ticket[q]
      /\ \A h \in Threads \ {Left(p), Right(p)} :
            next_free_ticket'[h] = next_free_ticket[h] /\ owner_ticket'[h] = owner_ticket[h]
  BY <1>1, <1>3 DEF ForkTypes
<1>7. \A h \in {Left(p), Right(p)} : h = f \/ h = g
  OBVIOUS
<1> QED BY <1>1, <1>2, <1>4, <1>5, <1>6, <1>7, OwnForks

(* ... gives up its ticket, if it has one that is up, for the fork, or     *)
(* forgets what it has seen, or looks at a counter ...                     *)
LEMMA StayFits ==
    ASSUME ForksIInv, NEW p \in Threads, NEW to \in Steps,
           pc' = [pc EXCEPT ![p] = to],
           ticket' \in [Threads -> Tickets],
           seen' \in [Threads -> [counter : Counters, value : Tickets]],
           \A q \in Threads \ {p} : ticket'[q] = ticket[q],
           UNCHANGED <<next_free_ticket, owner_ticket>>,
           \A f \in {Left(p), Right(p)} :
               \/ Stage(p, f)' = Stage(p, f) /\ Stage(p, f) # "queued"
               \/ Stage(p, f) = "queued" /\ HasTurn(p, f) /\ Stage(p, f)' = "holds"
    PROVE  ForkTypes' /\ ForksFit'
<1>1. ForkTypes /\ ForksFit
  BY DEF ForksIInv
<1>2. ForkTypes'
  BY <1>1 DEF ForkTypes
<1>3. ASSUME NEW f \in {Left(p), Right(p)}, NEW y, NEW ty,
             Fit(next_free_ticket[f], owner_ticket[f], Stage(p, f), ticket[p], y, ty)
      PROVE  Fit(next_free_ticket'[f], owner_ticket'[f], Stage(p, f)', ticket'[p], y, ty)
  <2>1. next_free_ticket[f] \in Tickets /\ owner_ticket[f] \in Tickets
    BY <1>1, StageOf, Neighbours DEF ForkTypes
  <2>2. HasTurn(p, f) <=> ticket[p] = owner_ticket[f]
    BY DEF HasTurn
  <2> QED BY <1>3, <2>1, <2>2, FitFacts
<1> QED BY <1>1, <1>2, <1>3, OwnForks DEF ForkTypes

(* ... or unlocks a fork. *)
LEMMA UnlockFits ==
    ASSUME ForksIInv, NEW p \in Threads, NEW to \in Steps,
           NEW f \in {Left(p), Right(p)}, NEW g \in {Left(p), Right(p)}, g # f,
           Unlock(f), pc' = [pc EXCEPT ![p] = to],
           Stage(p, f) = "holds", Stage(p, f)' = "away", Stage(p, g)' = Stage(p, g)
    PROVE  ForkTypes' /\ ForksFit'
<1>1. /\ ForkTypes /\ ForksFit /\ f \in Threads /\ g \in Threads
      /\ owner_ticket' = [owner_ticket EXCEPT ![f] = Succ(@)]
      /\ UNCHANGED <<next_free_ticket, ticket, seen>>
  BY StageOf DEF ForksIInv, Unlock
<1>2. ForkTypes'
  BY <1>1, SuccFacts, Neighbours DEF ForkTypes
<1>3. /\ next_free_ticket[f] \in Tickets /\ owner_ticket[f] \in Tickets
      /\ owner_ticket'[f] = Succ(owner_ticket[f])
      /\ \A h \in Threads \ {f} : owner_ticket'[h] = owner_ticket[h]
  BY <1>1, Neighbours DEF ForkTypes
<1>4. ASSUME NEW y, NEW ty,
             Fit(next_free_ticket[f], owner_ticket[f], Stage(p, f), ticket[p], y, ty)
      PROVE  Fit(next_free_ticket'[f], owner_ticket'[f], Stage(p, f)', ticket'[p], y, ty)
  BY <1>1, <1>3, <1>4, FitFacts
<1>5. ASSUME NEW y, NEW ty,
             Fit(next_free_ticket[g], owner_ticket[g], Stage(p, g), ticket[p], y, ty)
      PROVE  Fit(next_free_ticket'[g], owner_ticket'[g], Stage(p, g)', ticket'[p], y, ty)
  BY <1>1, <1>3, <1>5
<1>6. /\ \A q \in Threads \ {p} : pc'[q] = pc[q] /\ ticket'[q] = ticket[q]
      /\ \A h \in Threads \ {Left(p), Right(p)} :
            next_free_ticket'[h] = next_free_ticket[h] /\ owner_ticket'[h] = owner_ticket[h]
  BY <1>1, <1>3 DEF ForkTypes
<1>7. \A h \in {Left(p), Right(p)} : h = f \/ h = g
  OBVIOUS
<1> QED BY <1>1, <1>2, <1>4, <1>5, <1>6, <1>7, OwnForks

(* What a holder has seen of its right fork stays what it is while others  *)
(* move: the owner's ticket is the holder's to change.                     *)
LEMMA SeenKept ==
    ASSUME ForksIInv, NEW p \in Threads, NEW to \in Steps \ {"comparesAgain", "tookTwice"},
           pc' = [pc EXCEPT ![p] = to],
           \A q \in Threads \ {p} : seen'[q] = seen[q],
           \/ owner_ticket' = owner_ticket
           \/ \E f \in Threads : Holds(p, f) /\ Unlock(f)
    PROVE  SeenBusy' /\ NeverTwice'
<1>1. ForkTypes /\ ForksFit /\ SeenBusy /\ NeverTwice
  BY DEF ForksIInv
<1>2. ASSUME NEW q \in Threads, pc'[q] = "comparesAgain"
      PROVE  seen'[q].counter = "owner" <=> seen'[q].value = owner_ticket'[Right(q)]
  <2>1. q # p /\ pc[q] = "comparesAgain" /\ seen'[q] = seen[q]
    BY <1>1, <1>2 DEF ForkTypes
  <2>2. Holds(q, Right(q)) /\ Right(q) \in Threads
    BY <2>1, Neighbours DEF Holds, HasBoth
  <2>3. ASSUME NEW f \in Threads, Holds(p, f), Unlock(f)
        PROVE  owner_ticket'[Right(q)] = owner_ticket[Right(q)]
    <3>1. f # Right(q)
      BY <1>1, <2>1, <2>2, <2>3, HolderAlone
    <3> QED BY <1>1, <2>2, <2>3, <3>1, Neighbours DEF Unlock, ForkTypes
  <2> QED BY <1>1, <2>1, <2>3 DEF SeenBusy
<1>3. NeverTwice'
  BY <1>1 DEF NeverTwice, ForkTypes
<1> QED BY <1>2, <1>3 DEF SeenBusy

(* Every step keeps the invariant. *)
LEMMA NextForks == ForksIInv /\ [Next]_vars => ForksIInv'
<1> SUFFICES ASSUME ForksIInv, [Next]_vars PROVE ForksIInv'
  OBVIOUS
<1> USE DEF ForksIInv, Goto, Steps
<1>1. ForkTypes /\ 0 \in Tickets /\ Nothing \in [counter : Counters, value : Tickets]
  BY TableAssumption DEF Nothing, Counters, Tickets
<1>2. ASSUME NEW p \in Threads, LocksLeft(p) \/ TriesLock(p) PROVE ForksIInv'
  <2>1. CASE LocksLeft(p)
    <3>1. /\ pc[p] = "think" /\ pc'[p] = "waitsLeft"
          /\ pc' = [pc EXCEPT ![p] = "waitsLeft"] /\ TakeTicket(p, Left(p))
      BY <2>1, <1>1 DEF LocksLeft, ForkTypes
    <3>2. /\ Stage(p, Left(p)) = "away" /\ Stage(p, Left(p))' = "queued"
          /\ Stage(p, Right(p)) # "queued" /\ Stage(p, Right(p))' = Stage(p, Right(p))
          /\ Left(p) # Right(p)
      BY <3>1, StageOf DEF LeftStage, RightStage, Both
    <3>3. ForkTypes' /\ ForksFit'
      BY <3>1, <3>2, EnterFits
    <3> QED BY <3>1, <3>3, <1>1, SeenKept DEF TakeTicket, ForkTypes
  <2>2. CASE TriesLock(p)
    <3>1. /\ pc[p] = "takes" /\ pc'[p] = "waitsRight"
          /\ pc' = [pc EXCEPT ![p] = "waitsRight"] /\ TakeTicket(p, Right(p))
      BY <2>2, <1>1 DEF TriesLock, ForkTypes
    <3>2. /\ Stage(p, Right(p)) = "away" /\ Stage(p, Right(p))' = "queued"
          /\ Stage(p, Left(p)) # "queued" /\ Stage(p, Left(p))' = Stage(p, Left(p))
          /\ Left(p) # Right(p)
      BY <3>1, StageOf DEF LeftStage, RightStage, Both
    <3>3. ForkTypes' /\ ForksFit'
      BY <3>1, <3>2, EnterFits
    <3> QED BY <3>1, <3>3, <1>1, SeenKept DEF TakeTicket, ForkTypes
  <2> QED BY <1>2, <2>1, <2>2
<1>3. ASSUME NEW p \in Threads, GetsLeft(p) \/ GetsRight(p) \/ SeesBusy(p)
      PROVE  ForksIInv'
  <2>1. /\ ticket' \in [Threads -> Tickets]
        /\ seen' \in [Threads -> [counter : Counters, value : Tickets]]
        /\ \A q \in Threads \ {p} : ticket'[q] = ticket[q] /\ seen'[q] = seen[q]
        /\ UNCHANGED <<next_free_ticket, owner_ticket>>
    BY <1>1, <1>3, SMTT(30) DEF GetsLeft, GetsRight, SeesBusy, Return, ForkTypes
  <2>2. PICK to \in {"tries", "triesAgain", "gaveUp"} : pc' = [pc EXCEPT ![p] = to]
    BY <1>3 DEF GetsLeft, GetsRight, SeesBusy
  <2>3. \A f \in {Left(p), Right(p)} :
          \/ Stage(p, f)' = Stage(p, f) /\ Stage(p, f) # "queued"
          \/ Stage(p, f) = "queued" /\ HasTurn(p, f) /\ Stage(p, f)' = "holds"
    <3>1. \/ pc[p] = "waitsLeft" /\ pc'[p] = "tries" /\ HasTurn(p, Left(p))
          \/ pc[p] = "waitsRight" /\ pc'[p] = "triesAgain" /\ HasTurn(p, Right(p))
          \/ pc[p] = "compares" /\ pc'[p] = "gaveUp"
      BY <1>1, <1>3 DEF GetsLeft, GetsRight, SeesBusy, ForkTypes
    <3> QED BY <3>1, StageOf DEF LeftStage, RightStage, Both
  <2>4. ForkTypes' /\ ForksFit'
    BY <2>1, <2>2, <2>3, StayFits
  <2> QED BY <2>1, <2>2, <2>4, SeenKept
<1>4. ASSUME NEW p \in Threads, Tries(p) \/ SeesFree(p) PROVE ForksIInv'
  <2>1. /\ ticket' = ticket
        /\ seen' \in [Threads -> [counter : Counters, value : Tickets]]
        /\ \A q \in Threads \ {p} : seen'[q] = seen[q]
        /\ UNCHANGED <<next_free_ticket, owner_ticket>>
    BY <1>1, <1>4, Neighbours
       DEF Tries, SeesFree, LoadOne, Value, Counters, ForkTypes, lockVars
  <2>2. PICK to \in {"compares", "takes"} : pc' = [pc EXCEPT ![p] = to]
    BY <1>4 DEF Tries, SeesFree
  <2>3. \A f \in {Left(p), Right(p)} :
          Stage(p, f)' = Stage(p, f) /\ Stage(p, f) # "queued"
    <3>1. \/ pc[p] = "tries" /\ pc'[p] = "compares"
          \/ pc[p] = "compares" /\ pc'[p] = "takes"
      BY <1>1, <1>4 DEF Tries, SeesFree, ForkTypes
    <3> QED BY <3>1, StageOf DEF LeftStage, RightStage, Both
  <2>4. ForkTypes' /\ ForksFit'
    BY <1>1, <2>1, <2>2, <2>3, StayFits DEF ForkTypes
  <2> QED BY <2>1, <2>2, <2>4, SeenKept
<1>5. ASSUME NEW p \in Threads, TriesAgain(p) PROVE ForksIInv'
  <2>1. PICK c \in Counters :
          seen' = [seen EXCEPT ![p] = [counter |-> c, value |-> Value(c, Right(p))]]
    BY <1>5 DEF TriesAgain, LoadOne
  <2>2. /\ Value(c, Right(p)) \in Tickets /\ ticket' = ticket
        /\ UNCHANGED <<next_free_ticket, owner_ticket>>
        /\ pc[p] = "triesAgain" /\ pc' = [pc EXCEPT ![p] = "comparesAgain"]
    BY <1>1, <1>5, Neighbours DEF TriesAgain, LoadOne, Value, ForkTypes
  <2>3. seen' \in [Threads -> [counter : Counters, value : Tickets]]
    BY <1>1, <2>1, <2>2 DEF ForkTypes
  <2>4. \A f \in {Left(p), Right(p)} :
          Stage(p, f)' = Stage(p, f) /\ Stage(p, f) # "queued"
    BY <1>1, <2>2, StageOf DEF LeftStage, RightStage, Both, ForkTypes
  <2>5. ForkTypes' /\ ForksFit'
    BY <1>1, <2>2, <2>3, <2>4, StayFits DEF ForkTypes
  <2>6. next_free_ticket[Right(p)] # owner_ticket[Right(p)]
    BY <1>1, <2>2, Neighbours, HolderAlone DEF Holds, HasBoth
  <2>7. seen'[p].counter = "owner" <=> seen'[p].value = owner_ticket'[Right(p)]
    BY <1>1, <2>1, <2>2, <2>6 DEF Value, Counters, ForkTypes
  <2>8. \A q \in Threads \ {p} : seen'[q] = seen[q] /\ pc'[q] = pc[q]
    BY <1>1, <2>1, <2>2 DEF ForkTypes
  <2>9. SeenBusy' /\ NeverTwice'
    BY <1>1, <2>2, <2>7, <2>8 DEF SeenBusy, NeverTwice, ForkTypes
  <2> QED BY <2>5, <2>9
<1>6. ASSUME NEW p \in Threads, AssertsFalse(p) PROVE ForksIInv'
  <2>1. ~LooksFree(p, Right(p)) /\ pc[p] = "comparesAgain"
    <3>1. /\ pc[p] = "comparesAgain" /\ seen[p].counter \in Counters
          /\ seen[p].counter = "owner" <=> seen[p].value = owner_ticket[Right(p)]
      BY <1>1, <1>6 DEF AssertsFalse, SeenBusy, ForkTypes
    <3>2. next_free_ticket[Right(p)] # owner_ticket[Right(p)]
      BY <3>1, Neighbours, HolderAlone DEF Holds, HasBoth
    <3> QED BY <3>1, <3>2 DEF LooksFree, Value, Counters
  <2>2. /\ ticket' \in [Threads -> Tickets]
        /\ seen' \in [Threads -> [counter : Counters, value : Tickets]]
        /\ \A q \in Threads \ {p} : ticket'[q] = ticket[q] /\ seen'[q] = seen[q]
        /\ UNCHANGED <<next_free_ticket, owner_ticket>>
        /\ pc' = [pc EXCEPT ![p] = "eats"]
    BY <1>1, <1>6, <2>1 DEF AssertsFalse, Return, ForkTypes
  <2>3. \A f \in {Left(p), Right(p)} :
          Stage(p, f)' = Stage(p, f) /\ Stage(p, f) # "queued"
    BY <1>1, <2>1, <2>2, StageOf DEF LeftStage, RightStage, Both, ForkTypes
  <2>4. ForkTypes' /\ ForksFit'
    BY <2>2, <2>3, StayFits
  <2> QED BY <2>2, <2>4, SeenKept
<1>7. ASSUME NEW p \in Threads, GivesUp(p) \/ ReleasesOne(p) \/ ReleasesLast(p)
      PROVE  ForksIInv'
  <2>1. PICK to \in {"think", "hasRight", "hasLeft"} : pc' = [pc EXCEPT ![p] = to]
    BY <1>7 DEF GivesUp, ReleasesOne, ReleasesLast
  <2>2. PICK f \in {Left(p), Right(p)}, g \in {Left(p), Right(p)} :
          /\ Unlock(f) /\ f # g
          /\ \/ f = Left(p) /\ pc[p] = "gaveUp" /\ pc'[p] = "think"
             \/ f = Left(p) /\ pc[p] = "eats" /\ pc'[p] = "hasRight"
             \/ f = Right(p) /\ pc[p] = "eats" /\ pc'[p] = "hasLeft"
             \/ f = Left(p) /\ pc[p] = "hasLeft" /\ pc'[p] = "think"
             \/ f = Right(p) /\ pc[p] = "hasRight" /\ pc'[p] = "think"
    <3>1. pc'[p] = to
      BY <1>1, <2>1 DEF ForkTypes
    <3> QED BY <1>7, <2>1, <3>1, StageOf DEF GivesUp, ReleasesOne, ReleasesLast, ForkTypes
  <2>3. /\ Stage(p, f) = "holds" /\ Stage(p, f)' = "away"
        /\ Stage(p, g)' = Stage(p, g)
    BY <2>2, StageOf DEF LeftStage, RightStage, Both
  <2>4. ForkTypes' /\ ForksFit'
    BY <2>1, <2>2, <2>3, UnlockFits
  <2>5. Holds(p, f) /\ f \in Threads /\ seen' = seen
    BY <2>2, <2>3, StageOf DEF Stage, Unlock
  <2> QED BY <2>1, <2>2, <2>4, <2>5, SeenKept
<1>8. CASE UNCHANGED vars
  BY <1>8 DEF vars, lockVars, ForkTypes, ForksFit, SeenBusy, NeverTwice, Stage,
     Holds, InQueue, HasBoth
<1> QED BY <1>2, <1>3, <1>4, <1>5, <1>6, <1>7, <1>8 DEF Next, Continue

(* How many tickets are out while they fit. *)
LEMMA TicketsOut ==
    ASSUME NEW n \in Tickets, NEW o \in Tickets, NEW x, NEW y, NEW tx, NEW ty,
           Fit(n, o, x, tx, y, ty)
    PROVE  (n + TicketRange - o) % TicketRange
               = (IF x = "away" THEN 0 ELSE 1) + (IF y = "away" THEN 0 ELSE 1)
<1>1. TicketRange \in Nat /\ TicketRange > 2 /\ Tickets = 0..(TicketRange - 1)
  BY TableAssumption DEF Tickets
<1>2. \A k \in Tickets : Succ(k) = IF k = TicketRange - 1 THEN 0 ELSE k + 1
  BY <1>1, SuccFacts, SuccIs
<1>3. ASSUME NEW d \in {0, 1, 2},
             n + TicketRange - o = d \/ n + TicketRange - o = TicketRange + d
      PROVE  (n + TicketRange - o) % TicketRange = d
  BY <1>1, <1>3
<1>4. CASE n = o
  BY <1>3, <1>4, <1>1, SuccFacts DEF Fit, First, Second
<1>5. CASE n = Succ(o)
  <2>1. n + TicketRange - o = 1 \/ n + TicketRange - o = TicketRange + 1
    BY <1>1, <1>2, <1>5
  <2>2. (n + TicketRange - o) % TicketRange = 1
    BY <1>3, <2>1
  <2>3. n # o /\ n # Succ(Succ(o))
    BY <1>5, SuccFacts
  <2> QED BY <2>2, <2>3 DEF Fit, First, Second
<1>6. CASE n = Succ(Succ(o))
  <2>1. n + TicketRange - o = 2 \/ n + TicketRange - o = TicketRange + 2
    <3>1. Succ(o) \in Tickets /\ n = IF Succ(o) = TicketRange - 1 THEN 0 ELSE Succ(o) + 1
      BY <1>2, <1>6, SuccFacts
    <3>2. Succ(o) = IF o = TicketRange - 1 THEN 0 ELSE o + 1
      BY <1>2
    <3> QED BY <1>1, <3>1, <3>2
  <2>2. (n + TicketRange - o) % TicketRange = 2
    BY <1>3, <2>1
  <2>3. n # o /\ n # Succ(o)
    BY <1>6, SuccFacts
  <2> QED BY <2>2, <2>3 DEF Fit, First, Second
<1> QED BY <1>4, <1>5, <1>6 DEF Fit

(* The type invariant, the count of the tickets included: at any table,    *)
(* every ticket out is a philosopher's who holds the fork or queues for it *)
(* (ticket_lock.hpp:14-39).                                                *)
THEOREM TypeCorrect == Spec => []TypeOK
<1>1. ASSUME ForksIInv PROVE TypeOK
  <2>1. ForkTypes
    BY <1>1 DEF ForksIInv
  <2>2. ASSUME NEW f \in Threads
        PROVE  (next_free_ticket[f] + TicketRange - owner_ticket[f]) % TicketRange
                   = Cardinality({p \in Threads : Holds(p, f) \/ InQueue(p, f)})
    <3> DEFINE S == {p \in Threads : Holds(p, f) \/ InQueue(p, f)}
    <3>1. PICK r \in Threads : Right(r) = f
      BY Neighbours
    <3>2. r # f /\ next_free_ticket[f] \in Tickets /\ owner_ticket[f] \in Tickets
      BY <2>1, <3>1, Neighbours DEF ForkTypes
    <3>3. (next_free_ticket[f] + TicketRange - owner_ticket[f]) % TicketRange
              = (IF Stage(f, f) = "away" THEN 0 ELSE 1)
                + (IF Stage(r, f) = "away" THEN 0 ELSE 1)
      BY <1>1, <3>1, <3>2, TicketsOut DEF ForksIInv, ForksFit
    <3>4. \A p \in Threads : p \in S <=> Stage(p, f) # "away"
      BY DEF Stage
    <3>5. S \subseteq {f, r}
      BY <3>1, Neighbours DEF Holds, InQueue
    <3>6. S = (IF Stage(f, f) = "away" THEN {} ELSE {f})
                \cup (IF Stage(r, f) = "away" THEN {} ELSE {r})
      BY <3>4, <3>5
    <3>7. /\ Cardinality({}) = 0 /\ Cardinality({f}) = 1 /\ Cardinality({r}) = 1
          /\ Cardinality({f} \cup {r}) = 2
      <4>1. IsFiniteSet({f}) /\ Cardinality({f}) = 1 /\ Cardinality({r}) = 1
        BY FS_Singleton
      <4>2. Cardinality({f} \cup {r}) = Cardinality({f}) + 1
        BY <3>2, <4>1, FS_AddElement
      <4> QED BY <4>1, <4>2, FS_EmptySet
    <3>8. Cardinality(S) = (IF Stage(f, f) = "away" THEN 0 ELSE 1)
                           + (IF Stage(r, f) = "away" THEN 0 ELSE 1)
      BY <3>6, <3>7
    <3> QED BY <3>3, <3>8
  <2> QED BY <2>1, <2>2, Neighbours DEF TypeOK, ForkTypes, LockTypeOK
<1> QED BY <1>1, InitForks, NextForks, PTL DEF Spec

(* For any table and any range of tickets above two, wrap around included: *)
(* a fork has one holder, and a TryLock of its holder fails, whatever the  *)
(* neighbours do between its two loads (ticket_lock.hpp:19-39).            *)
THEOREM ForksAreExclusive == Spec => []ForksExclusive
<1>1. ForksIInv => ForksExclusive
  <2> SUFFICES ASSUME ForksIInv, NEW p \in Threads, NEW q \in Threads, NEW f \in Locks,
                      Holds(p, f), Holds(q, f)
               PROVE  p = q
    BY DEF ForksExclusive, ForksIInv, NeverTwice
  <2> QED BY Neighbours, HolderAlone DEF ForksIInv
<1> QED BY <1>1, InitForks, NextForks, PTL DEF Spec

----------------------------------------------------------------------------
(* Tables with mutexes *)

HungrySteps == {"first", "second"}
EatingSteps == {"ownPlate", "rightPlate", "full"}
DiningSteps == {"think", "leftOnly"} \cup HungrySteps \cup EatingSteps

DiningTypeOK ==
    /\ num_seats \in Nat \ {0, 1}
    /\ forks \in [Seated -> 0..num_seats]
    /\ step \in [Seated -> DiningSteps]

(* The forks a philosopher has locked and not yet unlocked. *)
ForksHeld ==
    \A p \in Seated :
        /\ step[p] = "second" => forks[FirstFork(p)] = p
        /\ step[p] \in EatingSteps => forks[p] = p /\ forks[ToRight(p)] = p
        /\ step[p] = "leftOnly" => forks[p] = p

DiningIInv == DiningTypeOK /\ ForksHeld

(* To the right of a seat is a seat, and not the same. *)
LEMMA RightSeat ==
    ASSUME num_seats \in Nat \ {0, 1}, NEW p \in Seated
    PROVE  ToRight(p) \in Seated /\ ToRight(p) # p
<1>1. CASE p = num_seats - 1
  <2>1. (p + 1) % num_seats = 0
    BY <1>1
  <2> QED BY <1>1, <2>1 DEF ToRight, Seated
<1>2. CASE p < num_seats - 1
  <2>1. (p + 1) % num_seats = p + 1
    BY <1>2 DEF Seated
  <2> QED BY <1>2, <2>1 DEF ToRight, Seated
<1> QED BY <1>1, <1>2 DEF Seated

(* The two forks a philosopher goes for are those to his left and right. *)
LEMMA ForksOfSeat ==
    ASSUME num_seats \in Nat \ {0, 1}, NEW p \in Seated
    PROVE  /\ FirstFork(p) \in Seated /\ SecondFork(p) \in Seated
           /\ {FirstFork(p), SecondFork(p)} = {p, ToRight(p)}
BY RightSeat DEF FirstFork, SecondFork, LeftFork, RightFork

(* Nobody sits or holds a fork when the table is laid. *)
LEMMA InitDining == DiningInit => DiningIInv
BY TableSizesAssumption
   DEF DiningInit, DiningIInv, DiningTypeOK, ForksHeld, Seated, DiningSteps,
       HungrySteps, EatingSteps

(* The number of seats does not change, nor what depends on it alone. *)
LEMMA SameTable ==
    ASSUME num_seats' = num_seats
    PROVE  /\ Seated' = Seated
           /\ \A p : ToRight(p)' = ToRight(p) /\ FirstFork(p)' = FirstFork(p)
BY DEF Seated, ToRight, FirstFork, LeftFork, RightFork

(* A step that takes a free fork, or gives one back that its owner has no  *)
(* further claim to, keeps the invariant: the claims of others are to      *)
(* forks they hold.                                                        *)
LEMMA DiningStepKeeps ==
    ASSUME DiningIInv, NEW p \in Seated, NEW s \in DiningSteps, NEW f \in Seated,
           NEW holder \in {p, num_seats},
           forks[f] \in {p, num_seats},
           forks' = [forks EXCEPT ![f] = holder],
           step' = [step EXCEPT ![p] = s], num_seats' = num_seats,
           s = "second" => forks'[FirstFork(p)] = p,
           s \in EatingSteps => forks'[p] = p /\ forks'[ToRight(p)] = p,
           s = "leftOnly" => forks'[p] = p
    PROVE  DiningIInv'
<1> USE DEF DiningIInv, DiningTypeOK
<1>1. DiningTypeOK'
  BY SameTable DEF Seated
<1>2. ASSUME NEW q \in Seated, NEW g \in Seated, q # p, forks[g] = q
      PROVE  forks'[g] = q
  BY <1>2 DEF Seated
<1>3. ASSUME NEW q \in Seated
      PROVE  /\ step'[q] = "second" => forks'[FirstFork(q)] = q
             /\ step'[q] \in EatingSteps => forks'[q] = q /\ forks'[ToRight(q)] = q
             /\ step'[q] = "leftOnly" => forks'[q] = q
  <2>1. CASE q = p
    BY <2>1
  <2>2. CASE q # p
    BY <2>2, <1>2, RightSeat, ForksOfSeat DEF ForksHeld
  <2> QED BY <2>1, <2>2
<1>4. ForksHeld'
  BY <1>3 DEF ForksHeld, FirstFork, LeftFork, RightFork, ToRight, Seated
<1> QED BY <1>1, <1>4

(* Every step keeps the invariant. *)
LEMMA NextDining == DiningIInv /\ [DiningNext]_diningVars => DiningIInv'
<1> SUFFICES ASSUME DiningIInv, [DiningNext]_diningVars PROVE DiningIInv'
  OBVIOUS
<1> USE DEF DiningIInv, DiningTypeOK, DiningSteps, HungrySteps, EatingSteps
<1>1. ASSUME NEW p \in Seated, GetsHungry(p) PROVE DiningIInv'
  <2>1. /\ step' = [step EXCEPT ![p] = "first"]
        /\ num_seats' = num_seats /\ forks' = forks
    BY <1>1 DEF GetsHungry, Moves
  <2>2. DiningTypeOK'
    BY <2>1, SameTable DEF Seated
  <2>3. ForksHeld'
    BY <2>1 DEF ForksHeld, FirstFork, LeftFork, RightFork, ToRight, Seated
  <2> QED BY <2>2, <2>3
<1>2. ASSUME NEW p \in Seated, LocksFirst(p) PROVE DiningIInv'
  BY <1>2, DiningStepKeeps, ForksOfSeat DEF LocksFirst, LocksFork, Moves
<1>3. ASSUME NEW p \in Seated, LocksSecond(p) PROVE DiningIInv'
  <2>1. /\ step[p] = "second" /\ forks[SecondFork(p)] = num_seats
        /\ step' = [step EXCEPT ![p] = "ownPlate"] /\ num_seats' = num_seats
        /\ forks' = [forks EXCEPT ![SecondFork(p)] = p]
    BY <1>3 DEF LocksSecond, LocksFork, Moves
  <2>2. forks'[FirstFork(p)] = p /\ forks'[SecondFork(p)] = p
    BY <2>1, ForksOfSeat DEF ForksHeld
  <2>3. forks'[p] = p /\ forks'[ToRight(p)] = p
    BY <2>2, ForksOfSeat
  <2> QED BY <2>1, <2>3, DiningStepKeeps, ForksOfSeat
<1>4. ASSUME NEW p \in Seated, AccessesRight(p) \/ StopsEating(p) PROVE DiningIInv'
  <2>1. /\ step[p] \in EatingSteps /\ forks' = forks /\ num_seats' = num_seats
        /\ \E s \in EatingSteps : step' = [step EXCEPT ![p] = s]
    BY <1>4 DEF AccessesRight, StopsEating, Moves
  <2>2. PICK s \in EatingSteps : step' = [step EXCEPT ![p] = s]
    BY <2>1
  <2>3. forks[p] = p /\ forks[ToRight(p)] = p
    BY <2>1 DEF ForksHeld
  <2>4. forks' = [forks EXCEPT ![p] = p]
    BY <2>1, <2>3
  <2> QED BY <2>1, <2>2, <2>3, <2>4, DiningStepKeeps
<1>5. ASSUME NEW p \in Seated, UnlocksRight(p) PROVE DiningIInv'
  <2>1. forks[p] = p /\ forks[ToRight(p)] = p
    BY <1>5 DEF UnlocksRight, Moves, ForksHeld
  <2>2. /\ step' = [step EXCEPT ![p] = "leftOnly"] /\ num_seats' = num_seats
        /\ forks' = [forks EXCEPT ![ToRight(p)] = num_seats]
    BY <1>5 DEF UnlocksRight, UnlocksFork, Moves, RightFork
  <2> QED BY <2>1, <2>2, DiningStepKeeps, RightSeat
<1>6. ASSUME NEW p \in Seated, UnlocksLeft(p) PROVE DiningIInv'
  BY <1>6, DiningStepKeeps DEF UnlocksLeft, UnlocksFork, Moves, LeftFork, ForksHeld
<1>7. CASE UNCHANGED diningVars
  BY <1>7, SameTable DEF diningVars, ForksHeld
<1> QED
  BY <1>1, <1>2, <1>3, <1>4, <1>5, <1>6, <1>7 DEF DiningNext, DiningContinue

(* Whoever accesses a plate holds the fork of its number. *)
LEMMA PlateNeedsFork ==
    ASSUME DiningIInv, NEW p \in Seated, AccessedPlate(p) # num_seats
    PROVE  AccessedPlate(p) \in Seated /\ forks[AccessedPlate(p)] = p
<1>1. CASE step[p] = "ownPlate"
  BY <1>1 DEF DiningIInv, ForksHeld, EatingSteps, AccessedPlate
<1>2. CASE step[p] = "rightPlate"
  BY <1>2, RightSeat DEF DiningIInv, DiningTypeOK, ForksHeld, EatingSteps, AccessedPlate
<1> QED BY <1>1, <1>2 DEF AccessedPlate

(* For any sizes of tables, no two philosophers access one plate: the data *)
(* race that Philosopher::Eat provokes does not happen                     *)
(* (dining/philosopher.cpp:22-43).                                         *)
THEOREM PlatesAreExclusive == DiningSpec => []PlatesExclusive
<1>1. DiningIInv => PlatesExclusive
  BY PlateNeedsFork DEF PlatesExclusive
<1> QED BY <1>1, InitDining, NextDining, PTL DEF DiningSpec
=============================================================================
