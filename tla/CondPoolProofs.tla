------------------------------ MODULE CondPoolProofs ------------------------------
(***************************************************************************)
(* Cond and PoolChain, one after the other; they do not depend on each      *)
(* other.                                                                   *)
(*                                                                         *)
(* CondInv is an invariant of Cond, and no notification is lost, for every  *)
(* finite set of goroutines and every even range of tickets that is more    *)
(* than twice their number.                                                 *)
(*                                                                         *)
(* Tickets wrap around, so nothing can be said by comparing them.  The      *)
(* proof measures every ticket by its age, the number of tickets handed out *)
(* from it on (Diff).  The goroutines that wait are exactly as old as 1, 2, *)
(* and so on up to the number of tickets not notified (Tickets), and one on *)
(* its way to the list has not waited for more than half the range          *)
(* (Window): so less tells the two apart.  A notifier that has loaded       *)
(* l.wait is younger than whoever waited at its call (Calls), which is why  *)
(* the fast path loses nothing.                                             *)
(***************************************************************************)
EXTENDS Cond, PoolChain, FiniteSetTheorems, SequenceTheorems, WellFoundedInduction, TLAPS

-----------------------------------------------------------------------------
(* The inductive invariant *)

\* How far ticket counter a is ahead of b.
Diff(a, b) == (a - b) % Width

Half == Width \div 2

\* Tickets handed out since that of g, its own included; tickets that are not
\* notified; tickets handed out since g loaded l.wait.
Age(g) == Diff(wait, ticket[g])
Left == Diff(wait, notify)
Since(g) == Diff(wait, w[g])

\* The waiters hold the tickets that are not notified, one each.
Tickets ==
    /\ \A g \in waiting : Age(g) \in 1..Left
    /\ \A g, h \in waiting : ticket[g] = ticket[h] => g = h
    /\ \A a \in 1..Left : \E g \in waiting : Age(g) = a

\* On its way to the list, a goroutine is at most half a turn behind.
Window ==
    \A g \in Goroutine : pc[g] \in {"unlock", "enter"} =>
        Age(g) \in 1..Half /\ (Age(g) <= Left => g \in waiting)

\* What a notifier knows of those that waited at its call.
Calls ==
    \A g \in Goroutine :
        /\ before[g] \subseteq waiting
        /\ pc[g] \in {"one2", "all2", "allstore"} => \A h \in before[g] : Since(g) < Age(h)
        /\ pc[g] = "allready" => before[g] = {}

\* l.lock is held over a step only by Broadcast, between its load and its store.
Locked ==
    /\ \A g \in Goroutine : pc[g] = "allstore" <=> lock = g
    /\ lock # Nil => list = <<>>
    /\ \A g \in Goroutine : pc[g] = "allstore" => Since(g) <= Left

Listed ==
    /\ IsInjective(list)
    /\ \A g \in ToSet(list) : pc[g] = "parked" /\ g \in waiting

\* Who was taken off the list is parked, and notified once Broadcast has stored.
Batches ==
    \A g \in Goroutine :
        /\ IsInjective(batch[g])
        /\ pc[g] \notin {"allstore", "oneready", "allready"} => batch[g] = <<>>
        /\ \A h \in ToSet(batch[g]) :
              /\ pc[h] = "parked" /\ h \notin ToSet(list)
              /\ pc[g] = "allstore" => h \in waiting /\ Since(g) < Age(h)
              /\ pc[g] # "allstore" => h \notin waiting

\* Whoever is parked and off the list is in one batch.
OneBatch ==
    /\ \A g, h \in Goroutine : \A x \in ToSet(batch[g]) : x \in ToSet(batch[h]) => g = h
    /\ \A g \in Goroutine : pc[g] = "parked" /\ g \notin ToSet(list) =>
          \E h \in Goroutine : g \in ToSet(batch[h])

IInv ==
    /\ TypeOK /\ Tickets /\ Window /\ NoSpuriousWakeup /\ Calls
    /\ Locked /\ Listed /\ Batches /\ OneBatch

-----------------------------------------------------------------------------
(* Counters that wrap around *)

\* There are more tickets in half a turn than goroutines.
LEMMA HalfIs ==
    /\ Half \in Nat /\ Width = 2 * Half /\ Cardinality(Goroutine) \in Nat
    /\ Cardinality(Goroutine) < Half
<1>1. Width \in Nat /\ Width % 2 = 0 /\ IsFiniteSet(Goroutine) /\ 2 * Cardinality(Goroutine) < Width
  BY CondAssumption
<1>2. Cardinality(Goroutine) \in Nat
  BY <1>1, FS_CardinalityType
<1>3. Half \in Nat /\ Width = 2 * Half
  BY <1>1 DEF Half
<1> QED BY <1>1, <1>2, <1>3

\* The distance of two counters, without a modulus.
LEMMA DiffIs ==
    ASSUME NEW a \in Uint, NEW b \in Uint
    PROVE  Diff(a, b) = (IF a >= b THEN a - b ELSE a - b + Width) /\ Diff(a, b) \in Uint
<1>1. Width \in Nat /\ a \in 0..(Width-1) /\ b \in 0..(Width-1)
  BY CondAssumption DEF Uint
<1>2. (a - b) % Width = IF a >= b THEN a - b ELSE a - b + Width
  BY <1>1
<1>3. Diff(a, b) = IF a >= b THEN a - b ELSE a - b + Width
  BY <1>2 DEF Diff
<1> QED BY <1>1, <1>3 DEF Uint

\* The next ticket, without a modulus.
LEMMA IncIs ==
    ASSUME NEW a \in Uint
    PROVE  Inc(a) = (IF a = Width - 1 THEN 0 ELSE a + 1) /\ Inc(a) \in Uint
<1>1. Width \in Nat /\ a \in 0..(Width-1)
  BY CondAssumption DEF Uint
<1>2. (a + 1) % Width = IF a = Width - 1 THEN 0 ELSE a + 1
  BY <1>1
<1>3. Inc(a) = (IF a = Width - 1 THEN 0 ELSE a + 1)
  BY <1>2 DEF Inc
<1> QED BY <1>1, <1>3 DEF Uint

\* Equal counters, and counters equally far from a third.
LEMMA DiffSame ==
    ASSUME NEW a \in Uint, NEW b \in Uint, NEW c \in Uint
    PROVE  Diff(a, a) = 0 /\ (Diff(a, b) = Diff(a, c) => b = c)
<1>1. /\ Diff(a, a) = IF a >= a THEN a - a ELSE a - a + Width
      /\ Diff(a, b) = IF a >= b THEN a - b ELSE a - b + Width
      /\ Diff(a, c) = IF a >= c THEN a - c ELSE a - c + Width
  BY DiffIs
<1>2. Width \in Nat /\ a \in 0..(Width-1) /\ b \in 0..(Width-1) /\ c \in 0..(Width-1)
  BY HalfIs DEF Uint
<1> QED BY <1>1, <1>2

\* One more ticket is handed out.
LEMMA DiffInc ==
    ASSUME NEW a \in Uint, NEW b \in Uint, Diff(a, b) # Width - 1
    PROVE  Diff(Inc(a), b) = Diff(a, b) + 1
<1>1. PICK x \in Uint : x = Inc(a) /\ x = IF a = Width - 1 THEN 0 ELSE a + 1
  BY IncIs
<1>2. /\ Diff(a, b) = IF a >= b THEN a - b ELSE a - b + Width
      /\ Diff(x, b) = IF x >= b THEN x - b ELSE x - b + Width
  BY DiffIs
<1>3. Width \in Nat /\ a \in 0..(Width-1) /\ b \in 0..(Width-1)
  BY HalfIs DEF Uint
<1> QED BY <1>1, <1>2, <1>3

\* One more ticket is notified.
LEMMA DiffUp ==
    ASSUME NEW a \in Uint, NEW c \in Uint, a # c
    PROVE  Diff(a, Inc(c)) = Diff(a, c) - 1 /\ Diff(a, c) >= 1
<1>1. PICK x \in Uint : x = Inc(c) /\ x = IF c = Width - 1 THEN 0 ELSE c + 1
  BY IncIs
<1>2. /\ Diff(a, c) = IF a >= c THEN a - c ELSE a - c + Width
      /\ Diff(a, x) = IF a >= x THEN a - x ELSE a - x + Width
  BY DiffIs
<1>3. Width \in Nat /\ a \in 0..(Width-1) /\ c \in 0..(Width-1)
  BY HalfIs DEF Uint
<1> QED BY <1>1, <1>2, <1>3

\* Three counters, seen from the first one.
LEMMA DiffOlder ==
    ASSUME NEW a \in Uint, NEW t \in Uint, NEW c \in Uint
    PROVE  Diff(t, c) = IF Diff(a, t) <= Diff(a, c)
                        THEN Diff(a, c) - Diff(a, t)
                        ELSE Width + Diff(a, c) - Diff(a, t)
<1>1. /\ Diff(a, t) = IF a >= t THEN a - t ELSE a - t + Width
      /\ Diff(a, c) = IF a >= c THEN a - c ELSE a - c + Width
      /\ Diff(t, c) = IF t >= c THEN t - c ELSE t - c + Width
  BY DiffIs
<1>2. Width \in Nat /\ a \in 0..(Width-1) /\ t \in 0..(Width-1) /\ c \in 0..(Width-1)
  BY HalfIs DEF Uint
<1> QED BY <1>1, <1>2

-----------------------------------------------------------------------------
(* Queues *)

\* The members of a queue of S are in S.
LEMMA MembersIn ==
    ASSUME NEW S, NEW q \in Seq(S)
    PROVE  ToSet(q) \subseteq S
  BY DEF ToSet

\* The queues without an entry and with one.
LEMMA ShortQueues ==
    ASSUME NEW S, NEW x \in S
    PROVE  /\ <<>> \in Seq(S) /\ ToSet(<<>>) = {} /\ IsInjective(<<>>)
           /\ <<x>> \in Seq(S) /\ ToSet(<<x>>) = {x} /\ IsInjective(<<x>>)
  BY DEF ToSet, IsInjective

\* A newcomer at the end.
LEMMA AppendAdds ==
    ASSUME NEW S, NEW q \in Seq(S), NEW x \in S, x \notin ToSet(q), IsInjective(q)
    PROVE  /\ Append(q, x) \in Seq(S) /\ Append(q, x) # <<>>
           /\ ToSet(Append(q, x)) = ToSet(q) \cup {x}
           /\ IsInjective(Append(q, x))
<1> DEFINE r == Append(q, x)
<1>1. /\ r \in Seq(S) /\ r # <<>> /\ Len(q) \in Nat /\ DOMAIN q = 1..Len(q)
      /\ DOMAIN r = 1..(Len(q) + 1) /\ r[Len(q) + 1] = x
      /\ \A i \in 1..Len(q) : r[i] = q[i]
  OBVIOUS
<1>2. \A i \in 1..(Len(q) + 1) : i \in 1..Len(q) \/ i = Len(q) + 1
  BY <1>1
<1>3. \A i \in 1..Len(q) : i \in DOMAIN r
  BY <1>1
<1>4. Len(q) + 1 \in DOMAIN r
  BY <1>1
<1> HIDE DEF r
<1>5. ToSet(r) = ToSet(q) \cup {x}
  BY <1>1, <1>2, <1>3, <1>4 DEF ToSet
<1>6. IsInjective(r)
  BY <1>1, <1>2 DEF IsInjective, ToSet
<1> QED BY <1>1, <1>5, <1>6 DEF r

\* The first one leaves.
LEMMA TailRemoves ==
    ASSUME NEW S, NEW q \in Seq(S), q # <<>>, IsInjective(q)
    PROVE  /\ Tail(q) \in Seq(S)
           /\ Head(q) \in S /\ Head(q) \in ToSet(q) /\ Head(q) \notin ToSet(Tail(q))
           /\ ToSet(Tail(q)) = ToSet(q) \ {Head(q)}
           /\ IsInjective(Tail(q))
<1> DEFINE r == Tail(q)
<1>1. /\ r \in Seq(S) /\ Len(q) \in Nat /\ Len(q) >= 1 /\ DOMAIN q = 1..Len(q)
      /\ DOMAIN r = 1..(Len(q) - 1) /\ Head(q) = q[1] /\ Head(q) \in S
      /\ \A i \in 1..(Len(q) - 1) : r[i] = q[i + 1]
  OBVIOUS
<1> HIDE DEF r
<1>2. \A i \in 1..(Len(q) - 1) : i + 1 \in DOMAIN q /\ i + 1 # 1
  BY <1>1
<1>3. 1 \in DOMAIN q
  BY <1>1
<1>4. \A x : x \in ToSet(r) => x \in ToSet(q) \ {q[1]}
  <2> SUFFICES ASSUME NEW i \in 1..(Len(q) - 1)  PROVE r[i] \in ToSet(q) \ {q[1]}
    BY <1>1 DEF ToSet
  <2> QED BY <1>1, <1>2, <1>3 DEF ToSet, IsInjective
<1>5. \A x : x \in ToSet(q) \ {q[1]} => x \in ToSet(r)
  <2> SUFFICES ASSUME NEW i \in 1..Len(q), q[i] # q[1]  PROVE q[i] \in ToSet(r)
    BY <1>1 DEF ToSet
  <2>1. i - 1 \in 1..(Len(q) - 1) /\ (i - 1) + 1 = i
    BY <1>1
  <2>2. r[i - 1] = q[i]
    BY <1>1, <2>1
  <2> QED BY <1>1, <2>1, <2>2 DEF ToSet
<1>6. IsInjective(r)
  <2> SUFFICES ASSUME NEW i \in 1..(Len(q) - 1), NEW j \in 1..(Len(q) - 1), r[i] = r[j]
               PROVE  i = j
    BY <1>1 DEF IsInjective
  <2>1. i + 1 = j + 1
    BY <1>1, <1>2 DEF IsInjective
  <2> QED BY <1>1, <2>1
<1> QED BY <1>1, <1>3, <1>4, <1>5, <1>6 DEF r, ToSet

\* The entry at k leaves.
LEMMA RemoveFacts ==
    ASSUME NEW S, NEW q \in Seq(S), NEW k \in DOMAIN q, IsInjective(q)
    PROVE  /\ RemoveAt(q, k) \in Seq(S)
           /\ IsInjective(RemoveAt(q, k))
           /\ ToSet(RemoveAt(q, k)) = ToSet(q) \ {q[k]}
<1> DEFINE r == RemoveAt(q, k)
<1> DEFINE a == SubSeq(q, 1, k - 1)
<1> DEFINE b == SubSeq(q, k + 1, Len(q))
<1>1. /\ Len(q) \in Nat /\ DOMAIN q = 1..Len(q) /\ k \in 1..Len(q)
      /\ a \in Seq(S) /\ b \in Seq(S) /\ Len(a) = k - 1 /\ Len(b) = Len(q) - k
      /\ r = a \o b
  BY DEF RemoveAt
<1>2. /\ \A j \in 1..(k - 1) : a[j] = q[j]
      /\ \A j \in 1..(Len(q) - k) : b[j] = q[k + j]
  <2>1. ASSUME NEW j \in 1..(k - 1)
        PROVE  a[j] = q[j]
    BY <1>1
  <2>2. ASSUME NEW j \in 1..(Len(q) - k)
        PROVE  b[j] = q[k + j]
    BY <1>1, SMTT(30)
  <2> QED BY <2>1, <2>2
<1> HIDE DEF r, a, b
<1>3. r \in Seq(S) /\ Len(r) = Len(q) - 1 /\ DOMAIN r = 1..(Len(q) - 1)
  <2>1. r \in Seq(S) /\ Len(r) = Len(a) + Len(b)
    BY <1>1, ConcatProperties
  <2>2. \A n \in Nat : \A m \in 1..n : (m - 1) + (n - m) = n - 1
    OBVIOUS
  <2>3. (k - 1) + (Len(q) - k) = Len(q) - 1
    BY <1>1, <2>2
  <2>4. Len(r) = Len(q) - 1
    BY <1>1, <2>1, <2>3
  <2>5. r \in Seq(S) => DOMAIN r = 1..Len(r)
    OBVIOUS
  <2> QED BY <2>1, <2>4, <2>5
<1>4. \A j \in 1..(Len(q) - 1) : r[j] = IF j < k THEN a[j] ELSE b[j - (k - 1)]
  BY <1>1
<1>5. \A j \in 1..(Len(q) - 1) : r[j] = IF j < k THEN q[j] ELSE q[j + 1]
  <2> SUFFICES ASSUME NEW j \in 1..(Len(q) - 1)
               PROVE  r[j] = IF j < k THEN q[j] ELSE q[j + 1]
    OBVIOUS
  <2>1. CASE j < k
    BY <1>1, <1>2, <1>4, <2>1
  <2>2. CASE ~(j < k)
    <3>1. j - (k - 1) \in 1..(Len(q) - k) /\ k + (j - (k - 1)) = j + 1
      BY <1>1, <2>2
    <3> QED BY <1>2, <1>4, <2>2, <3>1
  <2> QED BY <2>1, <2>2
<1>6. ASSUME NEW j \in 1..(Len(q) - 1)
      PROVE  \E l \in DOMAIN q : l # k /\ r[j] = q[l] /\ l = IF j < k THEN j ELSE j + 1
  <2>1. CASE j < k
    <3>1. j \in DOMAIN q /\ j # k
      BY <1>1, <2>1
    <3> QED BY <1>5, <2>1, <3>1
  <2>2. CASE ~(j < k)
    <3>1. j + 1 \in DOMAIN q /\ j + 1 # k
      BY <1>1, <2>2
    <3> QED BY <1>5, <2>2, <3>1
  <2> QED BY <2>1, <2>2
<1>7. ASSUME NEW l \in DOMAIN q, l # k
      PROVE  q[l] \in ToSet(r)
  <2>1. CASE l < k
    <3>1. l \in 1..(Len(q) - 1)
      BY <1>1, <2>1
    <3> QED BY <1>3, <1>5, <2>1, <3>1 DEF ToSet
  <2>2. CASE ~(l < k)
    <3>1. l - 1 \in 1..(Len(q) - 1) /\ ~(l - 1 < k) /\ (l - 1) + 1 = l
      BY <1>1, <1>7, <2>2
    <3>2. r[l - 1] = q[l]
      BY <1>5, <3>1
    <3> QED BY <1>3, <3>1, <3>2 DEF ToSet
  <2> QED BY <2>1, <2>2
<1>8. ToSet(r) = ToSet(q) \ {q[k]}
  <2>1. \A y \in ToSet(r) : y \in ToSet(q) /\ y # q[k]
    BY <1>3, <1>6 DEF ToSet, IsInjective
  <2>2. \A y \in ToSet(q) : y # q[k] => y \in ToSet(r)
    BY <1>7 DEF ToSet
  <2> QED BY <2>1, <2>2
<1>9. IsInjective(r)
  <2> SUFFICES ASSUME NEW i \in 1..(Len(q) - 1), NEW j \in 1..(Len(q) - 1), r[i] = r[j]
               PROVE  i = j
    BY <1>3 DEF IsInjective
  <2>1. (IF i < k THEN i ELSE i + 1) = (IF j < k THEN j ELSE j + 1)
    BY <1>6 DEF IsInjective
  <2> QED BY <1>1, <2>1
<1> QED BY <1>3, <1>8, <1>9 DEF r


-----------------------------------------------------------------------------
(* Ages *)

\* The numbers of the invariant are counters.
LEMMA AgesAreCounters ==
    ASSUME TypeOK
    PROVE  /\ Left \in Uint /\ Left \in Nat
           /\ \A g \in Goroutine : Age(g) \in Uint /\ Age(g) \in Nat
           /\ \A g \in Goroutine : Since(g) \in Uint /\ Since(g) \in Nat
<1>1. \A x \in Uint : x \in Nat
  BY HalfIs DEF Uint
<1>2. wait \in Uint /\ notify \in Uint /\ \A g \in Goroutine : ticket[g] \in Uint /\ w[g] \in Uint
  BY DEF TypeOK
<1> QED BY <1>1, <1>2, DiffIs DEF Age, Left, Since

\* There are as many waiters as tickets that are not notified: notifyListAdd and
\* the notifiers keep the two counters right.
LEMMA TicketsCount ==
    ASSUME TypeOK, Tickets
    PROVE  /\ IsFiniteSet(waiting) /\ Cardinality(waiting) = Left
           /\ Left <= Cardinality(Goroutine) /\ Left < Half
<1>1. IsFiniteSet(waiting) /\ Cardinality(waiting) <= Cardinality(Goroutine)
  <2>1. IsFiniteSet(Goroutine) /\ waiting \in SUBSET Goroutine
    BY CondAssumption DEF TypeOK
  <2> QED BY <2>1, FS_Subset
<1>2. Left \in Nat
  BY AgesAreCounters
<1> DEFINE f == [a \in 1..Left |-> CHOOSE g \in waiting : Age(g) = a]
<1>3. \A a \in 1..Left : f[a] \in waiting /\ Age(f[a]) = a
  BY DEF Tickets
<1>4. f \in [1..Left -> waiting]
  BY <1>3
<1>5. \A a, b \in 1..Left : f[a] = f[b] => a = b
  <2> HIDE DEF f
  <2> QED BY <1>3
<1>6. \A g \in waiting : \E a \in 1..Left : f[a] = g
  <2> SUFFICES ASSUME NEW g \in waiting PROVE \E a \in 1..Left : f[a] = g
    OBVIOUS
  <2>1. PICK a \in 1..Left : a = Age(g)
    BY DEF Tickets
  <2>2. f[a] \in waiting /\ Age(f[a]) = Age(g)
    BY <1>3, <2>1
  <2> HIDE DEF f
  <2>3. PICK h \in waiting : h = f[a]
    BY <2>2
  <2>4. ticket[h] = ticket[g]
    <3>1. wait \in Uint /\ ticket[h] \in Uint /\ ticket[g] \in Uint
      BY DEF TypeOK
    <3> QED BY <2>2, <2>3, <3>1, DiffSame DEF Age
  <2>5. h = g
    BY <2>4 DEF Tickets
  <2> QED BY <2>3, <2>5
<1>7. ExistsBijection(1..Left, waiting)
  <2> HIDE DEF f
  <2>1. f \in Injection(1..Left, waiting)
    BY <1>4, <1>5 DEF Injection, IsInjective
  <2>2. f \in Surjection(1..Left, waiting)
    BY <1>4, <1>6 DEF Surjection
  <2> QED BY <2>1, <2>2 DEF ExistsBijection, Bijection
<1>8. Cardinality(waiting) = Left
  BY <1>2, <1>7, FS_CountingElements
<1> QED BY <1>1, <1>2, <1>8, HalfIs

\* notify moves up: who is older than what is left is notified.
LEMMA NotifiedAre ==
    ASSUME TypeOK, Tickets, NEW n \in Uint, n = notify', Diff(wait, n) <= Left
    PROVE  Notified = {g \in waiting : Age(g) > Diff(wait, n)}
<1>1. wait \in Uint /\ notify \in Uint /\ Left \in Nat
  BY AgesAreCounters DEF TypeOK
<1>2. Diff(n, notify) = Left - Diff(wait, n) /\ Diff(wait, n) \in Int
  BY <1>1, DiffOlder, DiffIs DEF Left, Uint
<1>3. ASSUME NEW g \in waiting
      PROVE  Diff(ticket[g], notify) = Left - Age(g) /\ Age(g) \in Nat
  <2>1. ticket[g] \in Uint /\ Age(g) \in Nat /\ Age(g) <= Left
    BY AgesAreCounters DEF TypeOK, Tickets
  <2> QED BY <1>1, <2>1, DiffOlder DEF Left, Age
<1>4. ASSUME NEW g \in waiting
      PROVE  Diff(ticket[g], notify) < Diff(n, notify) <=> Age(g) > Diff(wait, n)
  BY <1>1, <1>2, <1>3
<1>5. Notified = {g \in waiting : Diff(ticket[g], notify) < Diff(n, notify)}
  BY DEF Notified, Diff
<1> QED BY <1>4, <1>5

\* What a step that moves notify up to n does to the waiters.
Advanced(n) ==
    /\ waiting' = {g \in waiting : Age(g) <= Diff(wait, n)}
    /\ waiting' \subseteq waiting
    /\ \A g \in Goroutine : before'[g] = {h \in before[g] : Age(h) <= Diff(wait, n)}
    /\ \A g \in Goroutine : Age(g)' = Age(g)
    /\ Left' = Diff(wait, n)
    /\ waiting' \in SUBSET Goroutine /\ before' \in [Goroutine -> SUBSET Goroutine]
    /\ Tickets'

\* The waiters that are left hold the tickets that are left.
LEMMA Advances ==
    ASSUME TypeOK, Tickets, Calls, NEW n \in Uint, n = notify', Diff(wait, n) <= Left,
           wait' = wait, ticket' = ticket, NoteNotify
    PROVE  Advanced(n)
<1>1. Notified = {g \in waiting : Age(g) > Diff(wait, n)}
  BY NotifiedAre
<1>2. /\ Left \in Nat /\ Diff(wait, n) \in Nat /\ Diff(wait, n) <= Left
      /\ \A g \in Goroutine : Age(g) \in Nat
      /\ waiting \in SUBSET Goroutine
      /\ \A g \in Goroutine : before[g] \in SUBSET waiting
  <2>1. wait \in Uint /\ \A x \in Uint : x \in Nat
    BY HalfIs DEF TypeOK, Uint
  <2>2. Diff(wait, n) \in Uint
    BY <2>1, DiffIs
  <2> QED BY <2>1, <2>2, AgesAreCounters DEF TypeOK, Calls
<1>3. waiting' = {g \in waiting : Age(g) <= Diff(wait, n)}
  BY <1>1, <1>2 DEF NoteNotify
<1>4. \A g \in Goroutine : before'[g] = {h \in before[g] : Age(h) <= Diff(wait, n)}
  BY <1>1, <1>2 DEF NoteNotify
<1>5. /\ \A g \in Goroutine : Age(g)' = Age(g)
      /\ Left' = Diff(wait, n)
  BY DEF Age, Left
<1>6. waiting' \in SUBSET Goroutine /\ before' \in [Goroutine -> SUBSET Goroutine]
  BY <1>2, <1>3 DEF NoteNotify
<1>7. Tickets'
  <2>1. \A g \in waiting' : Age(g)' \in 1..Left'
    BY <1>2, <1>3, <1>5 DEF Tickets
  <2>2. \A g, h \in waiting' : ticket'[g] = ticket'[h] => g = h
    BY <1>3 DEF Tickets
  <2>3. \A a \in 1..Left' : \E g \in waiting' : Age(g)' = a
    <3> SUFFICES ASSUME NEW a \in 1..Left' PROVE \E g \in waiting' : Age(g)' = a
      OBVIOUS
    <3>1. a \in 1..Left /\ a <= Diff(wait, n)
      BY <1>2, <1>5
    <3>2. PICK g \in waiting : Age(g) = a
      BY <3>1 DEF Tickets
    <3> QED BY <1>2, <1>3, <1>5, <3>1, <3>2
  <2> QED BY <2>1, <2>2, <2>3 DEF Tickets
<1> QED BY <1>3, <1>4, <1>5, <1>6, <1>7 DEF Advanced

-----------------------------------------------------------------------------
(* Steps that leave the counters, the list and the batches alone *)

\* Only g moves.
LEMMA Moves ==
    ASSUME TypeOK, NEW g \in Goroutine, NEW l \in PC, Goto(g, l)
    PROVE  /\ pc' \in [Goroutine -> PC] /\ pc'[g] = l
           /\ \A h \in Goroutine : h # g => pc'[h] = pc[h]
  BY DEF Goto, TypeOK

\* Where a call goes back to is outside.
LEMMA OutsideIs ==
    ASSUME NEW g
    PROVE  Outside(g) \in {"idle", "held"} /\ Outside(g) \in PC
  BY DEF Outside, PC

\* What a step of g to l does if it is only about g.
Quiet(g, l) ==
    /\ Goto(g, l)
    /\ UNCHANGED <<wait, notify, lock, list, batch, waiting>>
    /\ pc[g] \notin {"parked", "allstore"} /\ l \notin {"parked", "allstore"}
    /\ l \notin {"oneready", "allready"} => batch[g] = <<>>
    /\ g \in waiting => l \in {"unlock", "enter"}
    /\ l \in {"unlock", "enter"} => pc[g] \in {"unlock", "enter"}
    /\ \A h \in Goroutine : ticket'[h] = ticket[h] \/ (h = g /\ l \notin {"unlock", "enter"})
    /\ \A h \in Goroutine : h # g => before'[h] = before[h] /\ w'[h] = w[h]
    /\ before'[g] \subseteq waiting
    /\ l \in {"one2", "all2"} => \A h \in before'[g] : Diff(wait, w'[g]) < Age(h)
    /\ l = "allready" => before'[g] = {}

\* Such a step keeps the invariant.
LEMMA QuietStep ==
    ASSUME IInv, TypeOK', NEW g \in Goroutine, NEW l \in PC, Quiet(g, l)
    PROVE  IInv'
<1>1. TypeOK /\ Tickets /\ Window /\ NoSpuriousWakeup /\ Calls /\ Locked /\ Listed /\ Batches /\ OneBatch
  BY DEF IInv
<1>2. pc' \in [Goroutine -> PC] /\ pc'[g] = l /\ \A h \in Goroutine : h # g => pc'[h] = pc[h]
  BY <1>1, Moves DEF Quiet
<1>3. /\ wait' = wait /\ notify' = notify /\ lock' = lock /\ list' = list /\ batch' = batch
      /\ waiting' = waiting /\ waiting \in SUBSET Goroutine
  BY <1>1 DEF Quiet, TypeOK
<1>4. g \notin waiting \/ l \in {"unlock", "enter"}
  BY DEF Quiet
<1>5. /\ Left' = Left
      /\ \A h \in waiting : ticket'[h] = ticket[h] /\ Age(h)' = Age(h)
      /\ \A h \in Goroutine : pc'[h] \in {"unlock", "enter"} => Age(h)' = Age(h)
      /\ \A h \in Goroutine : h # g => Since(h)' = Since(h)
      /\ Since(g)' = Diff(wait, w'[g])
  <2>1. Left' = Left /\ Since(g)' = Diff(wait, w'[g])
    BY <1>3 DEF Left, Since
  <2>2. ASSUME NEW h \in Goroutine, h \in waiting \/ pc'[h] \in {"unlock", "enter"}
        PROVE  ticket'[h] = ticket[h] /\ Age(h)' = Age(h)
    BY <1>2, <1>3, <1>4, <2>2 DEF Quiet, Age
  <2>3. \A h \in Goroutine : h # g => Since(h)' = Since(h)
    BY <1>3 DEF Quiet, Since
  <2> QED BY <1>3, <2>1, <2>2, <2>3
<1>6. Tickets'
  BY <1>1, <1>3, <1>5 DEF Tickets
<1>7. Window'
  BY <1>1, <1>2, <1>3, <1>5 DEF Window, Quiet
<1>8. NoSpuriousWakeup'
  BY <1>1, <1>2, <1>3 DEF NoSpuriousWakeup, Quiet
<1>9. Calls'
  <2> SUFFICES ASSUME NEW h \in Goroutine
               PROVE  /\ before'[h] \subseteq waiting
                      /\ pc'[h] \in {"one2", "all2", "allstore"} =>
                            \A x \in before'[h] : Since(h)' < Age(x)'
                      /\ pc'[h] = "allready" => before'[h] = {}
    BY <1>3 DEF Calls
  <2>1. CASE h = g
    BY <1>2, <1>5, <2>1 DEF Quiet
  <2>2. CASE h # g
    BY <1>1, <1>2, <1>5, <2>2 DEF Quiet, Calls
  <2> QED BY <2>1, <2>2
<1>10. Locked'
  <2>1. \A h \in Goroutine : pc'[h] = "allstore" <=> pc[h] = "allstore"
    BY <1>2 DEF Quiet
  <2>2. \A h \in Goroutine : pc'[h] = "allstore" => h # g
    BY <1>2 DEF Quiet
  <2> QED BY <1>1, <1>3, <1>5, <2>1, <2>2 DEF Locked
<1>11. Listed'
  BY <1>1, <1>2, <1>3, MembersIn DEF Listed, Quiet
<1>12. Batches'
  <2> SUFFICES ASSUME NEW h \in Goroutine
               PROVE  /\ IsInjective(batch[h])
                      /\ pc'[h] \notin {"allstore", "oneready", "allready"} => batch[h] = <<>>
                      /\ \A x \in ToSet(batch[h]) :
                            /\ pc'[x] = "parked" /\ x \notin ToSet(list)
                            /\ pc'[h] = "allstore" => x \in waiting /\ Since(h)' < Age(x)'
                            /\ pc'[h] # "allstore" => x \notin waiting
    BY <1>3 DEF Batches
  <2>1. batch[h] \in Seq(Goroutine) /\ ToSet(batch[h]) \subseteq Goroutine
    BY <1>1, MembersIn DEF TypeOK
  <2>2. \A x \in ToSet(batch[h]) : x # g /\ pc'[x] = "parked" /\ x \notin ToSet(list)
    BY <1>1, <1>2, <2>1 DEF Batches, Quiet
  <2>3. pc'[h] = "allstore" <=> pc[h] = "allstore"
    BY <1>2 DEF Quiet
  <2>4. pc'[h] = "allstore" => h # g
    BY <1>2 DEF Quiet
  <2>5. pc'[h] \notin {"allstore", "oneready", "allready"} => batch[h] = <<>>
    BY <1>1, <1>2 DEF Batches, Quiet
  <2> QED BY <1>1, <1>5, <2>2, <2>3, <2>4, <2>5 DEF Batches
<1>13. OneBatch'
  BY <1>1, <1>2, <1>3 DEF OneBatch, Quiet
<1> QED BY <1>6, <1>7, <1>8, <1>9, <1>10, <1>11, <1>12, <1>13 DEF IInv

\* c.L.Lock() of a caller.
LEMMA LockStep ==
    ASSUME IInv, NEW g \in Goroutine, Lock(g)
    PROVE  IInv'
<1>1. TypeOK /\ NoSpuriousWakeup /\ Calls /\ Batches /\ "held" \in PC
  BY DEF IInv, PC
<1>2. TypeOK'
  BY <1>1, Moves DEF TypeOK, Lock, L!Acquire, shared, locals, history
<1>3. Quiet(g, "held")
  BY <1>1 DEF Lock, Quiet, shared, locals, history, NoSpuriousWakeup, Calls, Batches
<1> QED BY <1>1, <1>2, <1>3, QuietStep

\* c.L.Unlock() of a caller.
LEMMA UnlockStep ==
    ASSUME IInv, NEW g \in Goroutine, Unlock(g)
    PROVE  IInv'
<1>1. TypeOK /\ NoSpuriousWakeup /\ Calls /\ Batches /\ "idle" \in PC
  BY DEF IInv, PC
<1>2. TypeOK'
  BY <1>1, Moves DEF TypeOK, Unlock, L!Release, shared, locals, history
<1>3. Quiet(g, "idle")
  BY <1>1 DEF Unlock, Quiet, shared, locals, history, NoSpuriousWakeup, Calls, Batches
<1> QED BY <1>1, <1>2, <1>3, QuietStep

\* c.L.Unlock() in Wait.
LEMMA WaitUnlockStep ==
    ASSUME IInv, NEW g \in Goroutine, WaitUnlock(g)
    PROVE  IInv'
<1>1. TypeOK /\ NoSpuriousWakeup /\ Calls /\ Batches /\ "enter" \in PC
  BY DEF IInv, PC
<1>2. TypeOK'
  BY <1>1, Moves DEF TypeOK, WaitUnlock, L!Release, shared, locals, history
<1>3. Quiet(g, "enter")
  BY <1>1 DEF WaitUnlock, Quiet, shared, locals, history, NoSpuriousWakeup, Calls, Batches
<1> QED BY <1>1, <1>2, <1>3, QuietStep

\* c.L.Lock() in Wait.
LEMMA WaitRelockStep ==
    ASSUME IInv, NEW g \in Goroutine, WaitRelock(g)
    PROVE  IInv'
<1>1. TypeOK /\ NoSpuriousWakeup /\ Calls /\ Batches /\ "held" \in PC
  BY DEF IInv, PC
<1>2. /\ ticket' \in [Goroutine -> Uint]
      /\ \A h \in Goroutine : ticket'[h] = ticket[h] \/ h = g
  BY <1>1, HalfIs DEF TypeOK, WaitRelock, Uint
<1>3. TypeOK'
  BY <1>1, <1>2, Moves DEF TypeOK, WaitRelock, L!Acquire, shared, history
<1>4. Quiet(g, "held")
  BY <1>1, <1>2 DEF WaitRelock, Quiet, shared, history, NoSpuriousWakeup, Calls, Batches
<1> QED BY <1>1, <1>3, <1>4, QuietStep

\* Signal or Broadcast is called.
LEMMA CallStep ==
    ASSUME IInv, NEW g \in Goroutine, NEW l \in {"one", "all"}, Call(g, l)
    PROVE  IInv'
<1>1. TypeOK /\ NoSpuriousWakeup /\ Calls /\ Batches /\ l \in PC
  BY DEF IInv, PC
<1>2. /\ before' \in [Goroutine -> SUBSET Goroutine] /\ before'[g] = waiting
      /\ \A h \in Goroutine : h # g => before'[h] = before[h]
  BY <1>1 DEF TypeOK, Call, NoteCall
<1>3. TypeOK'
  BY <1>1, <1>2, Moves DEF TypeOK, Call, NoteCall, shared, locals
<1>4. Quiet(g, l)
  BY <1>1, <1>2 DEF Call, NoteCall, Quiet, shared, locals, NoSpuriousWakeup, Calls, Batches
<1> QED BY <1>1, <1>3, <1>4, QuietStep

\* The fast path loads l.wait: everybody who waits has an older ticket.
LEMMA LoadWaitStep ==
    ASSUME IInv, NEW g \in Goroutine, LoadWait(g)
    PROVE  IInv'
<1>1. TypeOK /\ Tickets /\ NoSpuriousWakeup /\ Calls /\ Batches
  BY DEF IInv
<1>2. PICK l \in {"one2", "all2"} : l = IF pc[g] = "one" THEN "one2" ELSE "all2"
  OBVIOUS
<1>3. l \in PC /\ Goto(g, l)
  BY <1>2 DEF PC, LoadWait
<1>4. /\ w' \in [Goroutine -> Uint] /\ w'[g] = wait
      /\ \A h \in Goroutine : h # g => w'[h] = w[h]
  BY <1>1 DEF TypeOK, LoadWait
<1>5. TypeOK'
  BY <1>1, <1>3, <1>4, Moves DEF TypeOK, LoadWait, shared, history
<1>6. \A h \in before[g] : Diff(wait, w'[g]) < Age(h)
  <2>1. wait \in Uint
    BY <1>1 DEF TypeOK
  <2>2. Diff(wait, w'[g]) = 0
    BY <1>4, <2>1, DiffSame
  <2> QED BY <1>1, <2>2, AgesAreCounters DEF Calls, Tickets
<1>7. Quiet(g, l)
  BY <1>1, <1>2, <1>3, <1>4, <1>6 DEF LoadWait, Quiet, shared, history, NoSpuriousWakeup, Calls, Batches
<1> QED BY <1>3, <1>5, <1>7, QuietStep

\* The fast path loads l.notify.
LEMMA LoadNotifyStep ==
    ASSUME IInv, NEW g \in Goroutine, LoadNotify(g)
    PROVE  IInv'
<1>1. TypeOK /\ NoSpuriousWakeup /\ Calls /\ Batches
  BY DEF IInv
<1>2. PICK l \in {"idle", "held", "onelock", "alllock"} :
        /\ Goto(g, l)
        /\ (UNCHANGED history \/ NoteReturn(g))
  BY OutsideIs DEF LoadNotify
<1>3. /\ before' \in [Goroutine -> SUBSET Goroutine] /\ before'[g] \subseteq before[g]
      /\ \A h \in Goroutine : h # g => before'[h] = before[h]
      /\ waiting' = waiting
  BY <1>1, <1>2 DEF TypeOK, NoteReturn, history
<1>4. l \in PC
  BY DEF PC
<1>5. /\ w' \in [Goroutine -> Uint]
      /\ \A h \in Goroutine : h # g => w'[h] = w[h]
  BY <1>1, HalfIs DEF TypeOK, LoadNotify, Uint
<1>6. TypeOK'
  BY <1>1, <1>2, <1>3, <1>4, <1>5, Moves DEF TypeOK, LoadNotify, shared
<1>7. Quiet(g, l)
  BY <1>1, <1>2, <1>3, <1>5 DEF LoadNotify, Quiet, shared, NoSpuriousWakeup, Calls, Batches
<1> QED BY <1>4, <1>6, <1>7, QuietStep

\* Signal or Broadcast returns when it has readied its batch.
LEMMA ReturnStep ==
    ASSUME IInv, NEW g \in Goroutine, Return(g)
    PROVE  IInv'
<1>1. TypeOK /\ NoSpuriousWakeup /\ Calls /\ Batches
  BY DEF IInv
<1>2. PICK l \in {"idle", "held"} : l = Outside(g) /\ Goto(g, l)
  BY OutsideIs DEF Return
<1>3. /\ before' \in [Goroutine -> SUBSET Goroutine] /\ before'[g] = {}
      /\ \A h \in Goroutine : h # g => before'[h] = before[h]
      /\ waiting' = waiting
  BY <1>1 DEF TypeOK, Return, NoteReturn
<1>4. l \in PC
  BY DEF PC
<1>5. TypeOK'
  BY <1>1, <1>2, <1>3, <1>4, Moves DEF TypeOK, Return, shared, locals
<1>6. Quiet(g, l)
  BY <1>1, <1>2, <1>3 DEF Return, Quiet, shared, locals, NoSpuriousWakeup, Calls
<1> QED BY <1>4, <1>5, <1>6, QuietStep

-----------------------------------------------------------------------------
(* Wait *)

\* less tells who is notified from who is not, although the counters wrap.
LEMMA LessIsNotified ==
    ASSUME IInv, NEW g \in Goroutine, pc[g] = "enter"
    PROVE  less(ticket[g], notify) <=> g \notin waiting
<1>1. TypeOK /\ Tickets /\ Window
  BY DEF IInv
<1>2. wait \in Uint /\ notify \in Uint /\ ticket[g] \in Uint
  BY <1>1 DEF TypeOK
<1>3. /\ Age(g) \in 1..Half /\ (Age(g) <= Left => g \in waiting)
      /\ (g \in waiting => Age(g) <= Left)
  BY <1>1 DEF Window, Tickets
<1>4. Left \in Nat /\ Left < Half /\ Half \in Nat /\ Width = 2 * Half
  BY <1>1, AgesAreCounters, TicketsCount, HalfIs
<1>5. Diff(ticket[g], notify) = IF Age(g) <= Left THEN Left - Age(g) ELSE Width + Left - Age(g)
  BY <1>2, DiffOlder DEF Age, Left
<1>6. Diff(ticket[g], notify) >= Half <=> g \notin waiting
  BY <1>3, <1>4, <1>5
<1> QED BY <1>6 DEF less, Diff, Half

\* notifyListWait: who has been notified goes on, the others park.
LEMMA NotifyListWaitStep ==
    ASSUME IInv, NEW g \in Goroutine, NotifyListWait(g)
    PROVE  IInv'
<1>1. TypeOK /\ Tickets /\ Window /\ NoSpuriousWakeup /\ Calls /\ Locked /\ Listed /\ Batches /\ OneBatch
  BY DEF IInv
<1>2. less(ticket[g], notify) <=> g \notin waiting
  BY LessIsNotified DEF NotifyListWait
<1>3. CASE less(ticket[g], notify) /\ Goto(g, "relock") /\ UNCHANGED list
  <2>1. "relock" \in PC
    BY DEF PC
  <2>2. TypeOK'
    BY <1>1, <1>3, <2>1, Moves DEF TypeOK, NotifyListWait, locals, history
  <2>3. Quiet(g, "relock")
    BY <1>1, <1>2, <1>3 DEF NotifyListWait, Quiet, locals, history, NoSpuriousWakeup, Calls, Batches
  <2> QED BY <2>1, <2>2, <2>3, QuietStep
<1>4. CASE ~less(ticket[g], notify) /\ list' = Append(list, g) /\ Goto(g, "parked")
  <2>1. g \in waiting /\ pc[g] = "enter" /\ "parked" \in PC
    BY <1>2, <1>4 DEF NotifyListWait, PC
  <2>2. list \in Seq(Goroutine) /\ IsInjective(list) /\ g \notin ToSet(list)
    BY <1>1, <2>1 DEF TypeOK, Listed
  <2>3. list' \in Seq(Goroutine) /\ ToSet(list') = ToSet(list) \cup {g} /\ IsInjective(list')
    BY <1>4, <2>2, AppendAdds
  <2>4. pc' \in [Goroutine -> PC] /\ pc'[g] = "parked" /\ \A h \in Goroutine : h # g => pc'[h] = pc[h]
    BY <1>1, <1>4, <2>1, Moves
  <2>5. /\ wait' = wait /\ notify' = notify /\ lock' = lock /\ lock = Nil /\ batch' = batch
        /\ ticket' = ticket /\ w' = w /\ waiting' = waiting /\ before' = before /\ owner' = owner
    BY DEF NotifyListWait, locals, history
  <2>6. TypeOK'
    BY <1>1, <2>3, <2>4, <2>5 DEF TypeOK
  <2>7. Left' = Left /\ \A h \in Goroutine : Age(h)' = Age(h) /\ Since(h)' = Since(h)
    BY <2>5 DEF Left, Age, Since
  <2>8. \A h \in Goroutine : ToSet(batch[h]) \subseteq Goroutine /\ g \notin ToSet(batch[h])
    BY <1>1, <2>1, MembersIn DEF TypeOK, Batches
  <2>9. ToSet(list) \subseteq Goroutine /\ waiting \subseteq Goroutine
    BY <1>1, MembersIn DEF TypeOK
  <2>10. Tickets'
    BY <1>1, <2>5, <2>7, <2>9 DEF Tickets
  <2>11. Window'
    BY <1>1, <2>4, <2>5, <2>7 DEF Window
  <2>12. NoSpuriousWakeup'
    BY <1>1, <2>4, <2>5, <2>9 DEF NoSpuriousWakeup
  <2>13. Calls'
    BY <1>1, <2>4, <2>5, <2>7, <2>9 DEF Calls
  <2>14. Locked'
    BY <1>1, <2>1, <2>4, <2>5, <2>7 DEF Locked
  <2>15. Listed'
    BY <1>1, <2>1, <2>3, <2>4, <2>5, <2>9 DEF Listed
  <2>16. Batches'
    <3> SUFFICES ASSUME NEW h \in Goroutine
                 PROVE  /\ IsInjective(batch[h])
                        /\ pc'[h] \notin {"allstore", "oneready", "allready"} => batch[h] = <<>>
                        /\ \A x \in ToSet(batch[h]) :
                              /\ pc'[x] = "parked" /\ x \notin ToSet(list')
                              /\ pc'[h] = "allstore" => x \in waiting /\ Since(h)' < Age(x)'
                              /\ pc'[h] # "allstore" => x \notin waiting
      BY <2>5 DEF Batches
    <3>1. \A x \in ToSet(batch[h]) : x # g /\ pc'[x] = "parked" /\ x \notin ToSet(list')
      BY <1>1, <2>3, <2>4, <2>8 DEF Batches
    <3> QED BY <1>1, <2>1, <2>4, <2>7, <2>8, <3>1 DEF Batches
  <2>17. OneBatch'
    BY <1>1, <2>3, <2>4, <2>5 DEF OneBatch
  <2> QED BY <2>6, <2>10, <2>11, <2>12, <2>13, <2>14, <2>15, <2>16, <2>17 DEF IInv
<1> QED BY <1>3, <1>4 DEF NotifyListWait

\* notifyListAdd: everybody gets one ticket older.
LEMMA WaitStepKeeps ==
    ASSUME IInv, NEW g \in Goroutine, InWindow, Wait(g)
    PROVE  IInv'
<1>1. TypeOK /\ Tickets /\ Window /\ NoSpuriousWakeup /\ Calls /\ Locked /\ Listed /\ Batches /\ OneBatch
  BY DEF IInv
<1>2. pc[g] = "held" /\ g \notin waiting /\ "unlock" \in PC
  BY <1>1 DEF Wait, NoSpuriousWakeup, PC
<1>3. pc' \in [Goroutine -> PC] /\ pc'[g] = "unlock" /\ \A h \in Goroutine : h # g => pc'[h] = pc[h]
  BY <1>1, <1>2, Moves DEF Wait
<1>4. /\ wait \in Uint /\ notify \in Uint /\ wait' = Inc(wait) /\ wait' \in Uint
      /\ \A h \in Goroutine : ticket[h] \in Uint /\ w[h] \in Uint
  BY <1>1, IncIs DEF TypeOK, Wait
<1>5. /\ ticket' \in [Goroutine -> Uint] /\ ticket'[g] = wait
      /\ \A h \in Goroutine : h # g => ticket'[h] = ticket[h]
  BY <1>1 DEF TypeOK, Wait
<1>6. /\ notify' = notify /\ lock' = lock /\ list' = list /\ batch' = batch /\ w' = w
      /\ waiting' = waiting \cup {g} /\ before' = before /\ owner' = owner
      /\ waiting \in SUBSET Goroutine /\ ToSet(list) \subseteq Goroutine
      /\ \A h \in Goroutine : ToSet(batch[h]) \subseteq Goroutine /\ before[h] \subseteq waiting
  BY <1>1, MembersIn DEF TypeOK, Wait, Calls
<1>7. TypeOK'
  BY <1>1, <1>3, <1>4, <1>5, <1>6 DEF TypeOK
<1>8. Left \in Nat /\ Left < Half /\ Half \in Nat /\ Width = 2 * Half
  BY <1>1, AgesAreCounters, TicketsCount, HalfIs
<1>9. /\ \A h \in Goroutine : Age(h) \in Nat /\ Since(h) \in Nat
      /\ \A h \in waiting : Age(h) \in 1..Left
  BY <1>1, AgesAreCounters DEF Tickets
<1>10. Left' = Left + 1
  <2>1. Diff(wait, notify) # Width - 1
    BY <1>8 DEF Left
  <2> QED BY <1>4, <1>6, <2>1, DiffInc DEF Left
<1>11. Age(g)' = 1
  <2>1. Diff(wait, wait) = 0 /\ 0 # Width - 1
    BY <1>4, <1>8, DiffSame
  <2>2. Diff(Inc(wait), wait) = 0 + 1
    BY <1>4, <2>1, DiffInc
  <2> QED BY <1>4, <1>5, <2>2 DEF Age
<1>12. ASSUME NEW h \in Goroutine, h # g, Age(h) < Half
       PROVE  Age(h)' = Age(h) + 1
  <2>1. Diff(wait, ticket[h]) # Width - 1
    BY <1>8, <1>9, <1>12 DEF Age
  <2>2. Diff(Inc(wait), ticket[h]) = Diff(wait, ticket[h]) + 1
    BY <1>4, <2>1, DiffInc
  <2> QED BY <1>4, <1>5, <1>12, <2>2 DEF Age
<1>13. ASSUME NEW h \in Goroutine, Since(h) < Half
       PROVE  Since(h)' = Since(h) + 1
  <2>1. Diff(wait, w[h]) # Width - 1
    BY <1>8, <1>9, <1>13 DEF Since
  <2>2. Diff(Inc(wait), w[h]) = Diff(wait, w[h]) + 1
    BY <1>4, <2>1, DiffInc
  <2> QED BY <1>4, <1>6, <2>2 DEF Since
<1>14. \A h \in waiting : h \in Goroutine /\ h # g /\ Age(h)' = Age(h) + 1
  BY <1>2, <1>6, <1>8, <1>9, <1>12
<1>15. Tickets'
  <2>1. \A h \in waiting' : Age(h)' \in 1..Left'
    BY <1>6, <1>8, <1>9, <1>10, <1>11, <1>14
  <2>2. ASSUME NEW h \in waiting', NEW k \in waiting', ticket'[h] = ticket'[k]
        PROVE  h = k
    <3>1. Age(h)' = Age(k)'
      BY <2>2 DEF Age
    <3>2. CASE h = g \/ k = g
      BY <1>6, <1>9, <1>11, <1>14, <3>1, <3>2
    <3>3. CASE h # g /\ k # g
      BY <1>1, <1>5, <1>6, <1>14, <2>2, <3>3 DEF Tickets
    <3> QED BY <3>2, <3>3
  <2>3. ASSUME NEW a \in 1..Left'
        PROVE  \E h \in waiting' : Age(h)' = a
    <3>1. CASE a = 1
      BY <1>6, <1>11, <3>1
    <3>2. CASE a # 1
      <4>1. a - 1 \in 1..Left
        BY <1>8, <1>10, <3>2
      <4>2. PICK h \in waiting : Age(h) = a - 1
        BY <1>1, <4>1 DEF Tickets
      <4>3. Age(h)' = a /\ h \in waiting'
        BY <1>6, <1>8, <1>14, <4>2, <1>10
      <4> QED BY <4>3
    <3> QED BY <3>1, <3>2
  <2> QED BY <2>1, <2>2, <2>3 DEF Tickets
<1>16. Window'
  <2> SUFFICES ASSUME NEW h \in Goroutine, pc'[h] \in {"unlock", "enter"}
               PROVE  Age(h)' \in 1..Half /\ (Age(h)' <= Left' => h \in waiting')
    BY DEF Window
  <2>1. CASE h = g
    BY <1>6, <1>8, <1>11, <2>1
  <2>2. CASE h # g
    <3>1. Age(h) < Half /\ Age(h) \in 1..Half /\ (Age(h) <= Left => h \in waiting)
      BY <1>1, <1>3, <2>2 DEF Window, InWindow, Age, Diff, Half
    <3>2. Age(h)' = Age(h) + 1
      BY <1>12, <2>2, <3>1
    <3> QED BY <1>6, <1>8, <1>9, <1>10, <3>1, <3>2
  <2> QED BY <2>1, <2>2
<1>17. NoSpuriousWakeup'
  BY <1>1, <1>3, <1>6 DEF NoSpuriousWakeup
<1>18. ASSUME NEW h \in Goroutine, NEW x \in waiting, Since(h) < Age(x)
       PROVE  Since(h)' < Age(x)'
  <2>1. Age(x) < Half /\ Since(h) < Half
    BY <1>8, <1>9, <1>6, <1>18
  <2>2. Age(x)' = Age(x) + 1 /\ Since(h)' = Since(h) + 1
    BY <1>13, <1>14, <2>1
  <2> QED BY <1>6, <1>9, <1>18, <2>2
<1>19. Calls'
  <2> SUFFICES ASSUME NEW h \in Goroutine
               PROVE  /\ before[h] \subseteq waiting'
                      /\ pc'[h] \in {"one2", "all2", "allstore"} =>
                            \A x \in before[h] : Since(h)' < Age(x)'
                      /\ pc'[h] = "allready" => before[h] = {}
    BY <1>6 DEF Calls
  <2>1. pc'[h] \in {"one2", "all2", "allstore", "allready"} => pc'[h] = pc[h]
    BY <1>3
  <2> QED BY <1>1, <1>6, <1>18, <2>1 DEF Calls
<1>20. Locked'
  <2>1. \A h \in Goroutine : pc'[h] = "allstore" <=> pc[h] = "allstore"
    BY <1>2, <1>3
  <2>2. ASSUME NEW h \in Goroutine, pc'[h] = "allstore"
        PROVE  Since(h)' <= Left'
    <3>1. Since(h) <= Left
      BY <1>1, <2>1, <2>2 DEF Locked
    <3>2. Since(h)' = Since(h) + 1
      BY <1>8, <1>9, <1>13, <3>1
    <3> QED BY <1>8, <1>9, <1>10, <3>1, <3>2
  <2> QED BY <1>1, <1>6, <2>1, <2>2 DEF Locked
<1>21. Listed'
  BY <1>1, <1>2, <1>3, <1>6 DEF Listed
<1>22. Batches'
  <2> SUFFICES ASSUME NEW h \in Goroutine
               PROVE  /\ IsInjective(batch[h])
                      /\ pc'[h] \notin {"allstore", "oneready", "allready"} => batch[h] = <<>>
                      /\ \A x \in ToSet(batch[h]) :
                            /\ pc'[x] = "parked" /\ x \notin ToSet(list)
                            /\ pc'[h] = "allstore" => x \in waiting' /\ Since(h)' < Age(x)'
                            /\ pc'[h] # "allstore" => x \notin waiting'
    BY <1>6 DEF Batches
  <2>1. \A x \in ToSet(batch[h]) : x # g /\ pc'[x] = "parked" /\ x \notin ToSet(list)
    BY <1>1, <1>2, <1>3, <1>6 DEF Batches
  <2>2. pc'[h] = "allstore" <=> pc[h] = "allstore"
    BY <1>2, <1>3
  <2>3. pc'[h] \notin {"allstore", "oneready", "allready"} => batch[h] = <<>>
    BY <1>1, <1>2, <1>3 DEF Batches
  <2>4. ASSUME NEW x \in ToSet(batch[h]), pc'[h] = "allstore"
        PROVE  x \in waiting' /\ Since(h)' < Age(x)'
    BY <1>1, <1>6, <1>18, <2>2, <2>4 DEF Batches
  <2>5. ASSUME NEW x \in ToSet(batch[h]), pc'[h] # "allstore"
        PROVE  x \notin waiting'
    BY <1>1, <1>6, <2>1, <2>2, <2>5 DEF Batches
  <2> QED BY <1>1, <2>1, <2>3, <2>4, <2>5 DEF Batches
<1>23. OneBatch'
  BY <1>1, <1>3, <1>6 DEF OneBatch
<1> QED BY <1>7, <1>15, <1>16, <1>17, <1>19, <1>20, <1>21, <1>22, <1>23 DEF IInv

-----------------------------------------------------------------------------
(* Signal and Broadcast *)

\* What a step that moves notify up keeps, whatever it does to the list.
LEMMA AdvancedKeeps ==
    ASSUME IInv, NEW n \in Uint, Advanced(n), NEW g \in Goroutine, NEW l \in {"oneready", "allready"},
           pc[g] \in {"onelock", "allstore"}, Goto(g, l), wait' = wait, ticket' = ticket,
           \A h \in Goroutine : h # g => w'[h] = w[h],
           l = "allready" => before'[g] = {}, Diff(wait, n) <= Left
    PROVE  Window' /\ NoSpuriousWakeup' /\ Calls'
<1>1. TypeOK /\ Tickets /\ Window /\ NoSpuriousWakeup /\ Calls
  BY DEF IInv
<1>2. l \in PC
  BY DEF PC
<1>3. pc' \in [Goroutine -> PC] /\ pc'[g] = l /\ \A h \in Goroutine : h # g => pc'[h] = pc[h]
  BY <1>1, <1>2, Moves
<1>4. /\ waiting' = {x \in waiting : Age(x) <= Diff(wait, n)}
      /\ \A h \in Goroutine : before'[h] = {x \in before[h] : Age(x) <= Diff(wait, n)}
      /\ \A h \in Goroutine : Age(h)' = Age(h)
      /\ Left' = Diff(wait, n)
  BY DEF Advanced
<1>5. \A h \in Goroutine : h # g => Since(h)' = Since(h)
  BY DEF Since
<1>6. /\ \A h \in Goroutine : Age(h) \in Nat
      /\ Left \in Nat /\ Diff(wait, n) \in Int /\ waiting \subseteq Goroutine
  <2>1. wait \in Uint /\ waiting \subseteq Goroutine /\ \A x \in Uint : x \in Int
    BY <1>1, HalfIs DEF TypeOK, Uint
  <2>2. Diff(wait, n) \in Uint
    BY <2>1, DiffIs
  <2> QED BY <1>1, <2>1, <2>2, AgesAreCounters
<1>7. Window'
  <2> SUFFICES ASSUME NEW h \in Goroutine, pc'[h] \in {"unlock", "enter"}
               PROVE  Age(h)' \in 1..Half /\ (Age(h)' <= Left' => h \in waiting')
    BY DEF Window
  <2>1. Age(h) \in 1..Half /\ (Age(h) <= Left => h \in waiting)
    BY <1>1, <1>3 DEF Window
  <2> QED BY <1>4, <1>6, <2>1
<1>8. NoSpuriousWakeup'
  <2> SUFFICES ASSUME NEW h \in waiting' PROVE pc'[h] \in {"unlock", "enter", "parked"}
    BY DEF NoSpuriousWakeup
  <2>1. h \in waiting /\ h \in Goroutine
    BY <1>4, <1>6
  <2>2. pc[h] \in {"unlock", "enter", "parked"}
    BY <1>1, <2>1 DEF NoSpuriousWakeup
  <2> QED BY <1>3, <2>1, <2>2
<1>9. Calls'
  <2> SUFFICES ASSUME NEW h \in Goroutine
               PROVE  /\ before'[h] \subseteq waiting'
                      /\ pc'[h] \in {"one2", "all2", "allstore"} =>
                            \A x \in before'[h] : Since(h)' < Age(x)'
                      /\ pc'[h] = "allready" => before'[h] = {}
    BY DEF Calls
  <2>1. before[h] \subseteq waiting /\ before'[h] \subseteq before[h] /\ before'[h] \subseteq waiting'
    BY <1>1, <1>4 DEF Calls
  <2>2. ASSUME pc'[h] \in {"one2", "all2", "allstore"}, NEW x \in before'[h]
        PROVE  Since(h)' < Age(x)'
    <3>1. h # g /\ pc[h] = pc'[h] /\ x \in before[h] /\ x \in Goroutine
      BY <1>3, <1>6, <2>1, <2>2
    <3>2. Since(h) < Age(x)
      BY <1>1, <2>2, <3>1 DEF Calls
    <3> QED BY <1>4, <1>5, <3>1, <3>2
  <2>3. pc'[h] = "allready" => before'[h] = {}
    <3>1. CASE h = g
      BY <1>3, <3>1
    <3>2. CASE h # g
      BY <1>1, <1>3, <2>1, <3>2 DEF Calls
    <3> QED BY <3>1, <3>2
  <2> QED BY <2>1, <2>2, <2>3
<1> QED BY <1>7, <1>8, <1>9

\* The list and the batch of g after the scan.
Scanned(g) ==
    /\ list' \in Seq(Goroutine) /\ IsInjective(list')
    /\ batch' \in [Goroutine -> Seq(Goroutine)] /\ IsInjective(batch'[g])
    /\ \A h \in Goroutine : h # g => batch'[h] = batch[h]
    /\ ToSet(batch'[g]) = {x \in ToSet(list) : ticket[x] = notify}
    /\ ToSet(list') = {x \in ToSet(list) : ticket[x] # notify}

\* The scan of notifyListNotifyOne moves the goroutine with ticket l.notify, if it
\* is on the list, to the batch.
LEMMA ScanIs ==
    ASSUME IInv, NEW g \in Goroutine, pc[g] = "onelock", Scan(g, notify)
    PROVE  Scanned(g)
<1>1. TypeOK /\ Tickets /\ Listed /\ Batches
  BY DEF IInv
<1>2. /\ list \in Seq(Goroutine) /\ IsInjective(list) /\ batch \in [Goroutine -> Seq(Goroutine)]
      /\ batch[g] = <<>>
  BY <1>1 DEF TypeOK, Listed, Batches
<1>3. \A i \in DOMAIN list : list[i] \in ToSet(list) /\ list[i] \in Goroutine
  BY <1>2 DEF ToSet
<1>4. CASE \E k \in DOMAIN list :
             /\ Finds(k, notify)
             /\ batch' = [batch EXCEPT ![g] = <<list[k]>>]
             /\ list' = RemoveAt(list, k)
  <2>1. PICK k \in DOMAIN list :
             /\ Finds(k, notify)
             /\ batch' = [batch EXCEPT ![g] = <<list[k]>>]
             /\ list' = RemoveAt(list, k)
    BY <1>4
  <2>2. PICK x \in Goroutine : x = list[k] /\ x \in ToSet(list) /\ ticket[x] = notify
    BY <1>3, <2>1 DEF Finds
  <2>3. list' \in Seq(Goroutine) /\ IsInjective(list') /\ ToSet(list') = ToSet(list) \ {x}
    BY <1>2, <2>1, <2>2, RemoveFacts
  <2>4. <<x>> \in Seq(Goroutine) /\ ToSet(<<x>>) = {x} /\ IsInjective(<<x>>)
    BY ShortQueues
  <2>5. /\ batch' \in [Goroutine -> Seq(Goroutine)] /\ batch'[g] = <<x>>
        /\ \A h \in Goroutine : h # g => batch'[h] = batch[h]
    BY <1>2, <2>1, <2>2, <2>4
  <2>6. \A y \in ToSet(list) : ticket[y] = notify => y = x
    BY <1>1, <2>2 DEF Listed, Tickets
  <2> QED BY <2>2, <2>3, <2>4, <2>5, <2>6, SMTT(30) DEF Scanned
<1>5. CASE (\A k \in DOMAIN list : ticket[list[k]] # notify) /\ UNCHANGED <<batch, list>>
  <2>1. \A x \in ToSet(list) : ticket[x] # notify
    BY <1>5 DEF ToSet
  <2>2. ToSet(batch[g]) = {} /\ IsInjective(batch[g])
    BY <1>2, ShortQueues
  <2> QED BY <1>2, <1>5, <2>1, <2>2 DEF Scanned
<1> QED BY <1>4, <1>5 DEF Scan

\* notifyListNotifyOne: the oldest waiter is notified, and taken off the list.
LEMMA NotifyOneStep ==
    ASSUME IInv, NEW g \in Goroutine, NotifyOne(g)
    PROVE  IInv'
<1>1. TypeOK /\ Tickets /\ Window /\ NoSpuriousWakeup /\ Calls /\ Locked /\ Listed /\ Batches /\ OneBatch
  BY DEF IInv
<1>2. /\ pc[g] = "onelock" /\ lock = Nil /\ wait' = wait /\ lock' = lock
      /\ ticket' = ticket /\ w' = w /\ owner' = owner
  BY DEF NotifyOne
<1>3. CASE notify = wait /\ Goto(g, Outside(g)) /\ NoteReturn(g) /\ UNCHANGED <<notify, list, batch>>
  <2>1. PICK l \in {"idle", "held"} : l = Outside(g) /\ Goto(g, l) /\ l \in PC
    BY <1>3, OutsideIs
  <2>2. /\ before' \in [Goroutine -> SUBSET Goroutine] /\ before'[g] = {}
        /\ \A h \in Goroutine : h # g => before'[h] = before[h]
        /\ waiting' = waiting
    BY <1>1, <1>3 DEF TypeOK, NoteReturn
  <2>3. TypeOK'
    BY <1>1, <1>2, <1>3, <2>1, <2>2, Moves DEF TypeOK
  <2>4. Quiet(g, l)
    BY <1>1, <1>2, <1>3, <2>1, <2>2 DEF Quiet, NoSpuriousWakeup, Batches
  <2> QED BY <2>1, <2>3, <2>4, QuietStep
<1>4. CASE /\ notify # wait
           /\ notify' = Inc(notify)
           /\ NoteNotify
           /\ Scan(g, notify)
           /\ Goto(g, "oneready")
  <2>1. wait \in Uint /\ notify \in Uint /\ notify' \in Uint
    BY <1>1, <1>4, IncIs DEF TypeOK
  <2>2. PICK n \in Uint : n = notify'
    BY <2>1
  <2>3. Diff(wait, n) = Left - 1 /\ Left \in Nat /\ Left >= 1
    BY <1>1, <1>4, <2>1, <2>2, DiffUp, AgesAreCounters DEF Left
  <2>4. Advanced(n)
    BY <1>1, <1>2, <1>4, <2>2, <2>3, Advances
  <2>5. Scanned(g)
    BY <1>2, <1>4, ScanIs
  <2>6. Window' /\ NoSpuriousWakeup' /\ Calls'
    BY <1>2, <1>4, <2>3, <2>4, AdvancedKeeps
  <2>7. "oneready" \in PC
    BY DEF PC
  <2>8. pc' \in [Goroutine -> PC] /\ pc'[g] = "oneready" /\ \A h \in Goroutine : h # g => pc'[h] = pc[h]
    BY <1>1, <1>4, <2>7, Moves
  <2>9. TypeOK'
    BY <1>1, <1>2, <2>1, <2>4, <2>5, <2>8 DEF TypeOK, Advanced, Scanned
  <2>10. Tickets' /\ waiting' \subseteq waiting /\ waiting \subseteq Goroutine
    BY <1>1, <2>4 DEF Advanced, TypeOK
  <2>11. \A x \in waiting : x \in waiting' <=> ticket[x] # notify
    <3> SUFFICES ASSUME NEW x \in waiting PROVE x \in waiting' <=> ticket[x] # notify
      OBVIOUS
    <3>1. x \in waiting' <=> Age(x) <= Left - 1
      BY <2>3, <2>4 DEF Advanced
    <3>2. Age(x) \in 1..Left
      BY <1>1 DEF Tickets
    <3>3. Age(x) = Left <=> ticket[x] = notify
      <4>1. ticket[x] \in Uint
        BY <1>1 DEF TypeOK
      <4> QED BY <2>1, <4>1, DiffSame DEF Age, Left
    <3> QED BY <2>3, <3>1, <3>2, <3>3
  <2>12. /\ ToSet(list) \subseteq Goroutine /\ \A h \in Goroutine : ToSet(batch[h]) \subseteq Goroutine
         /\ ToSet(list') \subseteq ToSet(list) /\ ToSet(batch'[g]) \subseteq ToSet(list)
    BY <1>1, <2>5, MembersIn DEF TypeOK, Scanned
  <2>13. \A h \in Goroutine : pc[h] # "allstore" /\ pc'[h] # "allstore"
    BY <1>1, <1>2, <2>8, CondAssumption DEF Locked
  <2>14. Locked'
    BY <1>1, <1>2, <2>13, CondAssumption DEF Locked
  <2>15. Listed'
    <3>1. IsInjective(list')
      BY <2>5 DEF Scanned
    <3>2. ASSUME NEW x \in ToSet(list') PROVE pc'[x] = "parked" /\ x \in waiting'
      <4>1. x \in ToSet(list) /\ ticket[x] # notify /\ x \in Goroutine
        BY <2>5, <2>12 DEF Scanned
      <4>2. pc[x] = "parked" /\ x \in waiting
        BY <1>1, <4>1 DEF Listed
      <4> QED BY <1>2, <2>8, <2>11, <4>1, <4>2
    <3> QED BY <3>1, <3>2 DEF Listed
  <2>16. Batches'
    <3> SUFFICES ASSUME NEW h \in Goroutine
                 PROVE  /\ IsInjective(batch'[h])
                        /\ pc'[h] \notin {"allstore", "oneready", "allready"} => batch'[h] = <<>>
                        /\ \A x \in ToSet(batch'[h]) :
                              /\ pc'[x] = "parked" /\ x \notin ToSet(list') /\ x \notin waiting'
      BY <2>13 DEF Batches
    <3>1. CASE h = g
      <4>1. IsInjective(batch'[g])
        BY <2>5 DEF Scanned
      <4>2. ASSUME NEW x \in ToSet(batch'[g])
            PROVE  pc'[x] = "parked" /\ x \notin ToSet(list') /\ x \notin waiting'
        <5>1. x \in ToSet(list) /\ ticket[x] = notify /\ x \in Goroutine
          BY <2>5, <2>12 DEF Scanned
        <5>2. pc[x] = "parked" /\ x \in waiting
          BY <1>1, <5>1 DEF Listed
        <5>3. x \notin ToSet(list')
          BY <2>5, <5>1 DEF Scanned
        <5> QED BY <1>2, <2>8, <2>11, <5>1, <5>2, <5>3
      <4> QED BY <2>8, <3>1, <4>1, <4>2
    <3>2. CASE h # g
      <4>1. batch'[h] = batch[h] /\ pc'[h] = pc[h]
        BY <2>5, <2>8, <3>2 DEF Scanned
      <4>2. ASSUME NEW x \in ToSet(batch[h])
            PROVE  pc'[x] = "parked" /\ x \notin ToSet(list') /\ x \notin waiting'
        <5>1. x \in Goroutine /\ pc[x] = "parked" /\ x \notin ToSet(list) /\ x \notin waiting
          BY <1>1, <2>12, <2>13 DEF Batches
        <5> QED BY <1>2, <2>8, <2>10, <2>12, <5>1
      <4> QED BY <1>1, <4>1, <4>2 DEF Batches
    <3> QED BY <3>1, <3>2
  <2>17. OneBatch'
    <3>1. \A h \in Goroutine : \A x \in ToSet(batch[h]) : x \notin ToSet(batch'[g])
      BY <1>1, <2>12 DEF Batches
    <3>2. ASSUME NEW h \in Goroutine, NEW k \in Goroutine, NEW x \in ToSet(batch'[h]), x \in ToSet(batch'[k])
          PROVE  h = k
      <4>1. /\ h # g => batch'[h] = batch[h]
            /\ k # g => batch'[k] = batch[k]
        BY <2>5 DEF Scanned
      <4> QED BY <1>1, <3>1, <3>2, <4>1 DEF OneBatch
    <3>3. ASSUME NEW h \in Goroutine, pc'[h] = "parked", h \notin ToSet(list')
          PROVE  \E k \in Goroutine : h \in ToSet(batch'[k])
      <4>1. pc[h] = "parked"
        BY <2>8, <3>3
      <4>2. CASE h \in ToSet(list)
        BY <2>5, <3>3, <4>2 DEF Scanned
      <4>3. CASE h \notin ToSet(list)
        <5>1. PICK k \in Goroutine : h \in ToSet(batch[k])
          BY <1>1, <4>1, <4>3 DEF OneBatch
        <5>2. k # g
          BY <1>1, <1>2, <5>1, ShortQueues DEF Batches
        <5> QED BY <2>5, <5>1, <5>2 DEF Scanned
      <4> QED BY <4>2, <4>3
    <3> QED BY <3>2, <3>3 DEF OneBatch
  <2> QED BY <2>6, <2>9, <2>10, <2>14, <2>15, <2>16, <2>17 DEF IInv
<1> QED BY <1>3, <1>4 DEF NotifyOne

\* notifyListNotifyAll takes the list and loads l.wait.
LEMMA NotifyAllStep ==
    ASSUME IInv, NEW g \in Goroutine, NotifyAll(g)
    PROVE  IInv'
<1>1. TypeOK /\ Tickets /\ Window /\ NoSpuriousWakeup /\ Calls /\ Locked /\ Listed /\ Batches /\ OneBatch
  BY DEF IInv
<1>2. /\ pc[g] = "alllock" /\ lock = Nil /\ lock' = g /\ list' = <<>>
      /\ wait' = wait /\ notify' = notify /\ ticket' = ticket /\ owner' = owner
      /\ waiting' = waiting /\ before' = before /\ "allstore" \in PC
  BY DEF NotifyAll, history, PC
<1>3. pc' \in [Goroutine -> PC] /\ pc'[g] = "allstore" /\ \A h \in Goroutine : h # g => pc'[h] = pc[h]
  BY <1>1, <1>2, Moves DEF NotifyAll
<1>4. /\ w' \in [Goroutine -> Uint] /\ w'[g] = wait
      /\ \A h \in Goroutine : h # g => w'[h] = w[h]
  BY <1>1 DEF TypeOK, NotifyAll
<1>5. /\ batch' \in [Goroutine -> Seq(Goroutine)] /\ batch'[g] = list
      /\ \A h \in Goroutine : h # g => batch'[h] = batch[h]
  BY <1>1 DEF TypeOK, NotifyAll
<1>6. list' \in Seq(Goroutine) /\ ToSet(list') = {} /\ IsInjective(list')
  BY <1>2, ShortQueues
<1>7. TypeOK'
  BY <1>1, <1>2, <1>3, <1>4, <1>5, <1>6 DEF TypeOK
<1>8. /\ Left' = Left /\ Left \in Nat /\ Since(g)' = 0
      /\ \A h \in Goroutine : Age(h)' = Age(h) /\ (h # g => Since(h)' = Since(h))
      /\ \A h \in waiting : h \in Goroutine /\ Age(h) \in Nat /\ Age(h) > 0
  <2>1. Diff(wait, wait) = 0
    BY <1>1, DiffSame DEF TypeOK
  <2>2. Left' = Left /\ Since(g)' = 0 /\ \A h \in Goroutine : Age(h)' = Age(h) /\ (h # g => Since(h)' = Since(h))
    BY <1>2, <1>4, <2>1 DEF Left, Since, Age
  <2> QED BY <1>1, <2>2, AgesAreCounters DEF Tickets, TypeOK
<1>9. \A h \in Goroutine : pc[h] # "allstore"
  BY <1>1, <1>2, CondAssumption DEF Locked
<1>10. /\ ToSet(list) \subseteq Goroutine
       /\ \A h \in Goroutine : ToSet(batch[h]) \subseteq Goroutine /\ before[h] \subseteq waiting
  BY <1>1, MembersIn DEF TypeOK, Calls
<1>11. Tickets'
  BY <1>1, <1>2, <1>8 DEF Tickets
<1>12. Window'
  BY <1>1, <1>2, <1>3, <1>8 DEF Window
<1>13. NoSpuriousWakeup'
  BY <1>1, <1>2, <1>3, <1>8 DEF NoSpuriousWakeup
<1>14. Calls'
  <2> SUFFICES ASSUME NEW h \in Goroutine
               PROVE  /\ before[h] \subseteq waiting
                      /\ pc'[h] \in {"one2", "all2", "allstore"} =>
                            \A x \in before[h] : Since(h)' < Age(x)'
                      /\ pc'[h] = "allready" => before[h] = {}
    BY <1>2 DEF Calls
  <2>1. CASE h = g
    BY <1>3, <1>8, <1>10, <2>1
  <2>2. CASE h # g
    BY <1>1, <1>3, <1>8, <1>10, <2>2 DEF Calls
  <2> QED BY <2>1, <2>2
<1>15. Locked'
  <2>1. \A h \in Goroutine : pc'[h] = "allstore" <=> h = g
    BY <1>3, <1>9
  <2> QED BY <1>2, <1>8, <2>1 DEF Locked
<1>16. Listed'
  BY <1>6 DEF Listed
<1>17. Batches'
  <2> SUFFICES ASSUME NEW h \in Goroutine
               PROVE  /\ IsInjective(batch'[h])
                      /\ pc'[h] \notin {"allstore", "oneready", "allready"} => batch'[h] = <<>>
                      /\ \A x \in ToSet(batch'[h]) :
                            /\ pc'[x] = "parked" /\ x \notin ToSet(list')
                            /\ pc'[h] = "allstore" => x \in waiting' /\ Since(h)' < Age(x)'
                            /\ pc'[h] # "allstore" => x \notin waiting'
    BY DEF Batches
  <2>1. CASE h = g
    <3>1. IsInjective(list)
      BY <1>1 DEF Listed
    <3>2. ASSUME NEW x \in ToSet(list)
          PROVE  /\ pc'[x] = "parked" /\ x \notin ToSet(list')
                 /\ x \in waiting' /\ Since(g)' < Age(x)'
      <4>1. pc[x] = "parked" /\ x \in waiting /\ x \in Goroutine
        BY <1>1, <1>10 DEF Listed
      <4> QED BY <1>2, <1>3, <1>6, <1>8, <4>1
    <3> QED BY <1>3, <1>5, <2>1, <3>1, <3>2
  <2>2. CASE h # g
    <3>1. batch'[h] = batch[h] /\ pc'[h] = pc[h] /\ pc[h] # "allstore"
      BY <1>3, <1>5, <1>9, <2>2
    <3>2. ASSUME NEW x \in ToSet(batch[h])
          PROVE  pc'[x] = "parked" /\ x \notin ToSet(list') /\ x \notin waiting'
      <4>1. pc[x] = "parked" /\ x \notin waiting /\ x \in Goroutine
        BY <1>1, <1>9, <1>10 DEF Batches
      <4> QED BY <1>2, <1>3, <1>6, <4>1
    <3> QED BY <1>1, <3>1, <3>2 DEF Batches
  <2> QED BY <2>1, <2>2
<1>18. OneBatch'
  <2>1. \A h \in Goroutine : \A x \in ToSet(batch[h]) : x \notin ToSet(list)
    BY <1>1 DEF Batches
  <2>2. ASSUME NEW h \in Goroutine, NEW k \in Goroutine, NEW x \in ToSet(batch'[h]), x \in ToSet(batch'[k])
        PROVE  h = k
    <3>1. /\ h # g => batch'[h] = batch[h]
          /\ k # g => batch'[k] = batch[k]
      BY <1>5
    <3> QED BY <1>1, <1>5, <2>1, <2>2, <3>1 DEF OneBatch
  <2>3. ASSUME NEW h \in Goroutine, pc'[h] = "parked"
        PROVE  \E k \in Goroutine : h \in ToSet(batch'[k])
    <3>1. pc[h] = "parked"
      BY <1>3, <2>3
    <3>2. CASE h \in ToSet(list)
      BY <1>5, <3>2
    <3>3. CASE h \notin ToSet(list)
      <4>1. PICK k \in Goroutine : h \in ToSet(batch[k])
        BY <1>1, <3>1, <3>3 DEF OneBatch
      <4>2. k # g
        BY <1>1, <1>2, <4>1, ShortQueues DEF Batches
      <4> QED BY <1>5, <4>1, <4>2
    <3> QED BY <3>2, <3>3
  <2> QED BY <2>2, <2>3 DEF OneBatch
<1> QED BY <1>7, <1>11, <1>12, <1>13, <1>14, <1>15, <1>16, <1>17, <1>18 DEF IInv

\* notifyListNotifyAll stores what it has loaded: everybody it took off the list,
\* and everybody who waited at its call, is notified by that.
LEMMA NotifyAllStoreStep ==
    ASSUME IInv, NEW g \in Goroutine, NotifyAllStore(g)
    PROVE  IInv'
<1>1. TypeOK /\ Tickets /\ Window /\ NoSpuriousWakeup /\ Calls /\ Locked /\ Listed /\ Batches /\ OneBatch
  BY DEF IInv
<1>2. /\ pc[g] = "allstore" /\ notify' = w[g] /\ lock' = Nil /\ wait' = wait /\ list' = list
      /\ ticket' = ticket /\ batch' = batch /\ owner' = owner /\ "allready" \in PC
  BY DEF NotifyAllStore, PC
<1>3. pc' \in [Goroutine -> PC] /\ pc'[g] = "allready" /\ \A h \in Goroutine : h # g => pc'[h] = pc[h]
  BY <1>1, <1>2, Moves DEF NotifyAllStore
<1>4. w' \in [Goroutine -> Uint] /\ \A h \in Goroutine : h # g => w'[h] = w[h]
  BY <1>1, HalfIs DEF TypeOK, NotifyAllStore, Uint
<1>5. /\ lock = g /\ list = <<>> /\ ToSet(list) = {}
      /\ \A h \in Goroutine : h # g => pc[h] # "allstore"
  BY <1>1, <1>2, CondAssumption, ShortQueues DEF Locked
<1>6. PICK n \in Uint : n = notify' /\ n = w[g]
  BY <1>1, <1>2 DEF TypeOK
<1>7. Diff(wait, n) = Since(g) /\ Since(g) <= Left /\ Since(g) \in Nat
  BY <1>1, <1>2, <1>6, AgesAreCounters DEF Since, Locked
<1>8. Advanced(n)
  BY <1>1, <1>2, <1>6, <1>7, Advances DEF NotifyAllStore
<1>9. /\ waiting' = {x \in waiting : Age(x) <= Since(g)} /\ waiting \subseteq Goroutine
      /\ \A h \in Goroutine : before'[h] = {x \in before[h] : Age(x) <= Since(g)}
      /\ \A h \in Goroutine : Age(h) \in Nat
  BY <1>1, <1>7, <1>8, AgesAreCounters DEF Advanced, TypeOK
<1>10. before'[g] = {}
  <2>1. \A x \in before[g] : x \in Goroutine /\ Since(g) < Age(x)
    BY <1>1, <1>2, <1>9 DEF Calls
  <2> QED BY <1>7, <1>9, <2>1
<1>11. Window' /\ NoSpuriousWakeup' /\ Calls'
  BY <1>2, <1>4, <1>7, <1>8, <1>10, AdvancedKeeps DEF NotifyAllStore
<1>12. TypeOK'
  BY <1>1, <1>2, <1>3, <1>4, <1>6, <1>8 DEF TypeOK, Advanced
<1>13. \A h \in Goroutine : pc'[h] # "allstore"
  BY <1>3, <1>5
<1>14. Tickets'
  BY <1>8 DEF Advanced
<1>15. Locked'
  BY <1>2, <1>13, CondAssumption DEF Locked
<1>16. Listed'
  BY <1>1, <1>2, <1>5 DEF Listed
<1>17. Batches'
  <2> SUFFICES ASSUME NEW h \in Goroutine
               PROVE  /\ IsInjective(batch[h])
                      /\ pc'[h] \notin {"allstore", "oneready", "allready"} => batch[h] = <<>>
                      /\ \A x \in ToSet(batch[h]) :
                            pc'[x] = "parked" /\ x \notin ToSet(list) /\ x \notin waiting'
    BY <1>2, <1>13 DEF Batches
  <2>1. ToSet(batch[h]) \subseteq Goroutine
    BY <1>1, MembersIn DEF TypeOK
  <2>2. \A x \in ToSet(batch[h]) : pc'[x] = "parked" /\ x \notin ToSet(list)
    BY <1>1, <1>2, <1>3, <2>1 DEF Batches
  <2>3. CASE h = g
    <3>1. \A x \in ToSet(batch[g]) : x \in Goroutine /\ Since(g) < Age(x)
      BY <1>1, <1>2, <2>1, <2>3 DEF Batches
    <3>2. \A x \in ToSet(batch[g]) : x \notin waiting'
      BY <1>7, <1>9, <3>1
    <3> QED BY <1>1, <1>3, <2>2, <2>3, <3>2 DEF Batches
  <2>4. CASE h # g
    <3>1. \A x \in ToSet(batch[h]) : x \notin waiting'
      BY <1>1, <1>5, <1>9, <2>4 DEF Batches
    <3> QED BY <1>1, <1>3, <2>2, <2>4, <3>1 DEF Batches
  <2> QED BY <2>3, <2>4
<1>18. OneBatch'
  BY <1>1, <1>2, <1>3 DEF OneBatch
<1> QED BY <1>11, <1>12, <1>14, <1>15, <1>16, <1>17, <1>18 DEF IInv

\* readyWithTime: the first of the batch goes on.
LEMMA ReadyStep ==
    ASSUME IInv, NEW g \in Goroutine, Ready(g)
    PROVE  IInv'
<1>1. TypeOK /\ Tickets /\ Window /\ NoSpuriousWakeup /\ Calls /\ Locked /\ Listed /\ Batches /\ OneBatch
  BY DEF IInv
<1>2. /\ pc[g] \in {"oneready", "allready"} /\ batch[g] # <<>>
      /\ wait' = wait /\ notify' = notify /\ lock' = lock /\ list' = list /\ ticket' = ticket
      /\ w' = w /\ owner' = owner /\ waiting' = waiting /\ before' = before /\ "relock" \in PC
  BY DEF Ready, shared, history, PC
<1>3. PICK q \in Seq(Goroutine) : q = batch[g] /\ q # <<>> /\ IsInjective(q)
  BY <1>1, <1>2 DEF TypeOK, Batches
<1>4. PICK x \in Goroutine : x = Head(q) /\ x \in ToSet(q)
  BY <1>3, TailRemoves
<1>5. /\ Tail(q) \in Seq(Goroutine) /\ ToSet(Tail(q)) = ToSet(q) \ {x} /\ IsInjective(Tail(q))
  BY <1>3, <1>4, TailRemoves
<1>6. PICK r \in Seq(Goroutine) : r = Tail(q) /\ ToSet(r) = ToSet(q) \ {x} /\ IsInjective(r)
  BY <1>5
<1>7. pc[x] = "parked" /\ x \notin ToSet(list) /\ x \notin waiting /\ x # g
  BY <1>1, <1>2, <1>3, <1>4 DEF Batches
<1>8. pc' \in [Goroutine -> PC] /\ pc'[x] = "relock" /\ \A h \in Goroutine : h # x => pc'[h] = pc[h]
  BY <1>1, <1>2, <1>3, <1>4, Moves DEF Ready
<1>9. /\ batch' \in [Goroutine -> Seq(Goroutine)] /\ batch'[g] = r
      /\ \A h \in Goroutine : h # g => batch'[h] = batch[h]
  BY <1>1, <1>3, <1>6 DEF TypeOK, Ready
<1>10. TypeOK'
  BY <1>1, <1>2, <1>8, <1>9 DEF TypeOK
<1>11. Left' = Left /\ \A h \in Goroutine : Age(h)' = Age(h) /\ Since(h)' = Since(h)
  BY <1>2 DEF Left, Age, Since
<1>12. /\ waiting \subseteq Goroutine /\ ToSet(list) \subseteq Goroutine
       /\ \A h \in Goroutine : ToSet(batch[h]) \subseteq Goroutine
       /\ \A h \in Goroutine : ToSet(batch'[h]) \subseteq ToSet(batch[h])
       /\ \A h \in Goroutine : x \notin ToSet(batch'[h])
  <2>1. waiting \subseteq Goroutine /\ ToSet(list) \subseteq Goroutine /\ \A h \in Goroutine : ToSet(batch[h]) \subseteq Goroutine
    BY <1>1, MembersIn DEF TypeOK
  <2>2. ToSet(batch'[g]) = ToSet(batch[g]) \ {x}
    BY <1>3, <1>6, <1>9
  <2>3. \A h \in Goroutine : h # g => x \notin ToSet(batch[h])
    BY <1>1, <1>3, <1>4 DEF OneBatch
  <2> QED BY <1>9, <2>1, <2>2, <2>3
<1>13. Tickets'
  BY <1>1, <1>2, <1>11, <1>12 DEF Tickets
<1>14. Window'
  BY <1>1, <1>2, <1>8, <1>11 DEF Window
<1>15. NoSpuriousWakeup'
  BY <1>1, <1>2, <1>7, <1>8, <1>12 DEF NoSpuriousWakeup
<1>16. Calls'
  <2>1. \A h \in Goroutine : pc'[h] \in {"one2", "all2", "allstore", "allready"} => pc'[h] = pc[h]
    BY <1>8
  <2>2. \A h \in Goroutine : before[h] \subseteq Goroutine
    BY <1>1 DEF TypeOK
  <2> QED BY <1>1, <1>2, <1>11, <2>1, <2>2 DEF Calls
<1>17. Locked'
  <2>1. \A h \in Goroutine : pc'[h] = "allstore" <=> pc[h] = "allstore"
    BY <1>7, <1>8
  <2> QED BY <1>1, <1>2, <1>11, <2>1 DEF Locked
<1>18. Listed'
  BY <1>1, <1>2, <1>7, <1>8, <1>12 DEF Listed
<1>19. Batches'
  <2> SUFFICES ASSUME NEW h \in Goroutine
               PROVE  /\ IsInjective(batch'[h])
                      /\ pc'[h] \notin {"allstore", "oneready", "allready"} => batch'[h] = <<>>
                      /\ \A y \in ToSet(batch'[h]) :
                            /\ pc'[y] = "parked" /\ y \notin ToSet(list)
                            /\ pc'[h] = "allstore" => y \in waiting /\ Since(h)' < Age(y)'
                            /\ pc'[h] # "allstore" => y \notin waiting
    BY <1>2 DEF Batches
  <2>1. IsInjective(batch'[h])
    BY <1>1, <1>6, <1>9 DEF Batches
  <2>2. h = x => h # g /\ batch[h] = <<>>
    BY <1>1, <1>7 DEF Batches
  <2>3. pc'[h] \notin {"allstore", "oneready", "allready"} => batch'[h] = <<>>
    BY <1>1, <1>2, <1>7, <1>8, <1>9, <2>2 DEF Batches
  <2>4. pc'[h] = "allstore" <=> pc[h] = "allstore"
    BY <1>7, <1>8
  <2>5. ASSUME NEW y \in ToSet(batch'[h])
        PROVE  /\ pc'[y] = "parked" /\ y \notin ToSet(list)
               /\ pc'[h] = "allstore" => y \in waiting /\ Since(h)' < Age(y)'
               /\ pc'[h] # "allstore" => y \notin waiting
    <3>1. y \in ToSet(batch[h]) /\ y \in Goroutine /\ y # x
      BY <1>12
    <3>2. /\ pc[y] = "parked" /\ y \notin ToSet(list)
          /\ pc[h] = "allstore" => y \in waiting /\ Since(h) < Age(y)
          /\ pc[h] # "allstore" => y \notin waiting
      BY <1>1, <3>1 DEF Batches
    <3> QED BY <1>8, <1>11, <2>4, <3>1, <3>2
  <2> QED BY <2>1, <2>3, <2>5
<1>20. OneBatch'
  <2>1. ASSUME NEW h \in Goroutine, NEW k \in Goroutine, NEW y \in ToSet(batch'[h]), y \in ToSet(batch'[k])
        PROVE  h = k
    BY <1>1, <1>12, <2>1 DEF OneBatch
  <2>2. ASSUME NEW h \in Goroutine, pc'[h] = "parked", h \notin ToSet(list)
        PROVE  \E k \in Goroutine : h \in ToSet(batch'[k])
    <3>1. pc[h] = "parked" /\ h # x
      BY <1>8, <2>2
    <3>2. PICK k \in Goroutine : h \in ToSet(batch[k])
      BY <1>1, <2>2, <3>1 DEF OneBatch
    <3>3. h \in ToSet(batch'[k])
      BY <1>3, <1>6, <1>9, <3>1, <3>2
    <3> QED BY <3>3
  <2> QED BY <1>2, <2>1, <2>2 DEF OneBatch
<1> QED BY <1>10, <1>13, <1>14, <1>15, <1>16, <1>17, <1>18, <1>19, <1>20 DEF IInv

-----------------------------------------------------------------------------
(* The theorems *)

\* It holds at the start.
LEMMA InitInv == Init => IInv
<1> SUFFICES ASSUME Init PROVE IInv
  OBVIOUS
<1>1. TypeOK
  BY HalfIs, ShortQueues DEF Init, TypeOK, Uint, PC, L!Init
<1>2. Left = 0
  BY <1>1, DiffSame DEF Init, Left, TypeOK
<1>3. \A S : <<>> \in Seq(S) /\ ToSet(<<>>) = {} /\ IsInjective(<<>>)
  BY DEF ToSet, IsInjective
<1>4. Tickets
  BY <1>2 DEF Init, Tickets
<1>5. Window /\ NoSpuriousWakeup /\ Calls
  BY DEF Init, Window, NoSpuriousWakeup, Calls
<1>6. Locked
  BY CondAssumption DEF Init, Locked
<1>7. Listed /\ Batches /\ OneBatch
  BY <1>3 DEF Init, Listed, Batches, OneBatch
<1> QED BY <1>1, <1>4, <1>5, <1>6, <1>7 DEF IInv

\* It depends on the variables only.
LEMMA Stutter == IInv /\ UNCHANGED vars => IInv'
<1> SUFFICES ASSUME IInv, UNCHANGED vars PROVE IInv'
  OBVIOUS
<1>1. /\ wait' = wait /\ notify' = notify /\ lock' = lock /\ list' = list /\ pc' = pc
      /\ ticket' = ticket /\ w' = w /\ batch' = batch /\ owner' = owner
      /\ waiting' = waiting /\ before' = before
  BY DEF vars, shared, locals, history
<1>2. Left' = Left /\ \A g : Age(g)' = Age(g) /\ Since(g)' = Since(g)
  BY <1>1 DEF Left, Age, Since
<1>3. TypeOK' /\ NoSpuriousWakeup' /\ Listed' /\ OneBatch'
  BY <1>1 DEF IInv, TypeOK, NoSpuriousWakeup, Listed, OneBatch
<1>4. Tickets' /\ Window' /\ Calls' /\ Locked' /\ Batches'
  BY <1>1, <1>2 DEF IInv, Tickets, Window, Calls, Locked, Batches
<1> QED BY <1>3, <1>4 DEF IInv

\* Every step keeps it.
LEMMA NextInv == IInv /\ [Next]_vars => IInv'
<1> SUFFICES ASSUME IInv, [Next]_vars PROVE IInv'
  OBVIOUS
<1>1. CASE UNCHANGED vars
  BY <1>1, Stutter
<1>2. ASSUME NEW g \in Goroutine, Step(g) \/ (InWindow /\ Wait(g))
      PROVE  IInv'
  <2>1. CASE InWindow /\ Wait(g)
    BY <2>1, WaitStepKeeps
  <2>2. CASE Lock(g) \/ Unlock(g)
    BY <2>2, LockStep, UnlockStep
  <2>3. CASE Signal(g) \/ Broadcast(g)
    BY <2>3, CallStep DEF Signal, Broadcast
  <2>4. CASE WaitStep(g)
    BY <2>4, WaitUnlockStep, NotifyListWaitStep, WaitRelockStep DEF WaitStep
  <2>5. CASE NotifyStep(g)
    <3>1. CASE LoadWait(g) \/ LoadNotify(g)
      BY <3>1, LoadWaitStep, LoadNotifyStep
    <3>2. CASE NotifyOne(g) \/ NotifyAll(g) \/ NotifyAllStore(g)
      BY <3>2, NotifyOneStep, NotifyAllStep, NotifyAllStoreStep
    <3>3. CASE Ready(g) \/ Return(g)
      BY <3>3, ReadyStep, ReturnStep
    <3> QED BY <2>5, <3>1, <3>2, <3>3 DEF NotifyStep
  <2> QED BY <1>2, <2>1, <2>2, <2>3, <2>4, <2>5 DEF Step
<1> QED BY <1>1, <1>2 DEF Next

\* The invariant implies the property that is checked.
LEMMA InvImplies == IInv => CondInv
<1> SUFFICES ASSUME IInv PROVE CondInv
  OBVIOUS
<1>1. TypeOK /\ Tickets /\ NoSpuriousWakeup /\ Listed /\ Batches /\ OneBatch
  BY DEF IInv
<1>2. TicketsExact
  BY <1>1, TicketsCount DEF TicketsExact, Left, Diff
<1>3. ASSUME NEW g \in Goroutine, pc[g] = "parked", g \notin ToSet(list)
      PROVE  Cardinality({h \in Goroutine : g \in ToSet(batch[h])}) = 1
  <2>1. PICK h \in Goroutine : g \in ToSet(batch[h])
    BY <1>1, <1>3 DEF OneBatch
  <2>2. {k \in Goroutine : g \in ToSet(batch[k])} = {h}
    BY <1>1, <2>1 DEF OneBatch
  <2> QED BY <2>2, FS_Singleton
<1>4. NobodyForgotten
  BY <1>1, <1>3 DEF NobodyForgotten, Listed
<1> QED BY <1>1, <1>2, <1>4 DEF CondInv

\* IInv is an invariant.
LEMMA IInvHolds == Spec => []IInv
  BY InitInv, NextInv, PTL DEF Spec

\* For any number of goroutines and any range of tickets that is wide enough, the
\* counters of the notifyList count its waiters across the wraparound, nobody is
\* woken that was not notified, and whoever is parked is on the list or about to
\* be readied by exactly one Signal or Broadcast.
THEOREM CondSafe == Spec => []CondInv
  BY IInvHolds, InvImplies, PTL

\* A step in which a call returns, if it is one that must not lose anything.
LEMMA ReturnsEmpty ==
    ASSUME IInv, [Next]_vars, NEW g \in Goroutine, Returns(g, {"one2", "onelock", "all2", "allready"})
    PROVE  before[g] = {}
<1>1. TypeOK /\ Tickets /\ Calls /\ Batches
  BY DEF IInv
<1>2. /\ pc[g] \in {"one2", "onelock", "all2", "allready"} /\ pc'[g] \in {"idle", "held"}
      /\ before[g] \subseteq waiting /\ waiting \subseteq Goroutine
  BY <1>1 DEF Returns, Calls, TypeOK
<1>3. /\ Left \in Nat /\ \A h \in Goroutine : Age(h) \in Nat
      /\ \A h \in waiting : Age(h) \in 1..Left
  BY <1>1, AgesAreCounters DEF Tickets
<1>4. pc' # pc
  BY <1>2
<1>5. PICK h \in Goroutine : Step(h) \/ (InWindow /\ Wait(h))
  BY <1>4 DEF Next, vars
<1>6. ASSUME NEW x \in Goroutine, NEW l, Goto(x, l), pc[x] \notin {"one2", "onelock", "all2", "allready"}
      PROVE  pc'[g] = pc[g]
  BY <1>1, <1>2, <1>6 DEF Goto, TypeOK
<1>7. CASE Lock(h) \/ Unlock(h) \/ WaitStep(h) \/ Signal(h) \/ Broadcast(h) \/ (InWindow /\ Wait(h))
  <2>1. \E l : Goto(h, l) /\ pc[h] \in {"idle", "held", "unlock", "enter", "relock"}
    BY <1>7 DEF Lock, Unlock, WaitStep, WaitUnlock, NotifyListWait, WaitRelock, Signal, Broadcast, Call, Wait
  <2>2. pc'[g] = pc[g]
    BY <1>6, <2>1
  <2> QED BY <1>2, <2>2
<1>8. CASE LoadWait(h)
  <2>1. \E l : Goto(h, l) /\ pc[h] \in {"one", "all"}
    BY <1>8 DEF LoadWait
  <2>2. pc'[g] = pc[g]
    BY <1>6, <2>1
  <2> QED BY <1>2, <2>2
<1>9. CASE NotifyAll(h) \/ NotifyAllStore(h)
  <2>1. \E l : Goto(h, l) /\ pc[h] \in {"alllock", "allstore"}
    BY <1>9 DEF NotifyAll, NotifyAllStore
  <2>2. pc'[g] = pc[g]
    BY <1>6, <2>1
  <2> QED BY <1>2, <2>2
<1>10. CASE Ready(h)
  <2>1. PICK x : x = Head(batch[h]) /\ Goto(x, "relock")
    BY <1>10 DEF Ready
  <2>2. pc'[g] = pc[g] \/ pc'[g] = "relock"
    BY <1>1, <2>1 DEF Goto, TypeOK
  <2> QED BY <1>2, <2>2
<1>11. CASE LoadNotify(h)
  <2>1. h = g
    BY <1>1, <1>2, <1>11 DEF LoadNotify, Goto, TypeOK
  <2>2. w[g] = notify
    BY <1>1, <1>2, <1>11, <2>1 DEF LoadNotify, Goto, TypeOK
  <2>3. Since(g) = Left /\ \A x \in before[g] : Since(g) < Age(x)
    BY <1>1, <1>11, <2>1, <2>2 DEF Since, Left, Calls, LoadNotify
  <2> QED BY <1>2, <1>3, <2>3
<1>12. CASE NotifyOne(h)
  <2>1. h = g
    BY <1>1, <1>2, <1>12 DEF NotifyOne, Goto, TypeOK
  <2>2. notify = wait
    BY <1>1, <1>2, <1>12, <2>1 DEF NotifyOne, Goto, TypeOK
  <2>3. Left = 0
    BY <1>1, <2>2, DiffSame DEF Left, TypeOK
  <2> QED BY <1>2, <1>3, <2>3
<1>13. CASE Return(h)
  <2>1. h = g
    BY <1>1, <1>2, <1>13 DEF Return, Goto, TypeOK
  <2> QED BY <1>1, <1>2, <1>13, <2>1 DEF Calls, Return
<1> QED BY <1>5, <1>7, <1>8, <1>9, <1>10, <1>11, <1>12, <1>13 DEF Step, NotifyStep

\* No notification is lost, for any number of goroutines: neither the fast path of
\* Signal and Broadcast, which compares two counters that it reads one after the
\* other, nor the check under l.lock returns while somebody who waited at the call
\* has not been notified, and Broadcast notifies everybody who did.
THEOREM NoNotificationLost == Spec => NotificationNotLost
<1>1. IInv /\ [Next]_vars =>
        \A g \in Goroutine : Returns(g, {"one2", "onelock", "all2", "allready"}) => before[g] = {}
  BY ReturnsEmpty
<1> QED BY <1>1, IInvHolds, PTL DEF Spec, NotificationNotLost

-----------------------------------------------------------------------------
(***************************************************************************)
(* PoolInv and DroppedIsEmpty are invariants of PoolChain, for any number  *)
(* of consumers, pushes and rings, and any sizes and index range that the  *)
(* code allows.                                                            *)
(*                                                                         *)
(* Per ring a slot is in the range of headTail and filled, or claimed by one*)
(* process, or free and cleared (SlotsOK).  Indices wrap around, so the    *)
(* range is measured from the tail (Ahead, SlotsFrom, Off); an operation   *)
(* moves one slot into or out of it (RingPush, RingPopHead, RingPopTail),  *)
(* and RingStep says that such a step leaves the other slots alone.  What a*)
(* consumer knows of the ring it is about to drop (ConsumerKnows) rests on *)
(* the order of its loads: next first, then headTail.                      *)
(***************************************************************************)
\* Division with remainder.
LEMMA DivMod ==
    ASSUME NEW n \in Nat \ {0}, NEW a \in Nat
    PROVE  \E b \in Int, s \in 0..(n - 1) : a = n * b + s /\ a % n = s
<1> DEFINE b == a \div n
<1> DEFINE s == a % n
<1>1. b \in Int /\ s \in 0..(n - 1) /\ a = n * b + s
  OBVIOUS
<1>2. a % n = s
  OBVIOUS
<1> HIDE DEF b, s
<1> QED BY <1>1, <1>2

\* The remainder is unique.
LEMMA ModUnique ==
    ASSUME NEW n \in Nat \ {0}, NEW a \in Nat, NEW q \in Int, NEW r \in 0..(n - 1), a = n * q + r
    PROVE  a % n = r
<1>1. PICK b \in Int, s \in 0..(n - 1) : a = n * b + s /\ a % n = s
  BY DivMod
<1>2. n * (b - q) = r - s
  <2>1. n * (b - q) = n * b - n * q
    OBVIOUS
  <2>2. PICK x \in Int : x = n * b
    OBVIOUS
  <2>3. PICK y \in Int : y = n * q
    OBVIOUS
  <2>4. a = x + s /\ a = y + r /\ n * (b - q) = x - y
    BY <1>1, <2>1, <2>2, <2>3
  <2> QED BY <2>4
<1>3. b - q = 0
  <2>1. CASE b - q >= 1
    <3>1. n * (b - q) >= n
      BY <2>1
    <3> QED BY <1>2, <3>1
  <2>2. CASE b - q <= -1
    <3>1. n * (b - q) <= -n
      BY <2>2
    <3> QED BY <1>2, <3>1
  <2> QED BY <2>1, <2>2
<1>4. n * (b - q) = 0
  BY <1>3
<1> QED BY <1>1, <1>2, <1>4

\* The remainder some steps further on.
LEMMA ModAdd ==
    ASSUME NEW n \in Nat \ {0}, NEW x \in Nat, NEW k \in 0..n
    PROVE  (x + k) % n = IF (x % n) + k < n THEN (x % n) + k ELSE (x % n) + k - n
<1>1. PICK b \in Int, r \in 0..(n - 1) : x = n * b + r /\ x % n = r
  BY DivMod
<1>2. CASE r + k < n
  <2>1. x + k = n * b + (r + k) /\ r + k \in 0..(n - 1) /\ x + k \in Nat
    BY <1>1, <1>2
  <2>2. (x + k) % n = r + k
    BY <2>1, ModUnique
  <2> QED BY <1>1, <1>2, <2>2
<1>3. CASE ~(r + k < n)
  <2>1. n * (b + 1) = n * b + n
    OBVIOUS
  <2>2. x + k = n * (b + 1) + (r + k - n) /\ r + k - n \in 0..(n - 1) /\ x + k \in Nat /\ b + 1 \in Int
    BY <1>1, <1>3, <2>1
  <2>3. (x + k) % n = r + k - n
    BY <2>2, ModUnique
  <2> QED BY <1>1, <1>3, <2>3
<1> QED BY <1>2, <1>3

\* A whole number of turns leaves it alone.
LEMMA ModWrap ==
    ASSUME NEW n \in Nat \ {0}, NEW m \in Nat, m % n = 0, NEW x \in Nat
    PROVE  (x + m) % n = x % n
<1>1. PICK b \in Int, r \in 0..(n - 1) : x = n * b + r /\ x % n = r
  BY DivMod
<1>2. PICK c \in Int : m = n * c
  <2>1. PICK c \in Int, s \in 0..(n - 1) : m = n * c + s /\ m % n = s
    BY DivMod
  <2>2. m = n * c + 0
    BY <2>1
  <2>3. m = n * c
    BY <2>2
  <2> QED BY <2>3
<1>3. n * (b + c) = n * b + n * c
  OBVIOUS
<1>4. x + m = n * (b + c) + r /\ x + m \in Nat /\ b + c \in Int
  BY <1>1, <1>2, <1>3
<1>5. (x + m) % n = r
  BY <1>4, ModUnique
<1> QED BY <1>1, <1>5

-----------------------------------------------------------------------------
(* The ring *)

\* The slot of an index in a ring of n, how far slot i is from index t, and the
\* slots of c indices from t on.
SlotAt(n, x) == (x % n) + 1
Off(n, t, i) == IF i - 1 >= t % n THEN i - 1 - (t % n) ELSE i - 1 - (t % n) + n
SlotsFrom(n, t, c) == {SlotAt(n, t + k) : k \in 0..(c - 1)}

\* How far the head is ahead of the tail.
Ahead(h, t) == (h + IndexMod - t) % IndexMod

\* A size of a ring.
RingSize(n) == n \in Nat \ {0} /\ n <= DequeueLimit /\ IndexMod % n = 0

\* What the code says of its constants.
LEMMA Sizes ==
    /\ IndexMod \in Nat /\ DequeueLimit \in Nat /\ 2 * DequeueLimit <= IndexMod /\ DequeueLimit >= 1
    /\ RingSize(InitSize) /\ RingSize(DequeueLimit)
    /\ \A n : RingSize(n) /\ 2 * n < DequeueLimit => RingSize(2 * n)
  BY PoolAssumption DEF RingSize

\* The distance of the two indices, without a modulus.
LEMMA AheadIs ==
    ASSUME NEW h \in Index, NEW t \in Index
    PROVE  /\ Ahead(h, t) = IF h >= t THEN h - t ELSE h - t + IndexMod
           /\ Ahead(h, t) \in Index
<1>1. IndexMod \in Nat /\ h \in 0..(IndexMod - 1) /\ t \in 0..(IndexMod - 1)
  BY Sizes DEF Index
<1>2. (h + IndexMod - t) % IndexMod = IF h >= t THEN h - t ELSE h - t + IndexMod
  BY <1>1
<1> QED BY <1>1, <1>2 DEF Ahead, Index

\* The next index and the one before, without a modulus.
LEMMA NextIndex ==
    ASSUME NEW h \in Index
    PROVE  /\ AddOne(h) = (IF h = IndexMod - 1 THEN 0 ELSE h + 1) /\ AddOne(h) \in Index
           /\ (h + IndexMod - 1) % IndexMod = (IF h = 0 THEN IndexMod - 1 ELSE h - 1)
           /\ (h + IndexMod - 1) % IndexMod \in Index
<1>1. IndexMod \in Nat /\ h \in 0..(IndexMod - 1)
  BY Sizes DEF Index
<1>2. (h + 1) % IndexMod = IF h = IndexMod - 1 THEN 0 ELSE h + 1
  BY <1>1
<1>3. (h + IndexMod - 1) % IndexMod = IF h = 0 THEN IndexMod - 1 ELSE h - 1
  BY <1>1
<1> QED BY <1>1, <1>2, <1>3 DEF AddOne, Index

\* The slots of an index and of the ones after it.
LEMMA SlotOff ==
    ASSUME NEW n \in Nat \ {0}, NEW t \in Nat, NEW k \in 0..(n - 1)
    PROVE  SlotAt(n, t + k) \in 1..n /\ Off(n, t, SlotAt(n, t + k)) = k
<1>1. PICK r \in 0..(n - 1) : r = t % n
  BY DivMod
<1>2. (t + k) % n = IF r + k < n THEN r + k ELSE r + k - n
  <2>1. k \in 0..n
    OBVIOUS
  <2>2. (t + k) % n = IF (t % n) + k < n THEN (t % n) + k ELSE (t % n) + k - n
    BY <2>1, ModAdd
  <2> QED BY <1>1, <2>2
<1> QED BY <1>1, <1>2 DEF SlotAt, Off

\* The range is the slots that are near enough to the tail.
LEMMA RangeIs ==
    ASSUME NEW n \in Nat \ {0}, NEW t \in Nat, NEW c \in 0..n
    PROVE  SlotsFrom(n, t, c) = {i \in 1..n : Off(n, t, i) < c}
<1>1. PICK r \in 0..(n - 1) : r = t % n
  BY DivMod
<1>2. ASSUME NEW i \in SlotsFrom(n, t, c)
      PROVE  i \in 1..n /\ Off(n, t, i) < c
  <2>1. PICK k \in 0..(c - 1) : i = SlotAt(n, t + k)
    BY DEF SlotsFrom
  <2>2. k \in 0..(n - 1) /\ k < c
    OBVIOUS
  <2> QED BY <2>1, <2>2, SlotOff
<1>3. ASSUME NEW i \in 1..n, Off(n, t, i) < c
      PROVE  i \in SlotsFrom(n, t, c)
  <2>1. PICK k \in 0..(n - 1) : k = Off(n, t, i)
    BY <1>1 DEF Off
  <2>2. (t + k) % n = IF r + k < n THEN r + k ELSE r + k - n
    <3>1. k \in 0..n
      OBVIOUS
    <3>2. (t + k) % n = IF (t % n) + k < n THEN (t % n) + k ELSE (t % n) + k - n
      BY <3>1, ModAdd
    <3> QED BY <1>1, <3>2
  <2>3. (t + k) % n = i - 1
    BY <1>1, <2>1, <2>2 DEF Off
  <2>4. i = SlotAt(n, t + k)
    BY <2>3 DEF SlotAt
  <2>5. k \in 0..(c - 1)
    BY <1>3, <2>1
  <2> QED BY <2>4, <2>5 DEF SlotsFrom
<1> QED BY <1>2, <1>3

\* The slot at the head, also if the head has wrapped around and the tail has not.
LEMMA HeadSlot ==
    ASSUME NEW n, RingSize(n), NEW h \in Index, NEW t \in Index
    PROVE  SlotAt(n, h) = SlotAt(n, t + Ahead(h, t))
<1>1. IndexMod \in Nat /\ h \in Nat /\ t \in Nat /\ n \in Nat \ {0} /\ IndexMod % n = 0
  BY Sizes DEF Index, RingSize
<1>2. CASE h >= t
  <2>1. t + Ahead(h, t) = h
    BY <1>1, <1>2, AheadIs
  <2> QED BY <2>1
<1>3. CASE ~(h >= t)
  <2>1. t + Ahead(h, t) = h + IndexMod
    BY <1>1, <1>3, AheadIs
  <2>2. (h + IndexMod) % n = h % n
    BY <1>1, ModWrap
  <2> QED BY <2>1, <2>2 DEF SlotAt
<1> QED BY <1>2, <1>3

\* An index lies in a slot of the ring.
LEMMA SlotIn ==
    ASSUME NEW n, RingSize(n), NEW x \in Index
    PROVE  SlotAt(n, x) \in 1..n
<1>1. x \in Nat /\ n \in Nat \ {0}
  BY Sizes DEF Index, RingSize
<1>2. PICK r \in 0..(n - 1) : r = x % n
  BY <1>1, DivMod
<1> QED BY <1>1, <1>2 DEF SlotAt

\* pushHead: the slot at the head comes into the range.
LEMMA RingPush ==
    ASSUME NEW n, RingSize(n), NEW h \in Index, NEW t \in Index, Ahead(h, t) < n
    PROVE  /\ Ahead(AddOne(h), t) = Ahead(h, t) + 1
           /\ SlotAt(n, h) \notin SlotsFrom(n, t, Ahead(h, t))
           /\ SlotsFrom(n, t, Ahead(h, t) + 1) = SlotsFrom(n, t, Ahead(h, t)) \cup {SlotAt(n, h)}
<1>1. /\ IndexMod \in Nat /\ h \in 0..(IndexMod - 1) /\ t \in 0..(IndexMod - 1) /\ h \in Nat /\ t \in Nat
      /\ n \in Nat \ {0} /\ 2 * n <= IndexMod
  BY Sizes DEF Index, RingSize
<1>2. PICK c \in 0..(n - 1) : c = Ahead(h, t)
  BY <1>1, AheadIs DEF Index
<1>3. c = IF h >= t THEN h - t ELSE h - t + IndexMod
  BY <1>2, AheadIs
<1>4. PICK a \in Index : a = AddOne(h) /\ a = IF h = IndexMod - 1 THEN 0 ELSE h + 1
  BY NextIndex
<1>5. Ahead(a, t) = c + 1
  <2>1. Ahead(a, t) = IF a >= t THEN a - t ELSE a - t + IndexMod
    BY AheadIs
  <2> QED BY <1>1, <1>3, <1>4, <2>1
<1>6. PICK i \in 1..n : i = SlotAt(n, h) /\ Off(n, t, i) = c
  <2>1. SlotAt(n, t + c) \in 1..n /\ Off(n, t, SlotAt(n, t + c)) = c
    <3>1. n \in Nat \ {0} /\ t \in Nat
      BY <1>1
    <3>2. \A k \in 0..(n - 1) : SlotAt(n, t + k) \in 1..n /\ Off(n, t, SlotAt(n, t + k)) = k
      BY <3>1, SlotOff
    <3> QED BY <3>2
  <2>2. SlotAt(n, h) = SlotAt(n, t + c)
    BY <1>2, HeadSlot
  <2> QED BY <2>1, <2>2
<1>7. \A j \in 1..n : Off(n, t, j) = c => j = i
  <2>1. PICK r \in 0..(n - 1) : r = t % n
    BY <1>1, DivMod
  <2> QED BY <1>1, <1>6, <2>1 DEF Off
<1>8. \A j \in 1..n : Off(n, t, j) \in Int
  <2>1. PICK r \in 0..(n - 1) : r = t % n
    BY <1>1, DivMod
  <2> QED BY <1>1, <2>1 DEF Off
<1>9. /\ SlotsFrom(n, t, c) = {j \in 1..n : Off(n, t, j) < c}
      /\ SlotsFrom(n, t, c + 1) = {j \in 1..n : Off(n, t, j) < c + 1}
  <2>1. n \in Nat \ {0} /\ t \in Nat /\ c \in 0..n /\ c + 1 \in 0..n
    BY <1>1
  <2> QED BY <2>1, RangeIs
<1>10. i \notin SlotsFrom(n, t, c)
  BY <1>6, <1>9
<1>11. SlotsFrom(n, t, c + 1) = SlotsFrom(n, t, c) \cup {i}
  <2>1. \A j \in 1..n : Off(n, t, j) < c + 1 <=> (Off(n, t, j) < c \/ j = i)
    BY <1>6, <1>7, <1>8
  <2> QED BY <1>6, <1>9, <2>1
<1> QED BY <1>2, <1>4, <1>5, <1>6, <1>10, <1>11

\* popHead: the slot before the head leaves the range.
LEMMA RingPopHead ==
    ASSUME NEW n, RingSize(n), NEW h \in Index, NEW t \in Index, Ahead(h, t) <= n, h # t,
           NEW a, a = (h + IndexMod - 1) % IndexMod
    PROVE  /\ a \in Index /\ Ahead(a, t) = Ahead(h, t) - 1 /\ Ahead(a, t) < n
           /\ SlotAt(n, a) \in SlotsFrom(n, t, Ahead(h, t))
           /\ SlotsFrom(n, t, Ahead(a, t)) = SlotsFrom(n, t, Ahead(h, t)) \ {SlotAt(n, a)}
<1>1. /\ IndexMod \in Nat /\ h \in 0..(IndexMod - 1) /\ t \in 0..(IndexMod - 1) /\ h \in Nat /\ t \in Nat
      /\ n \in Nat \ {0} /\ 2 * n <= IndexMod
  BY Sizes DEF Index, RingSize
<1>2. a \in Index /\ a = IF h = 0 THEN IndexMod - 1 ELSE h - 1
  BY NextIndex
<1>3. Ahead(a, t) = Ahead(h, t) - 1 /\ Ahead(a, t) \in Nat /\ Ahead(a, t) < n
  <2>1. /\ Ahead(a, t) = IF a >= t THEN a - t ELSE a - t + IndexMod
        /\ Ahead(h, t) = IF h >= t THEN h - t ELSE h - t + IndexMod
    BY <1>2, AheadIs
  <2> QED BY <1>1, <1>2, <2>1
<1>4. AddOne(a) = h
  <2>1. AddOne(a) = IF a = IndexMod - 1 THEN 0 ELSE a + 1
    BY <1>2, NextIndex
  <2> QED BY <1>1, <1>2, <2>1
<1>5. Ahead(h, t) = Ahead(a, t) + 1
  BY <1>2, <1>3, <1>4, RingPush
<1>6. /\ SlotAt(n, a) \notin SlotsFrom(n, t, Ahead(a, t))
      /\ SlotsFrom(n, t, Ahead(a, t) + 1) = SlotsFrom(n, t, Ahead(a, t)) \cup {SlotAt(n, a)}
  BY <1>2, <1>3, RingPush
<1>7. SlotsFrom(n, t, Ahead(h, t)) = SlotsFrom(n, t, Ahead(a, t)) \cup {SlotAt(n, a)}
  BY <1>5, <1>6
<1> QED BY <1>2, <1>3, <1>6, <1>7

\* popTail: the slot at the tail leaves the range.
LEMMA RingPopTail ==
    ASSUME NEW n, RingSize(n), NEW h \in Index, NEW t \in Index, Ahead(h, t) <= n, h # t
    PROVE  /\ Ahead(h, AddOne(t)) = Ahead(h, t) - 1
           /\ SlotAt(n, t) \in SlotsFrom(n, t, Ahead(h, t))
           /\ SlotsFrom(n, AddOne(t), Ahead(h, AddOne(t)))
                = SlotsFrom(n, t, Ahead(h, t)) \ {SlotAt(n, t)}
<1>1. /\ IndexMod \in Nat /\ h \in 0..(IndexMod - 1) /\ t \in 0..(IndexMod - 1) /\ h \in Nat /\ t \in Nat
      /\ n \in Nat \ {0} /\ 2 * n <= IndexMod /\ IndexMod % n = 0
  BY Sizes DEF Index, RingSize
<1>2. PICK c \in 1..n : c = Ahead(h, t)
  <2>1. Ahead(h, t) = IF h >= t THEN h - t ELSE h - t + IndexMod
    BY AheadIs
  <2>2. Ahead(h, t) \in Int /\ Ahead(h, t) >= 1
    BY <1>1, <2>1
  <2> QED BY <1>1, <2>2
<1>3. PICK u \in Index : u = AddOne(t) /\ u = IF t = IndexMod - 1 THEN 0 ELSE t + 1
  BY NextIndex
<1>4. Ahead(h, u) = c - 1
  <2>1. /\ Ahead(h, u) = IF h >= u THEN h - u ELSE h - u + IndexMod
        /\ Ahead(h, t) = IF h >= t THEN h - t ELSE h - t + IndexMod
    BY AheadIs
  <2> QED BY <1>1, <1>2, <1>3, <2>1
<1>5. PICK r \in 0..(n - 1) : r = t % n
  <2>1. t \in Nat
    BY <1>1
  <2> QED BY <1>1, <2>1, DivMod
<1>6. u % n = IF r + 1 < n THEN r + 1 ELSE r + 1 - n
  <2>1. (t + 1) % n = IF r + 1 < n THEN r + 1 ELSE r + 1 - n
    <3>1. 1 \in 0..n /\ t \in Nat
      BY <1>1
    <3> QED BY <1>1, <1>5, <3>1, ModAdd
  <2>2. CASE t = IndexMod - 1
    <3>1. (0 + IndexMod) % n = 0 % n /\ 0 + IndexMod = t + 1
      BY <1>1, <2>2, ModWrap
    <3> QED BY <1>3, <2>1, <2>2, <3>1
  <2>3. CASE t # IndexMod - 1
    BY <1>3, <2>1, <2>3
  <2> QED BY <2>2, <2>3
<1>7. \A j \in 1..n : /\ Off(n, t, j) \in 0..(n - 1)
                      /\ Off(n, u, j) = IF Off(n, t, j) = 0 THEN n - 1 ELSE Off(n, t, j) - 1
                      /\ Off(n, t, j) = 0 <=> j = r + 1
  <2>1. PICK q \in 0..(n - 1) : q = u % n
    BY <1>1, <1>5, <1>6
  <2>2. q = IF r + 1 < n THEN r + 1 ELSE r + 1 - n
    BY <1>6, <2>1
  <2>3. \A j \in 1..n : Off(n, t, j) = IF j - 1 >= r THEN j - 1 - r ELSE j - 1 - r + n
    BY <1>5 DEF Off
  <2>4. \A j \in 1..n : Off(n, u, j) = IF j - 1 >= q THEN j - 1 - q ELSE j - 1 - q + n
    BY <2>1 DEF Off
  <2>5. n \in Nat \ {0}
    BY <1>1
  <2> QED BY <2>2, <2>3, <2>4, <2>5, SMTT(30)
<1>8. SlotAt(n, t) = r + 1 /\ r + 1 \in 1..n
  BY <1>1, <1>5 DEF SlotAt
<1>9. /\ SlotsFrom(n, t, c) = {j \in 1..n : Off(n, t, j) < c}
      /\ SlotsFrom(n, u, c - 1) = {j \in 1..n : Off(n, u, j) < c - 1}
  <2>1. n \in Nat \ {0} /\ t \in Nat /\ u \in Nat /\ c \in 0..n /\ c - 1 \in 0..n
    BY <1>1, <1>3
  <2> QED BY <2>1, RangeIs
<1>10. r + 1 \in SlotsFrom(n, t, c)
  BY <1>7, <1>8, <1>9
<1>11. SlotsFrom(n, u, c - 1) = SlotsFrom(n, t, c) \ {r + 1}
  <2>1. \A j \in 1..n : Off(n, u, j) < c - 1 <=> (Off(n, t, j) < c /\ j # r + 1)
    BY <1>1, <1>7
  <2> QED BY <1>9, <2>1
<1> QED BY <1>2, <1>3, <1>4, <1>8, <1>10, <1>11

-----------------------------------------------------------------------------
(* The inductive invariant *)

\* Where the producer and a consumer can be.
ProducerAt == ProducerPC \cup {"none", "done"}
ConsumerAt == ConsumerPC \cup {"none", "done"}

Types ==
    /\ chead \in 0..MaxElt /\ ctail \in 0..MaxElt
    /\ headTail \in [Elt -> Index \X Index]
    /\ typ \in [Elt -> Seq(BOOLEAN)] /\ val \in [Elt -> Seq(Stored)]
    /\ next \in [Elt -> 0..MaxElt] /\ prev \in [Elt -> 0..MaxElt]
    /\ at \in [Process -> ProducerAt \cup ConsumerAt]
    /\ at[Producer] \in ProducerAt
    /\ \A c \in Consumer : at[c] \in ConsumerAt
    /\ d \in [Process -> 0..MaxElt] /\ d2 \in [Process -> 0..MaxElt]
    /\ ptrs \in [Process -> Index \X Index]
    /\ v \in [Process -> Item \cup {NilPtr}]
    /\ pushes \in 0..MaxPush

\* A ring that is allocated has a size that divides the range of the indices, and
\* its head is at most that far ahead of its tail.
Rings ==
    \A e \in Elt :
        /\ Len(val[e]) = Size(e)
        /\ e <= chead => RingSize(Size(e)) /\ Count(e) <= Size(e)
        /\ e > chead => Size(e) = 0 /\ headTail[e] = <<0, 0>>

\* The rings are linked in the order of their allocation; what c.tail has passed
\* is empty.
Links ==
    /\ ctail <= chead /\ (ctail = 0 <=> chead = 0)
    /\ \A e \in Elt : next[e] = (IF e < chead THEN e + 1 ELSE 0) /\ prev[e] \in {0, e - 1}
    /\ \A e \in Elt : e < ctail => Count(e) = 0

\* The producer pushes to the last ring.  The head it has loaded is still the head,
\* and there is room, for only it moves the head.
ProducerKnows ==
    /\ at[Producer] \in {"push", "pushTyp", "pushWrite", "pushAdd", "grow"} =>
          d[Producer] = chead /\ chead > 0 /\ v[Producer] \in Item
    /\ at[Producer] \in {"popHead", "popHeadCAS", "popHeadRead", "backUp"} =>
          d[Producer] \in 1..chead
    /\ at[Producer] \in {"pushTyp", "pushWrite", "pushAdd", "popHeadRead"} =>
          /\ head(Producer) = headTail[d[Producer]][1]
          /\ Count(d[Producer]) < Size(d[Producer])
    /\ at[Producer] = "popHeadCAS" => head(Producer) # tail(Producer)

\* A consumer that has loaded next knows that nothing more is pushed to its ring.
ConsumerKnows(c) ==
    /\ at[c] \in {"next", "popTail", "popTailCAS", "popTailRead", "clearVal", "clearTyp",
                  "drained", "clearPrev"} => d[c] \in 1..chead
    /\ at[c] \in {"popTail", "popTailCAS", "drained", "clearPrev"} =>
          d2[c] = 0 \/ (d2[c] = d[c] + 1 /\ d2[c] <= chead)
    /\ at[c] = "popTailCAS" => head(c) # tail(c)
    /\ at[c] \in {"drained", "clearPrev"} => d2[c] # 0 /\ Count(d[c]) = 0

\* The slot of ring e that p has claimed, or 0.
HeadClaims == {"pushWrite", "pushAdd", "popHeadRead"}
TailClaims == {"popTailRead", "clearVal", "clearTyp"}
Claim(p, e) ==
    IF d[p] = e /\ at[p] \in HeadClaims THEN Slot(e, head(p))
    ELSE IF d[p] = e /\ at[p] \in TailClaims THEN Slot(e, tail(p))
    ELSE 0

\* What is in a slot that is claimed by a process at l.
SlotState(l, used, x) ==
    /\ l = "pushWrite" => ~used /\ x = 0
    /\ l # "pushWrite" => used
    /\ l = "clearTyp" => x = 0
    /\ l \in {"pushAdd", "popHeadRead", "popTailRead", "clearVal"} => x # 0

\* A slot is in the range and filled, or claimed by one process, or free.
SlotsOK(e) ==
    /\ \A i \in InRange(e) : typ[e][i] /\ val[e][i] # 0
    /\ \A i \in 1..Size(e) : typ[e][i] \/ val[e][i] # 0 =>
          i \in InRange(e) \/ \E p \in Process : Claim(p, e) = i
    /\ \A p \in Process : Claim(p, e) # 0 =>
          /\ Claim(p, e) \in (1..Size(e)) \ InRange(e)
          /\ SlotState(at[p], typ[e][Claim(p, e)], val[e][Claim(p, e)])
          /\ \A q \in Process : Claim(q, e) = Claim(p, e) => q = p

PoolIInv ==
    /\ Types /\ Rings /\ Links /\ ProducerKnows
    /\ \A c \in Consumer : ConsumerKnows(c)
    /\ \A e \in Elt : SlotsOK(e)

-----------------------------------------------------------------------------
(* Rings and slots of a state *)

\* The range and the count of a ring in the terms of the lemmas above.
LEMMA RangeOf ==
    ASSUME NEW e
    PROVE  /\ Count(e) = Ahead(headTail[e][1], headTail[e][2])
           /\ InRange(e) = SlotsFrom(Size(e), headTail[e][2], Count(e))
           /\ \A x : Slot(e, x) = SlotAt(Size(e), x)
  BY DEF Count, Ahead, InRange, SlotsFrom, Slot, SlotAt

\* A ring that is allocated.
LEMMA RingOf ==
    ASSUME PoolIInv, NEW e \in 1..chead
    PROVE  /\ e \in Elt /\ RingSize(Size(e))
           /\ headTail[e][1] \in Index /\ headTail[e][2] \in Index
           /\ headTail[e] = <<headTail[e][1], headTail[e][2]>>
           /\ Count(e) \in Nat /\ Count(e) <= Size(e)
           /\ Size(e) = Len(typ[e]) /\ Size(e) = Len(val[e]) /\ Size(e) \in Nat \ {0}
           /\ typ[e] \in Seq(BOOLEAN) /\ val[e] \in Seq(Stored)
<1>1. Types /\ Rings /\ MaxElt \in Nat
  BY PoolAssumption DEF PoolIInv
<1>2. e \in Elt /\ e <= chead
  BY <1>1 DEF Types, Elt
<1>3. headTail[e] \in Index \X Index
  BY <1>1, <1>2 DEF Types
<1>4. Count(e) \in Index
  BY <1>1, <1>3, AheadIs, RangeOf
<1>5. Index \subseteq Nat
  BY <1>1, Sizes DEF Index
<1>6. RingSize(Size(e)) /\ Count(e) <= Size(e) /\ Len(val[e]) = Size(e)
  BY <1>1, <1>2 DEF Rings
<1>7. typ[e] \in Seq(BOOLEAN) /\ val[e] \in Seq(Stored)
  BY <1>1, <1>2 DEF Types
<1>8. Size(e) \in Nat \ {0} /\ Size(e) = Len(typ[e])
  BY <1>6 DEF RingSize, Size
<1>9. /\ headTail[e][1] \in Index /\ headTail[e][2] \in Index
      /\ headTail[e] = <<headTail[e][1], headTail[e][2]>>
  BY <1>3
<1> QED BY <1>2, <1>4, <1>5, <1>6, <1>7, <1>8, <1>9

\* A ring that is not allocated is empty and claimed by nobody.
LEMMA NoRing ==
    ASSUME PoolIInv, NEW e \in Elt, e > chead
    PROVE  /\ Size(e) = 0 /\ headTail[e] = <<0, 0>> /\ Count(e) = 0
           /\ \A p \in Process : Claim(p, e) = 0
<1>1. Types /\ Rings /\ MaxElt \in Nat /\ IndexMod \in Nat \ {0}
  BY PoolAssumption DEF PoolIInv
<1>2. Size(e) = 0 /\ headTail[e] = <<0, 0>>
  BY <1>1 DEF Rings
<1>3. Count(e) = 0
  <2>1. Count(e) = (0 + IndexMod - 0) % IndexMod
    BY <1>2 DEF Count
  <2> QED BY <1>1, <2>1
<1>4. ASSUME NEW p \in Process, Claim(p, e) # 0
      PROVE  FALSE
  <2>1. d[p] = e /\ at[p] \in HeadClaims \cup TailClaims
    BY <1>4 DEF Claim
  <2>2. d[p] \in 1..chead
    <3>1. CASE p = Producer
      BY <1>1, <2>1, <3>1 DEF PoolIInv, ProducerKnows, HeadClaims, TailClaims, Types, ProducerAt, ProducerPC
    <3>2. CASE p \in Consumer
      BY <1>1, <2>1, <3>2 DEF PoolIInv, ConsumerKnows, HeadClaims, TailClaims, Types, ConsumerAt, ConsumerPC
    <3> QED BY <3>1, <3>2 DEF Process
  <2> QED BY <1>1, <2>1, <2>2 DEF Types, Elt
<1> QED BY <1>2, <1>3, <1>4

-----------------------------------------------------------------------------
(* What a step of one process leaves alone *)

Claims == HeadClaims \cup TailClaims

\* Only p takes a step.
Only(p) ==
    \A q \in Process \ {p} :
        /\ at'[q] = at[q] /\ d'[q] = d[q] /\ d2'[q] = d2[q]
        /\ ptrs'[q] = ptrs[q] /\ v'[q] = v[q]

\* Nothing about ring e changes.
SameRing(e) == typ'[e] = typ[e] /\ val'[e] = val[e] /\ headTail'[e] = headTail[e]

\* A process keeps its claim.
LEMMA ClaimKeeps ==
    ASSUME NEW q, NEW e, at'[q] = at[q], d'[q] = d[q], ptrs'[q] = ptrs[q],
           Size(e)' = Size(e)
    PROVE  Claim(q, e)' = Claim(q, e)
  BY DEF Claim, Slot, head, tail

\* A process without a claim, and one with a claim on another ring.
LEMMA NoClaim ==
    ASSUME NEW q, NEW e
    PROVE  /\ at[q] \notin Claims \/ d[q] # e => Claim(q, e) = 0
           /\ at'[q] \notin Claims \/ d'[q] # e => Claim(q, e)' = 0
  BY DEF Claim, Claims

\* A ring that a step does not touch.
LEMMA SlotsKeep ==
    ASSUME NEW e, SlotsOK(e), SameRing(e),
           \A q \in Process :
              /\ Claim(q, e)' = Claim(q, e)
              /\ Claim(q, e) # 0 => at'[q] = at[q] \/ (at[q] = "popTailRead" /\ at'[q] = "clearVal")
    PROVE  SlotsOK(e)'
<1>1. Size(e)' = Size(e) /\ InRange(e)' = InRange(e)
  BY DEF SameRing, Size, InRange, Count, Slot
<1>2. \A i \in InRange(e)' : typ'[e][i] /\ val'[e][i] # 0
  BY <1>1 DEF SlotsOK, SameRing
<1>3. ASSUME NEW i \in 1..Size(e)', typ'[e][i] \/ val'[e][i] # 0
      PROVE  i \in InRange(e)' \/ \E p \in Process : Claim(p, e)' = i
  BY <1>1, <1>3 DEF SlotsOK, SameRing
<1>4. ASSUME NEW p \in Process, Claim(p, e)' # 0
      PROVE  /\ Claim(p, e)' \in (1..Size(e)') \ InRange(e)'
             /\ SlotState(at'[p], typ'[e][Claim(p, e)'], val'[e][Claim(p, e)'])
             /\ \A q \in Process : Claim(q, e)' = Claim(p, e)' => q = p
  <2>1. Claim(p, e)' = Claim(p, e)
    OBVIOUS
  <2>2. /\ Claim(p, e) \in (1..Size(e)) \ InRange(e)
        /\ SlotState(at[p], typ[e][Claim(p, e)], val[e][Claim(p, e)])
        /\ \A q \in Process : Claim(q, e) = Claim(p, e) => q = p
    BY <1>4, <2>1 DEF SlotsOK
  <2>3. SlotState(at'[p], typ[e][Claim(p, e)], val[e][Claim(p, e)])
    BY <1>4, <2>1, <2>2 DEF SlotState
  <2> QED BY <1>1, <2>1, <2>2, <2>3 DEF SameRing
<1> QED BY <1>2, <1>3, <1>4 DEF SlotsOK

\* Slot i of ring e changes, or the claim of p on it, or whether it is in the range.
LEMMA SlotChanges ==
    ASSUME NEW e, SlotsOK(e), NEW p \in Process, Size(e)' = Size(e),
           NEW i \in 1..Size(e),
           \A q \in Process \ {p} : /\ Claim(q, e)' = Claim(q, e) /\ at'[q] = at[q]
                                      /\ Claim(q, e) # i,
           Claim(p, e) \in {0, i}, Claim(p, e)' \in {0, i},
           \A j \in (1..Size(e)) \ {i} : typ'[e][j] = typ[e][j] /\ val'[e][j] = val[e][j],
           InRange(e) \subseteq 1..Size(e), InRange(e)' \subseteq 1..Size(e),
           \A j \in (1..Size(e)) \ {i} : j \in InRange(e)' <=> j \in InRange(e),
           i \in InRange(e)' => typ'[e][i] /\ val'[e][i] # 0 /\ Claim(p, e)' = 0,
           typ'[e][i] \/ val'[e][i] # 0 => i \in InRange(e)' \/ Claim(p, e)' = i,
           Claim(p, e)' = i => SlotState(at'[p], typ'[e][i], val'[e][i])
    PROVE  SlotsOK(e)'
<1>1. \A j \in InRange(e)' : typ'[e][j] /\ val'[e][j] # 0
  BY DEF SlotsOK
<1>2. ASSUME NEW j \in 1..Size(e)', typ'[e][j] \/ val'[e][j] # 0
      PROVE  j \in InRange(e)' \/ \E q \in Process : Claim(q, e)' = j
  <2>1. CASE j = i
    BY <1>2, <2>1
  <2>2. CASE j # i
    <3>1. j \in InRange(e) \/ \E q \in Process : Claim(q, e) = j
      BY <1>2, <2>2 DEF SlotsOK
    <3>2. ASSUME NEW q \in Process, Claim(q, e) = j
          PROVE  Claim(q, e)' = j
      BY <2>2, <3>2
    <3> QED BY <2>2, <3>1, <3>2
  <2> QED BY <2>1, <2>2
<1>3. ASSUME NEW q \in Process, Claim(q, e)' # 0
      PROVE  /\ Claim(q, e)' \in (1..Size(e)') \ InRange(e)'
             /\ SlotState(at'[q], typ'[e][Claim(q, e)'], val'[e][Claim(q, e)'])
             /\ \A r \in Process : Claim(r, e)' = Claim(q, e)' => r = q
  <2>1. CASE q = p
    <3>1. Claim(q, e)' = i /\ i \notin InRange(e)'
      BY <1>3, <2>1
    <3>2. \A r \in Process : Claim(r, e)' = i => r = p
      OBVIOUS
    <3> QED BY <2>1, <3>1, <3>2
  <2>2. CASE q # p
    <3>1. Claim(q, e)' = Claim(q, e) /\ at'[q] = at[q] /\ Claim(q, e) # i /\ Claim(q, e) # 0
      BY <1>3, <2>2
    <3>2. /\ Claim(q, e) \in (1..Size(e)) \ InRange(e)
          /\ SlotState(at[q], typ[e][Claim(q, e)], val[e][Claim(q, e)])
          /\ \A r \in Process : Claim(r, e) = Claim(q, e) => r = q
      BY <3>1 DEF SlotsOK
    <3>3. Claim(q, e) \in (1..Size(e)) \ {i}
      BY <3>1, <3>2
    <3>4. /\ Claim(q, e) \notin InRange(e)'
          /\ typ'[e][Claim(q, e)] = typ[e][Claim(q, e)] /\ val'[e][Claim(q, e)] = val[e][Claim(q, e)]
      BY <3>2, <3>3
    <3>5. ASSUME NEW r \in Process, Claim(r, e)' = Claim(q, e)'
          PROVE  r = q
      <4>1. r # p
        BY <3>1, <3>5
      <4> QED BY <3>1, <3>2, <3>5, <4>1
    <3> QED BY <3>1, <3>2, <3>3, <3>4, <3>5
  <2> QED BY <2>1, <2>2
<1> QED BY <1>1, <1>2, <1>3 DEF SlotsOK

\* What a consumer knows stays true when others move.
LEMMA ConsumerKeeps ==
    ASSUME NEW c, ConsumerKnows(c),
           at'[c] = at[c], d'[c] = d[c], d2'[c] = d2[c], ptrs'[c] = ptrs[c],
           chead \in Nat, chead' \in Nat, chead <= chead',
           d[c] \in 1..chead /\ d[c] < chead /\ Count(d[c]) = 0 => Count(d[c])' = 0
    PROVE  ConsumerKnows(c)'
<1>1. head(c)' = head(c) /\ tail(c)' = tail(c)
  BY DEF head, tail
<1>2. at[c] \in {"drained", "clearPrev"} => Count(d[c])' = 0
  <2>1. SUFFICES ASSUME at[c] \in {"drained", "clearPrev"}
                 PROVE  Count(d[c])' = 0
    OBVIOUS
  <2>2. d[c] \in 1..chead /\ Count(d[c]) = 0 /\ d2[c] = d[c] + 1 /\ d2[c] <= chead
    BY <2>1 DEF ConsumerKnows
  <2> QED BY <2>2
<1>3. \A x \in 1..chead : x \in 1..chead'
  OBVIOUS
<1>4. \A x : x \in Int /\ x <= chead => x <= chead'
  OBVIOUS
<1> QED BY <1>1, <1>2, <1>3, <1>4 DEF ConsumerKnows

\* What the producer knows stays true when a consumer moves.
LEMMA ProducerKeeps ==
    ASSUME PoolIInv, at'[Producer] = at[Producer], d'[Producer] = d[Producer],
           ptrs'[Producer] = ptrs[Producer], v'[Producer] = v[Producer], chead' = chead,
           \A e \in 1..chead : /\ Size(e)' = Size(e) /\ headTail'[e][1] = headTail[e][1]
                               /\ Count(e)' \in Nat /\ Count(e)' <= Count(e)
    PROVE  ProducerKnows'
<1>1. head(Producer)' = head(Producer) /\ tail(Producer)' = tail(Producer)
  BY DEF head, tail
<1>2. ProducerKnows /\ chead \in Nat
  BY DEF PoolIInv, Types
<1>3. ASSUME at[Producer] \in {"pushTyp", "pushWrite", "pushAdd", "popHeadRead"}
      PROVE  /\ head(Producer) = headTail'[d[Producer]][1]
             /\ Count(d[Producer])' < Size(d[Producer])'
  <2>1. d[Producer] \in 1..chead
    BY <1>2, <1>3 DEF ProducerKnows
  <2>2. head(Producer) = headTail[d[Producer]][1] /\ Count(d[Producer]) < Size(d[Producer])
    BY <1>2, <1>3 DEF ProducerKnows
  <2>3. Count(d[Producer]) \in Nat /\ Size(d[Producer]) \in Nat
    BY <2>1, RingOf
  <2>4. PICK e \in 1..chead : e = d[Producer]
    BY <2>1
  <2>5. Count(d[Producer])' = Count(e)' /\ Size(d[Producer])' = Size(e)'
    BY <2>4 DEF Count, Size
  <2> QED BY <2>2, <2>3, <2>4, <2>5
<1> QED BY <1>1, <1>2, <1>3 DEF ProducerKnows

\* A step that leaves the rings alone and keeps the claims.
LEMMA PoolQuietStep ==
    ASSUME PoolIInv, NEW p \in Process, Only(p), Types', Links',
           UNCHANGED <<headTail, typ, val, chead, next>>,
           p = Producer => ProducerKnows',
           p \in Consumer => ConsumerKnows(p)',
           \/ at[p] \notin Claims /\ at'[p] \notin Claims
           \/ /\ at[p] = "popTailRead" /\ at'[p] = "clearVal"
              /\ d'[p] = d[p] /\ ptrs'[p] = ptrs[p]
    PROVE  PoolIInv'
<1>1. Rings'
  BY DEF PoolIInv, Rings, Size, Count
<1>2. Process = Consumer \cup {Producer} /\ Producer \notin Consumer /\ chead \in Nat
  BY PoolAssumption DEF Process, PoolIInv, Types
<1>3. ProducerKnows'
  <2>1. CASE p = Producer
    BY <2>1
  <2>2. CASE p # Producer
    <3>1. \A e \in 1..chead : /\ Size(e)' = Size(e) /\ Count(e)' = Count(e)
                              /\ Count(e) \in Nat
      BY RingOf DEF Size, Count
    <3> QED BY <1>2, <2>2, <3>1, ProducerKeeps DEF Only
  <2> QED BY <2>1, <2>2
<1>4. ASSUME NEW c \in Consumer
      PROVE  ConsumerKnows(c)'
  <2>1. CASE c = p
    BY <2>1
  <2>2. CASE c # p
    <3>1. Count(d[c])' = Count(d[c])
      BY <1>2, <2>2 DEF Count, Only
    <3> QED BY <1>2, <2>2, <3>1, ConsumerKeeps DEF Only, PoolIInv
  <2> QED BY <2>1, <2>2
<1>5. ASSUME NEW e \in Elt
      PROVE  SlotsOK(e)'
  <2>1. SlotsOK(e) /\ SameRing(e) /\ Size(e)' = Size(e)
    BY DEF PoolIInv, SameRing, Size
  <2>2. ASSUME NEW q \in Process
        PROVE  /\ Claim(q, e)' = Claim(q, e)
               /\ Claim(q, e) # 0 => at'[q] = at[q] \/ (at[q] = "popTailRead" /\ at'[q] = "clearVal")
    <3>1. CASE q # p
      BY <2>1, <3>1, ClaimKeeps DEF Only
    <3>2. CASE q = p /\ at[p] \notin Claims /\ at'[p] \notin Claims
      BY <3>2, NoClaim
    <3>3. CASE q = p /\ at[p] = "popTailRead" /\ at'[p] = "clearVal" /\ d'[p] = d[p] /\ ptrs'[p] = ptrs[p]
      BY <2>1, <3>3 DEF Claim, HeadClaims, TailClaims, Slot, head, tail
    <3> QED BY <3>1, <3>2, <3>3
  <2> QED BY <2>1, <2>2, SlotsKeep
<1> QED BY <1>1, <1>3, <1>4, <1>5 DEF PoolIInv

\* A step of p that changes at most slot i of ring e, or its standing.
SlotStep(p, e, i) ==
    /\ d[p] = e /\ (d'[p] = e \/ at'[p] \notin Claims)
    /\ \A f \in Elt \ {e} : SameRing(f)
    /\ Size(e)' = Size(e)
    /\ \A q \in Process \ {p} : Claim(q, e) # i
    /\ Claim(p, e) \in {0, i} /\ Claim(p, e)' \in {0, i}
    /\ \A j \in (1..Size(e)) \ {i} : typ'[e][j] = typ[e][j] /\ val'[e][j] = val[e][j]
    /\ InRange(e)' \in {InRange(e), InRange(e) \cup {i}, InRange(e) \ {i}}
    /\ i \in InRange(e)' => typ'[e][i] /\ val'[e][i] # 0 /\ Claim(p, e)' = 0
    /\ typ'[e][i] \/ val'[e][i] # 0 => i \in InRange(e)' \/ Claim(p, e)' = i
    /\ Claim(p, e)' = i => SlotState(at'[p], typ'[e][i], val'[e][i])

\* Such a step keeps the slots of all rings in order.
LEMMA RingStep ==
    ASSUME PoolIInv, NEW p \in Process, Only(p), NEW e \in 1..chead, NEW i \in 1..Size(e),
           SlotStep(p, e, i)
    PROVE  \A f \in Elt : SlotsOK(f)'
<1> USE DEF Only, SlotStep
<1>1. /\ e \in Elt /\ RingSize(Size(e)) /\ Count(e) \in Nat /\ Count(e) <= Size(e)
      /\ headTail[e][2] \in Index /\ Size(e) \in Nat \ {0}
  BY RingOf
<1>2. InRange(e) \subseteq 1..Size(e)
  <2>1. headTail[e][2] \in Nat /\ Count(e) \in 0..Size(e)
    BY <1>1, Sizes DEF Index, PoolIInv
  <2> QED BY <1>1, <2>1, RangeIs, RangeOf
<1>3. \A q \in Process \ {p} : Claim(q, e)' = Claim(q, e)
  BY ClaimKeeps
<1>4. /\ InRange(e)' \subseteq 1..Size(e)
      /\ \A j \in (1..Size(e)) \ {i} : j \in InRange(e)' <=> j \in InRange(e)
  BY <1>2
<1>5. SlotsOK(e) /\ \A f \in Elt : SlotsOK(f)
  BY <1>1 DEF PoolIInv
<1>6. SlotsOK(e)'
  BY <1>2, <1>3, <1>4, <1>5, SlotChanges
<1>7. ASSUME NEW f \in Elt \ {e}
      PROVE  SlotsOK(f)'
  <2>1. Size(f)' = Size(f) /\ SameRing(f)
    BY DEF SameRing, Size
  <2>2. \A q \in Process \ {p} : Claim(q, f)' = Claim(q, f)
    BY <2>1, ClaimKeeps
  <2>3. Claim(p, f) = 0 /\ Claim(p, f)' = 0
    BY NoClaim
  <2> QED BY <1>5, <2>1, <2>2, <2>3, SlotsKeep
<1> QED BY <1>6, <1>7

-----------------------------------------------------------------------------
(* Steps that change the locals of one process only *)

\* The types of the constants.
LEMMA Basics ==
    ASSUME PoolIInv
    PROVE  /\ Types /\ Rings /\ Links /\ ProducerKnows
           /\ Producer \in Process /\ Producer \notin Consumer /\ Consumer \subseteq Process
           /\ MaxElt \in Nat \ {0} /\ Elt = 1..MaxElt /\ chead \in Nat /\ ctail \in Nat
           /\ NilPtr = 0 /\ <<0, 0>> \in Index \X Index
           /\ Process = Consumer \cup {Producer}
<1>1. Types
  BY DEF PoolIInv
<1>2. 0 \in Index
  BY Sizes DEF Index
<1> QED BY <1>1, <1>2, PoolAssumption DEF PoolIInv, Process, Elt, NilPtr, Types

\* A step of p changes only its own locals, and keeps their types.
LocalsOf(p) ==
    /\ d' \in [Process -> 0..MaxElt] /\ d2' \in [Process -> 0..MaxElt]
    /\ ptrs' \in [Process -> Index \X Index] /\ v' \in [Process -> Item \cup {0}]
    /\ \A q \in Process \ {p} :
          d'[q] = d[q] /\ d2'[q] = d2[q] /\ ptrs'[q] = ptrs[q] /\ v'[q] = v[q]

\* Where p goes.
LEMMA Goes ==
    ASSUME PoolIInv, NEW p \in Process, NEW l, GoesTo(p, l), LocalsOf(p),
           p = Producer => l \in ProducerAt, p \in Consumer => l \in ConsumerAt
    PROVE  /\ at' \in [Process -> ProducerAt \cup ConsumerAt]
           /\ at'[Producer] \in ProducerAt
           /\ \A c \in Consumer : at'[c] \in ConsumerAt
           /\ at'[p] = l /\ Only(p)
<1>1. Types /\ Process = Consumer \cup {Producer} /\ Producer \notin Consumer
  BY Basics
<1>2. /\ at' \in [Process -> ProducerAt \cup ConsumerAt]
      /\ at'[p] = l /\ \A q \in Process \ {p} : at'[q] = at[q]
  BY <1>1 DEF Types, GoesTo
<1>3. at'[Producer] \in ProducerAt /\ \A c \in Consumer : at'[c] \in ConsumerAt
  BY <1>1, <1>2 DEF Types
<1> QED BY <1>2, <1>3 DEF LocalsOf, Only

\* A step that changes locals of p, and perhaps c.tail and prev.
LEMMA LocalStep ==
    ASSUME PoolIInv, NEW p \in Process, NEW l, GoesTo(p, l), LocalsOf(p),
           p = Producer => l \in ProducerAt, p \in Consumer => l \in ConsumerAt,
           UNCHANGED <<chead, headTail, typ, val, next>>, pushes' \in 0..MaxPush,
           ctail' \in 0..MaxElt, prev' \in [Elt -> 0..MaxElt], Links',
           p = Producer => ProducerKnows', p \in Consumer => ConsumerKnows(p)',
           \/ at[p] \notin Claims /\ l \notin Claims
           \/ at[p] = "popTailRead" /\ l = "clearVal" /\ d'[p] = d[p] /\ ptrs'[p] = ptrs[p]
    PROVE  PoolIInv'
<1>1. Types /\ NilPtr = 0
  BY Basics
<1>2. /\ at' \in [Process -> ProducerAt \cup ConsumerAt]
      /\ at'[Producer] \in ProducerAt
      /\ \A c \in Consumer : at'[c] \in ConsumerAt
      /\ at'[p] = l /\ Only(p)
  BY Goes
<1>3. Types'
  BY <1>1, <1>2 DEF Types, LocalsOf
<1> QED BY <1>2, <1>3, PoolQuietStep

\* Links and their change are about the chain and the counts.
LEMMA LinksKeep ==
    ASSUME Links, UNCHANGED <<headTail, chead, ctail, next, prev>>
    PROVE  Links'
  BY DEF Links, Count

\* Return of any process.
LEMMA PoolReturnStep ==
    ASSUME PoolIInv, NEW p \in Process, PoolReturn(p)
    PROVE  PoolIInv'
<1> USE Basics DEF PoolReturn
<1>1. LocalsOf(p)
  BY DEF LocalsOf, Types, Set
<1>2. at'[p] = "idle"
  BY DEF Types, GoesTo
<1>3. (p = Producer => ProducerKnows') /\ (p \in Consumer => ConsumerKnows(p)')
  BY <1>2 DEF ProducerKnows, ConsumerKnows
<1>4. Links' /\ UNCHANGED <<chead, ctail, headTail, typ, val, next, prev, pushes>>
  BY LinksKeep DEF chain, ring
<1>5. "idle" \in ProducerAt /\ "idle" \in ConsumerAt
  BY DEF ProducerAt, ConsumerAt, ProducerPC, ConsumerPC
<1>6. at[p] \notin Claims /\ "idle" \notin Claims
  BY DEF Claims, HeadClaims, TailClaims
<1>7. /\ ctail' \in 0..MaxElt /\ prev' \in [Elt -> 0..MaxElt] /\ pushes' \in 0..MaxPush
  BY <1>4 DEF Types
<1> QED BY <1>1, <1>3, <1>4, <1>5, <1>6, <1>7, LocalStep

\* A ring that is not full has room, and an empty one a count of zero.
LEMMA FullAndEmpty ==
    ASSUME PoolIInv, NEW e \in 1..chead
    PROVE  /\ ~IsFull(e, headTail[e]) => Count(e) < Size(e)
           /\ IsEmpty(headTail[e]) <=> Count(e) = 0
<1>1. IndexMod \in Nat
  BY Sizes
<1>2. PICK h \in Index, t \in Index : h = headTail[e][1] /\ t = headTail[e][2]
  BY RingOf
<1>3. PICK n \in Nat \ {0} : n = Size(e) /\ 2 * n <= IndexMod
  BY <1>1, RingOf, Sizes DEF RingSize
<1>4. h \in 0..(IndexMod - 1) /\ t \in 0..(IndexMod - 1)
  BY DEF Index
<1>5. PICK k \in Nat : k = Count(e) /\ k <= n
  BY <1>3, RingOf
<1>6. k = IF h >= t THEN h - t ELSE h - t + IndexMod
  BY <1>1, <1>2, <1>5, AheadIs, RangeOf
<1>7. (t + n) % IndexMod = IF t + n < IndexMod THEN t + n ELSE t + n - IndexMod
  <2>1. IndexMod \in Nat \ {0} /\ t \in Nat /\ n \in 0..IndexMod /\ t % IndexMod = t
    BY <1>1, <1>3, <1>4
  <2> QED BY <2>1, ModAdd
<1>8. ~IsFull(e, headTail[e]) => (t + n) % IndexMod # h
  BY <1>2, <1>3 DEF IsFull
<1>9. IsEmpty(headTail[e]) <=> h = t
  BY <1>2 DEF IsEmpty
<1>10. k = n => (t + n) % IndexMod = h
  BY <1>1, <1>3, <1>4, <1>6, <1>7
<1>11. k = 0 <=> h = t
  BY <1>1, <1>4, <1>6
<1> QED BY <1>3, <1>5, <1>8, <1>9, <1>10, <1>11

\* pushHead on a chain that has a ring, and popHead.
LEMMA PushHeadStep ==
    ASSUME PoolIInv, NEW x \in Item, PushHead(x), chead # 0
    PROVE  PoolIInv'
<1> USE Basics DEF PushHead
<1>1. LocalsOf(Producer) /\ d'[Producer] = chead /\ v'[Producer] = x
  <2>1. d' = Set(d, Producer, chead) /\ v' = Set(v, Producer, x) /\ UNCHANGED <<d2, ptrs>>
    OBVIOUS
  <2> QED BY <2>1 DEF LocalsOf, Types, Set
<1>2. at'[Producer] = "push"
  BY DEF Types, GoesTo
<1>3. UNCHANGED <<chead, ctail, headTail, typ, val, next, prev>>
  BY DEF chain
<1>4. ProducerKnows'
  BY <1>1, <1>2, <1>3 DEF ProducerKnows
<1>5. Links'
  BY <1>3, LinksKeep
<1>6. "push" \in ProducerAt
  BY DEF ProducerAt, ProducerPC
<1>7. at[Producer] \notin Claims /\ "push" \notin Claims
  BY DEF Claims, HeadClaims, TailClaims
<1>8. ctail' \in 0..MaxElt /\ prev' \in [Elt -> 0..MaxElt] /\ pushes' \in 0..MaxPush
  BY <1>3, PoolAssumption DEF Types
<1> QED BY <1>1, <1>3, <1>4, <1>5, <1>6, <1>7, <1>8, LocalStep

\* popHead begins.
LEMMA PopHeadStep ==
    ASSUME PoolIInv, PopHead
    PROVE  PoolIInv'
<1> USE Basics DEF PopHead
<1> DEFINE l == IF chead = NilPtr THEN "none" ELSE "popHead"
<1>1. LocalsOf(Producer) /\ d'[Producer] = chead
  BY DEF LocalsOf, Types, Set
<1>2. at'[Producer] = l /\ GoesTo(Producer, l)
  BY DEF Types, GoesTo
<1>3. UNCHANGED <<chead, ctail, headTail, typ, val, next, prev, pushes>>
  BY DEF chain, ring
<1>4. ProducerKnows'
  BY <1>1, <1>2, <1>3 DEF ProducerKnows
<1>5. Links'
  BY <1>3, LinksKeep
<1>6. l \in ProducerAt
  BY DEF ProducerAt, ProducerPC
<1>7. at[Producer] \notin Claims /\ l \notin Claims
  BY DEF Claims, HeadClaims, TailClaims
<1>8. ctail' \in 0..MaxElt /\ prev' \in [Elt -> 0..MaxElt] /\ pushes' \in 0..MaxPush
  BY <1>3 DEF Types
<1> HIDE DEF l
<1> QED BY <1>1, <1>2, <1>3, <1>4, <1>5, <1>6, <1>7, <1>8, LocalStep

\* The producer loads headTail to push.
LEMMA PushLoadStep ==
    ASSUME PoolIInv, PushLoad
    PROVE  PoolIInv'
<1> USE Basics DEF PushLoad
<1> DEFINE l == IF IsFull(d[Producer], headTail[d[Producer]]) THEN "grow" ELSE "pushTyp"
<1>1. d[Producer] = chead /\ chead \in 1..chead /\ v[Producer] \in Item
  BY DEF ProducerKnows
<1>2. headTail[chead] \in Index \X Index
  BY <1>1 DEF Types
<1>3. /\ LocalsOf(Producer) /\ d'[Producer] = chead /\ v'[Producer] = v[Producer]
      /\ l = "pushTyp" => ptrs'[Producer] = headTail[chead]
  BY <1>1, <1>2 DEF LocalsOf, Types, Set, Loaded
<1>4. at'[Producer] = l /\ GoesTo(Producer, l)
  BY DEF Types, GoesTo
<1>5. UNCHANGED <<chead, ctail, headTail, typ, val, next, prev, pushes>>
  BY DEF chain, ring
<1>6. l = "pushTyp" => Count(chead) < Size(chead)
  BY <1>1, FullAndEmpty
<1>7. Count(d[Producer])' = Count(chead) /\ Size(d[Producer])' = Size(chead)
  BY <1>3, <1>5 DEF Count, Size
<1>8. ProducerKnows'
  BY <1>1, <1>3, <1>4, <1>5, <1>6, <1>7 DEF ProducerKnows, head
<1>9. Links'
  BY <1>5, LinksKeep
<1>10. l \in ProducerAt
  BY DEF ProducerAt, ProducerPC
<1>11. at[Producer] \notin Claims /\ l \notin Claims
  BY DEF Claims, HeadClaims, TailClaims
<1>12. ctail' \in 0..MaxElt /\ prev' \in [Elt -> 0..MaxElt] /\ pushes' \in 0..MaxPush
  BY <1>5 DEF Types
<1> HIDE DEF l
<1> QED BY <1>3, <1>4, <1>5, <1>8, <1>9, <1>10, <1>11, <1>12, LocalStep

\* The producer loads headTail to pop.
LEMMA PopHeadLoadStep ==
    ASSUME PoolIInv, PopHeadLoad
    PROVE  PoolIInv'
<1> USE Basics DEF PopHeadLoad
<1> DEFINE l == IF IsEmpty(headTail[d[Producer]]) THEN "backUp" ELSE "popHeadCAS"
<1>1. d[Producer] \in 1..chead /\ d[Producer] \in Elt
  BY DEF ProducerKnows, Types
<1>2. headTail[d[Producer]] \in Index \X Index
  BY <1>1 DEF Types
<1>3. /\ LocalsOf(Producer) /\ d'[Producer] = d[Producer]
      /\ l = "popHeadCAS" => ptrs'[Producer] = headTail[d[Producer]]
  BY <1>1, <1>2 DEF LocalsOf, Types, Set, Loaded
<1>4. at'[Producer] = l /\ GoesTo(Producer, l)
  BY DEF Types, GoesTo
<1>5. UNCHANGED <<chead, ctail, headTail, typ, val, next, prev, pushes>>
  BY DEF chain, ring
<1>6. ProducerKnows'
  BY <1>1, <1>3, <1>4, <1>5 DEF ProducerKnows, head, tail, IsEmpty
<1>7. Links'
  BY <1>5, LinksKeep
<1>8. l \in ProducerAt
  BY DEF ProducerAt, ProducerPC
<1>9. at[Producer] \notin Claims /\ l \notin Claims
  BY DEF Claims, HeadClaims, TailClaims
<1>10. ctail' \in 0..MaxElt /\ prev' \in [Elt -> 0..MaxElt] /\ pushes' \in 0..MaxPush
  BY <1>5 DEF Types
<1> HIDE DEF l
<1> QED BY <1>3, <1>4, <1>5, <1>6, <1>7, <1>8, <1>9, <1>10, LocalStep

\* The producer goes to the ring before.
LEMMA BackUpStep ==
    ASSUME PoolIInv, BackUp
    PROVE  PoolIInv'
<1> USE Basics DEF BackUp
<1> DEFINE l == IF prev[d[Producer]] = NilPtr THEN "none" ELSE "popHead"
<1>1. d[Producer] \in 1..chead /\ d[Producer] \in Elt
  BY DEF ProducerKnows, Types
<1>2. prev[d[Producer]] \in 0..MaxElt /\ prev[d[Producer]] \in {0, d[Producer] - 1}
  BY <1>1 DEF Types, Links
<1>3. LocalsOf(Producer) /\ d'[Producer] = prev[d[Producer]]
  BY <1>1, <1>2 DEF LocalsOf, Types, Set
<1>4. at'[Producer] = l /\ GoesTo(Producer, l)
  BY DEF Types, GoesTo
<1>5. UNCHANGED <<chead, ctail, headTail, typ, val, next, prev, pushes>>
  BY DEF chain, ring
<1>6. l = "popHead" => prev[d[Producer]] \in 1..chead
  BY <1>1, <1>2
<1>7. ProducerKnows'
  BY <1>3, <1>4, <1>5, <1>6 DEF ProducerKnows
<1>8. Links'
  BY <1>5, LinksKeep
<1>9. l \in ProducerAt
  BY DEF ProducerAt, ProducerPC
<1>10. at[Producer] \notin Claims /\ l \notin Claims
  BY DEF Claims, HeadClaims, TailClaims
<1>11. ctail' \in 0..MaxElt /\ prev' \in [Elt -> 0..MaxElt] /\ pushes' \in 0..MaxPush
  BY <1>5 DEF Types
<1> HIDE DEF l
<1> QED BY <1>3, <1>4, <1>5, <1>7, <1>8, <1>9, <1>10, <1>11, LocalStep

\* A consumer starts at c.tail.
LEMMA PopTailStep ==
    ASSUME PoolIInv, NEW c \in Consumer, PopTail(c)
    PROVE  PoolIInv'
<1> USE Basics DEF PopTail
<1> DEFINE l == IF ctail = NilPtr THEN "none" ELSE "next"
<1>1. LocalsOf(c) /\ d'[c] = ctail
  BY DEF LocalsOf, Types, Set
<1>2. at'[c] = l /\ GoesTo(c, l)
  BY DEF Types, GoesTo
<1>3. UNCHANGED <<chead, ctail, headTail, typ, val, next, prev, pushes>>
  BY DEF chain, ring
<1>4. ConsumerKnows(c)'
  BY <1>1, <1>2, <1>3 DEF ConsumerKnows, Links
<1>5. Links'
  BY <1>3, LinksKeep
<1>6. l \in ConsumerAt
  BY DEF ConsumerAt, ConsumerPC
<1>7. at[c] \notin Claims /\ l \notin Claims
  BY DEF Claims, HeadClaims, TailClaims
<1>8. ctail' \in 0..MaxElt /\ prev' \in [Elt -> 0..MaxElt] /\ pushes' \in 0..MaxPush
  BY <1>3 DEF Types
<1> HIDE DEF l
<1> QED BY <1>1, <1>2, <1>3, <1>4, <1>5, <1>6, <1>7, <1>8, LocalStep

\* A consumer loads next.
LEMMA NextLoadStep ==
    ASSUME PoolIInv, NEW c \in Consumer, NextLoad(c)
    PROVE  PoolIInv'
<1> USE Basics DEF NextLoad
<1>1. d[c] \in 1..chead /\ d[c] \in Elt
  BY SMTT(30) DEF ConsumerKnows, Types, PoolIInv
<1>2. next[d[c]] \in 0..MaxElt /\ next[d[c]] = (IF d[c] < chead THEN d[c] + 1 ELSE 0)
  BY <1>1 DEF Types, Links
<1>3. LocalsOf(c) /\ d'[c] = d[c] /\ d2'[c] = next[d[c]]
  BY <1>1, <1>2 DEF LocalsOf, Types, Set
<1>4. at'[c] = "popTail"
  BY DEF Types, GoesTo
<1>5. UNCHANGED <<chead, ctail, headTail, typ, val, next, prev, pushes>>
  BY DEF chain, ring
<1>6. ConsumerKnows(c)'
  BY <1>1, <1>2, <1>3, <1>4, <1>5 DEF ConsumerKnows
<1>7. Links'
  BY <1>5, LinksKeep
<1>8. "popTail" \in ConsumerAt
  BY DEF ConsumerAt, ConsumerPC
<1>9. at[c] \notin Claims /\ "popTail" \notin Claims
  BY DEF Claims, HeadClaims, TailClaims
<1>10. ctail' \in 0..MaxElt /\ prev' \in [Elt -> 0..MaxElt] /\ pushes' \in 0..MaxPush
  BY <1>5 DEF Types
<1> QED BY <1>3, <1>5, <1>6, <1>7, <1>8, <1>9, <1>10, LocalStep

\* A consumer loads headTail; if the ring is empty and has a successor it is
\* drained.
LEMMA PopTailLoadStep ==
    ASSUME PoolIInv, NEW c \in Consumer, PopTailLoad(c)
    PROVE  PoolIInv'
<1> USE Basics DEF PopTailLoad
<1> DEFINE l == IF ~IsEmpty(headTail[d[c]]) THEN "popTailCAS"
                ELSE IF d2[c] = NilPtr THEN "none" ELSE "drained"
<1>1. d[c] \in 1..chead /\ d[c] \in Elt /\ (d2[c] = 0 \/ (d2[c] = d[c] + 1 /\ d2[c] <= chead))
  <2>1. ConsumerKnows(c) /\ chead \in 0..MaxElt
    BY DEF Types, PoolIInv
  <2>2. d[c] \in 1..chead /\ (d2[c] = 0 \/ (d2[c] = d[c] + 1 /\ d2[c] <= chead))
    BY <2>1 DEF ConsumerKnows
  <2> QED BY <2>1, <2>2
<1>2. headTail[d[c]] \in Index \X Index
  BY <1>1 DEF Types
<1>3. /\ LocalsOf(c) /\ d'[c] = d[c] /\ d2'[c] = d2[c]
      /\ l = "popTailCAS" => ptrs'[c] = headTail[d[c]]
  BY <1>1, <1>2 DEF LocalsOf, Types, Set, Loaded
<1>4. at'[c] = l /\ GoesTo(c, l)
  BY DEF Types, GoesTo
<1>5. UNCHANGED <<chead, ctail, headTail, typ, val, next, prev, pushes>>
  BY DEF chain, ring
<1>6. l = "drained" => Count(d[c]) = 0 /\ d2[c] # 0
  BY <1>1, FullAndEmpty
<1>7. Count(d[c])' = Count(d[c])
  BY <1>3, <1>5 DEF Count
<1>8. l = "popTailCAS" => head(c)' # tail(c)'
  BY <1>3 DEF head, tail, IsEmpty
<1>9. l \in {"popTailCAS", "none", "drained"}
  OBVIOUS
<1>10. l \in ConsumerAt
  BY DEF ConsumerAt, ConsumerPC
<1>11. at[c] \notin Claims /\ l \notin Claims
  BY DEF Claims, HeadClaims, TailClaims
<1> HIDE DEF l
<1>12. ConsumerKnows(c)'
  BY <1>1, <1>3, <1>4, <1>5, <1>6, <1>7, <1>8, <1>9 DEF ConsumerKnows
<1>13. Links'
  BY <1>5, LinksKeep
<1>14. ctail' \in 0..MaxElt /\ prev' \in [Elt -> 0..MaxElt] /\ pushes' \in 0..MaxPush
  BY <1>5 DEF Types
<1> QED BY <1>3, <1>4, <1>5, <1>10, <1>11, <1>12, <1>13, <1>14, LocalStep

\* A consumer moves c.tail past a ring that it has found drained, or finds that
\* another one has.
LEMMA DrainedStep ==
    ASSUME PoolIInv, NEW c \in Consumer, Drained(c)
    PROVE  PoolIInv'
<1> USE Basics DEF Drained
<1>1. /\ d[c] \in 1..chead /\ d[c] \in Elt /\ d2[c] = d[c] + 1 /\ d2[c] <= chead
      /\ d2[c] \in 0..MaxElt /\ Count(d[c]) = 0
  <2>1. ConsumerKnows(c) /\ d2[c] \in 0..MaxElt /\ chead \in 0..MaxElt
    BY DEF Types, PoolIInv
  <2>2. d[c] \in 1..chead /\ d2[c] = d[c] + 1 /\ d2[c] <= chead /\ Count(d[c]) = 0
    BY <2>1 DEF ConsumerKnows
  <2> QED BY <2>1, <2>2
<1>2. UNCHANGED <<chead, headTail, typ, val, next, prev, pushes, d2, ptrs, v>>
  BY DEF ring
<1>3. \A e \in Elt : Count(e)' = Count(e)
  BY <1>2 DEF Count
<1>4. "clearPrev" \in ConsumerAt /\ "next" \in ConsumerAt
  BY DEF ConsumerAt, ConsumerPC
<1>5. at[c] \notin Claims /\ "clearPrev" \notin Claims /\ "next" \notin Claims
  BY DEF Claims, HeadClaims, TailClaims
<1>6. prev' \in [Elt -> 0..MaxElt] /\ pushes' \in 0..MaxPush
  BY <1>2 DEF Types
<1>7. CASE ctail = d[c] /\ ctail' = d2[c] /\ GoesTo(c, "clearPrev") /\ UNCHANGED d
  <2>1. LocalsOf(c)
    BY <1>2, <1>7 DEF LocalsOf, Types
  <2>2. at'[c] = "clearPrev"
    BY <1>7 DEF Types, GoesTo
  <2>3. Count(d[c])' = Count(d[c])
    BY <1>2, <1>7 DEF Count
  <2>4. ConsumerKnows(c)'
    BY <1>1, <1>2, <1>7, <2>2, <2>3 DEF ConsumerKnows
  <2>5. Links'
    <3>1. ctail' <= chead' /\ (ctail' = 0 <=> chead' = 0)
      BY <1>1, <1>2, <1>7
    <3>2. ASSUME NEW e \in Elt, e < ctail'
          PROVE  Count(e)' = 0
      <4>1. e < ctail \/ e = d[c]
        BY <1>1, <1>7, <3>2
      <4>2. Count(e) = 0
        BY <1>1, <4>1 DEF Links
      <4> QED BY <1>3, <4>2
    <3> QED BY <1>2, <3>1, <3>2 DEF Links
  <2>6. ctail' \in 0..MaxElt
    BY <1>1, <1>7
  <2> QED BY <1>2, <1>4, <1>5, <1>6, <1>7, <2>1, <2>4, <2>5, <2>6, LocalStep
<1>8. CASE ctail # d[c] /\ d' = Set(d, c, d2[c]) /\ GoesTo(c, "next") /\ UNCHANGED ctail
  <2>1. LocalsOf(c) /\ d'[c] = d2[c]
    BY <1>1, <1>2, <1>8 DEF LocalsOf, Types, Set
  <2>2. at'[c] = "next"
    BY <1>8 DEF Types, GoesTo
  <2>3. ConsumerKnows(c)'
    BY <1>1, <1>2, <2>1, <2>2 DEF ConsumerKnows
  <2>4. Links' /\ ctail' \in 0..MaxElt
    BY <1>2, <1>8, LinksKeep DEF Types
  <2> QED BY <1>2, <1>4, <1>5, <1>6, <1>8, <2>1, <2>3, <2>4, LocalStep
<1> QED BY <1>7, <1>8

\* The consumer that has moved c.tail cuts the ring off.
LEMMA ClearPrevStep ==
    ASSUME PoolIInv, NEW c \in Consumer, ClearPrev(c)
    PROVE  PoolIInv'
<1> USE Basics DEF ClearPrev
<1>1. d[c] \in 1..chead /\ d2[c] = d[c] + 1 /\ d2[c] <= chead /\ d2[c] \in Elt
  <2>1. ConsumerKnows(c) /\ d2[c] \in 0..MaxElt /\ chead \in 0..MaxElt
    BY DEF Types, PoolIInv
  <2>2. d[c] \in 1..chead /\ d2[c] = d[c] + 1 /\ d2[c] <= chead
    BY <2>1 DEF ConsumerKnows
  <2> QED BY <2>1, <2>2
<1>2. UNCHANGED <<chead, ctail, headTail, typ, val, next, pushes, d2, ptrs, v>>
  BY DEF ring
<1>3. /\ prev' \in [Elt -> 0..MaxElt]
      /\ \A e \in Elt : prev'[e] = prev[e] \/ prev'[e] = 0
  BY <1>1 DEF Types, Set
<1>4. LocalsOf(c) /\ d'[c] = d2[c]
  BY <1>1, <1>2 DEF LocalsOf, Types, Set
<1>5. at'[c] = "next"
  BY DEF Types, GoesTo
<1>6. ConsumerKnows(c)'
  BY <1>1, <1>2, <1>4, <1>5 DEF ConsumerKnows
<1>7. \A e \in Elt : Count(e)' = Count(e)
  BY <1>2 DEF Count
<1>8. Links'
  BY <1>2, <1>3, <1>7 DEF Links
<1>9. "next" \in ConsumerAt
  BY DEF ConsumerAt, ConsumerPC
<1>10. at[c] \notin Claims /\ "next" \notin Claims
  BY DEF Claims, HeadClaims, TailClaims
<1>11. ctail' \in 0..MaxElt /\ pushes' \in 0..MaxPush
  BY <1>2 DEF Types
<1> QED BY <1>2, <1>3, <1>4, <1>6, <1>8, <1>9, <1>10, <1>11, LocalStep

\* What is in a slot that a process has claimed to pop it.
LEMMA ClaimedSlot ==
    ASSUME PoolIInv, NEW p \in Process, NEW e \in 1..chead, d[p] = e, at[p] \in Claims
    PROVE  /\ Claim(p, e) \in (1..Size(e)) \ InRange(e)
           /\ SlotState(at[p], typ[e][Claim(p, e)], val[e][Claim(p, e)])
           /\ \A q \in Process \ {p} : Claim(q, e) # Claim(p, e)
           /\ at[p] \in HeadClaims => Claim(p, e) = Slot(e, head(p))
           /\ at[p] \in TailClaims => Claim(p, e) = Slot(e, tail(p))
<1> USE Basics
<1>1. /\ at[p] \in HeadClaims => Claim(p, e) = Slot(e, head(p))
      /\ at[p] \in TailClaims => Claim(p, e) = Slot(e, tail(p))
  BY DEF Claim, HeadClaims, TailClaims
<1>2. RingSize(Size(e)) /\ e \in Elt
  BY RingOf
<1>3. head(p) \in Index /\ tail(p) \in Index
  BY DEF Types, head, tail
<1>4. Claim(p, e) \in 1..Size(e)
  BY <1>1, <1>2, <1>3, SlotIn, RangeOf DEF Claims
<1>5. Claim(p, e) # 0 /\ SlotsOK(e)
  BY <1>2, <1>4 DEF PoolIInv, RingSize
<1> QED BY <1>1, <1>5 DEF SlotsOK

\* A consumer reads its slot.
LEMMA PopTailReadStep ==
    ASSUME PoolIInv, NEW c \in Consumer, PopTailRead(c)
    PROVE  PoolIInv'
<1> USE Basics DEF PopTailRead
<1>1. d[c] \in 1..chead
  BY DEF ConsumerKnows, PoolIInv
<1>2. PICK e \in 1..chead : e = d[c]
  BY <1>1
<1>3. PICK i \in 1..Size(e) : i = Slot(e, tail(c)) /\ val[e][i] # 0
  BY <1>2, ClaimedSlot DEF Claims, HeadClaims, TailClaims, SlotState
<1>4. val[e][i] \in Stored
  <2>1. val[e] \in Seq(Stored) /\ Size(e) = Len(val[e])
    BY RingOf
  <2> QED BY <2>1
<1>5. Unboxed(val[e][i]) \in Item
  BY <1>3, <1>4, PoolAssumption DEF Unboxed, Stored
<1>6. LocalsOf(c) /\ d'[c] = d[c] /\ ptrs'[c] = ptrs[c]
  <2>1. v' = Set(v, c, Unboxed(val[e][i])) /\ UNCHANGED <<d, d2, ptrs>>
    BY <1>2, <1>3
  <2> QED BY <1>5, <2>1 DEF LocalsOf, Types, Set
<1>7. at'[c] = "clearVal"
  BY DEF Types, GoesTo
<1>8. UNCHANGED <<chead, ctail, headTail, typ, val, next, prev, pushes>>
  BY DEF chain, ring
<1>9. ConsumerKnows(c)'
  BY <1>1, <1>6, <1>7, <1>8 DEF ConsumerKnows
<1>10. Links'
  BY <1>8, LinksKeep
<1>11. "clearVal" \in ConsumerAt
  BY DEF ConsumerAt, ConsumerPC
<1>12. ctail' \in 0..MaxElt /\ prev' \in [Elt -> 0..MaxElt] /\ pushes' \in 0..MaxPush
  BY <1>8 DEF Types
<1> QED BY <1>6, <1>8, <1>9, <1>10, <1>11, <1>12, LocalStep

-----------------------------------------------------------------------------
(* Steps that change a ring *)

\* A step of p that changes ring e and nothing else of the chain.
RingFrame(p, e) ==
    /\ UNCHANGED <<chead, ctail, next, prev, pushes>>
    /\ headTail' \in [Elt -> Index \X Index]
    /\ typ' \in [Elt -> Seq(BOOLEAN)] /\ val' \in [Elt -> Seq(Stored)]
    /\ \A f \in Elt \ {e} : SameRing(f)
    /\ Size(e)' = Size(e) /\ Len(val'[e]) = Size(e)
    /\ Count(e)' \in Nat /\ Count(e)' <= Size(e)
    /\ Count(e)' <= Count(e) \/ (p = Producer /\ e = chead)
    /\ p \in Consumer => headTail'[e][1] = headTail[e][1]

\* Such a step keeps the invariant, if p and the slots do.
LEMMA RingIInv ==
    ASSUME PoolIInv, NEW p \in Process, NEW l, GoesTo(p, l), LocalsOf(p),
           p = Producer => l \in ProducerAt, p \in Consumer => l \in ConsumerAt,
           NEW e \in 1..chead, RingFrame(p, e),
           p = Producer => ProducerKnows', p \in Consumer => ConsumerKnows(p)',
           \A f \in Elt : SlotsOK(f)'
    PROVE  PoolIInv'
<1> USE Basics DEF RingFrame
<1>1. /\ at' \in [Process -> ProducerAt \cup ConsumerAt]
      /\ at'[Producer] \in ProducerAt
      /\ \A c \in Consumer : at'[c] \in ConsumerAt
      /\ at'[p] = l /\ Only(p)
  BY Goes
<1>2. Types'
  BY <1>1 DEF Types, LocalsOf
<1>3. \A f \in Elt \ {e} : Size(f)' = Size(f) /\ Count(f)' = Count(f)
  BY DEF SameRing, Size, Count
<1>4. e \in Elt /\ RingSize(Size(e)) /\ Count(e) \in Nat /\ e <= chead
  BY RingOf
<1>5. Rings'
  <2>1. ASSUME NEW f \in Elt
        PROVE  /\ Len(val'[f]) = Size(f)'
               /\ f <= chead' => RingSize(Size(f)') /\ Count(f)' <= Size(f)'
               /\ f > chead' => Size(f)' = 0 /\ headTail'[f] = <<0, 0>>
    <3>1. CASE f = e
      BY <1>4, <3>1
    <3>2. CASE f # e
      BY <1>3, <3>2 DEF Rings, SameRing
    <3> QED BY <3>1, <3>2
  <2> QED BY <2>1 DEF Rings, RingSize
<1>6. ASSUME NEW f \in Elt, f < chead, Count(f) = 0
      PROVE  Count(f)' = 0
  <2>1. CASE f = e
    BY <1>4, <1>6, <2>1
  <2>2. CASE f # e
    BY <1>3, <1>6, <2>2
  <2> QED BY <2>1, <2>2
<1>7. Links'
  BY <1>6 DEF Links
<1>8. ProducerKnows'
  <2>1. CASE p = Producer
    BY <2>1
  <2>2. CASE p # Producer
    <3>1. p \in Consumer /\ headTail'[e][1] = headTail[e][1] /\ Count(e)' <= Count(e)
      BY <2>2
    <3>2. ASSUME NEW f \in 1..chead
          PROVE  /\ Size(f)' = Size(f) /\ headTail'[f][1] = headTail[f][1]
                 /\ Count(f)' \in Nat /\ Count(f)' <= Count(f)
      <4>1. f \in Elt /\ Count(f) \in Nat
        BY RingOf
      <4>2. CASE f = e
        BY <3>1, <4>2
      <4>3. CASE f # e
        <5>1. SameRing(f) /\ Size(f)' = Size(f) /\ Count(f)' = Count(f)
          BY <1>3, <4>1, <4>3
        <5>2. headTail'[f][1] = headTail[f][1]
          BY <5>1 DEF SameRing
        <5> QED BY <4>1, <5>1, <5>2
      <4> QED BY <4>2, <4>3
    <3> QED BY <1>1, <2>2, <3>2, ProducerKeeps DEF Only
  <2> QED BY <2>1, <2>2
<1>9. ASSUME NEW c \in Consumer
      PROVE  ConsumerKnows(c)'
  <2>1. CASE c = p
    BY <2>1
  <2>2. CASE c # p
    <3>1. /\ at'[c] = at[c] /\ d'[c] = d[c] /\ d2'[c] = d2[c] /\ ptrs'[c] = ptrs[c]
      BY <1>1, <2>2 DEF Only
    <3>2. ASSUME d[c] \in 1..chead, d[c] < chead, Count(d[c]) = 0
          PROVE  Count(d[c])' = 0
      <4>1. PICK f \in Elt : f = d[c] /\ f < chead
        BY <3>2 DEF Types
      <4>2. Count(f)' = 0
        BY <1>6, <3>2, <4>1
      <4>3. Count(d[c])' = Count(f)'
        BY <3>1, <4>1 DEF Count
      <4> QED BY <4>2, <4>3
    <3> QED BY <3>1, <3>2, ConsumerKeeps DEF PoolIInv
  <2> QED BY <2>1, <2>2
<1> QED BY <1>2, <1>5, <1>7, <1>8, <1>9 DEF PoolIInv

\* f after a write to slot i of ring e.
Put(f, e, i, b) == [f EXCEPT ![e][i] = b]

\* Types of a write to a slot.
LEMMA WriteTyp ==
    ASSUME PoolIInv, NEW e \in 1..chead, NEW i \in 1..Size(e), NEW b \in BOOLEAN,
           typ' = Put(typ, e, i, b)
    PROVE  /\ typ' \in [Elt -> Seq(BOOLEAN)] /\ Size(e)' = Size(e)
           /\ typ'[e][i] = b /\ \A j \in (1..Size(e)) \ {i} : typ'[e][j] = typ[e][j]
           /\ \A f \in Elt \ {e} : typ'[f] = typ[f]
<1> USE DEF Put
<1>1. e \in Elt /\ typ \in [Elt -> Seq(BOOLEAN)] /\ Size(e) = Len(typ[e])
  BY RingOf, Basics DEF Types
<1>2. typ'[e] = [typ[e] EXCEPT ![i] = b] /\ \A f \in Elt \ {e} : typ'[f] = typ[f]
  BY <1>1
<1>3. [typ[e] EXCEPT ![i] = b] \in Seq(BOOLEAN) /\ Len([typ[e] EXCEPT ![i] = b]) = Len(typ[e])
  BY <1>1, ExceptSeq
<1>4. typ' = [f \in Elt |-> IF f = e THEN [typ[e] EXCEPT ![i] = b] ELSE typ[f]]
  BY <1>1
<1>5. typ' \in [Elt -> Seq(BOOLEAN)]
  BY <1>1, <1>3, <1>4
<1>6. typ'[e][i] = b /\ \A j \in (1..Size(e)) \ {i} : typ'[e][j] = typ[e][j]
  BY <1>1, <1>2
<1> QED BY <1>1, <1>2, <1>3, <1>5, <1>6 DEF Size

\* The same for the second word of the slot.
LEMMA WriteVal ==
    ASSUME PoolIInv, NEW e \in 1..chead, NEW i \in 1..Size(e), NEW b \in Stored,
           val' = Put(val, e, i, b)
    PROVE  /\ val' \in [Elt -> Seq(Stored)] /\ Len(val'[e]) = Size(e)
           /\ val'[e][i] = b /\ \A j \in (1..Size(e)) \ {i} : val'[e][j] = val[e][j]
           /\ \A f \in Elt \ {e} : val'[f] = val[f]
<1> USE DEF Put
<1>1. e \in Elt /\ val \in [Elt -> Seq(Stored)] /\ Size(e) = Len(val[e])
  BY RingOf, Basics DEF Types
<1>2. val'[e] = [val[e] EXCEPT ![i] = b] /\ \A f \in Elt \ {e} : val'[f] = val[f]
  BY <1>1
<1>3. [val[e] EXCEPT ![i] = b] \in Seq(Stored) /\ Len([val[e] EXCEPT ![i] = b]) = Len(val[e])
  BY <1>1, ExceptSeq
<1>4. val' = [f \in Elt |-> IF f = e THEN [val[e] EXCEPT ![i] = b] ELSE val[f]]
  BY <1>1
<1>5. val' \in [Elt -> Seq(Stored)]
  BY <1>1, <1>3, <1>4
<1>6. val'[e][i] = b /\ \A j \in (1..Size(e)) \ {i} : val'[e][j] = val[e][j]
  BY <1>1, <1>2
<1> QED BY <1>1, <1>2, <1>3, <1>5, <1>6

\* An update of headTail, and what it changes.
Redone(e, h, t) == headTail' = [headTail EXCEPT ![e] = <<h, t>>]

\* It keeps the types.
LEMMA WriteHeadTail ==
    ASSUME PoolIInv, NEW e \in 1..chead, NEW h \in Index, NEW t \in Index,
           Redone(e, h, t)
    PROVE  /\ headTail' \in [Elt -> Index \X Index]
           /\ headTail'[e][1] = h /\ headTail'[e][2] = t
           /\ \A f \in Elt \ {e} : headTail'[f] = headTail[f]
           /\ Count(e)' = Ahead(h, t)
<1> USE DEF Redone
<1>1. e \in Elt /\ headTail \in [Elt -> Index \X Index]
  BY RingOf, Basics DEF Types
<1>2. /\ headTail' \in [Elt -> Index \X Index] /\ headTail'[e] = <<h, t>>
      /\ \A f \in Elt \ {e} : headTail'[f] = headTail[f]
  BY <1>1
<1> QED BY <1>2 DEF Count, Ahead

\* A step that leaves headTail and the size of a ring alone.
LEMMA SameRange ==
    ASSUME NEW e, headTail'[e] = headTail[e], Size(e)' = Size(e)
    PROVE  InRange(e)' = InRange(e) /\ Count(e)' = Count(e)
  BY DEF InRange, Count, Slot

\* The slot at the head of a ring that has room is outside the range.
LEMMA HeadRoom ==
    ASSUME PoolIInv, NEW e \in 1..chead, Count(e) < Size(e)
    PROVE  Slot(e, headTail[e][1]) \in (1..Size(e)) \ InRange(e)
<1>1. /\ RingSize(Size(e))
      /\ headTail[e][1] \in Index /\ headTail[e][2] \in Index
  BY RingOf, Basics
<1>2. SlotAt(Size(e), headTail[e][1]) \in 1..Size(e)
  BY <1>1, SlotIn
<1>3. /\ Count(e) = Ahead(headTail[e][1], headTail[e][2])
      /\ InRange(e) = SlotsFrom(Size(e), headTail[e][2], Count(e))
      /\ Slot(e, headTail[e][1]) = SlotAt(Size(e), headTail[e][1])
  BY RangeOf
<1>4. SlotAt(Size(e), headTail[e][1]) \notin SlotsFrom(Size(e), headTail[e][2], Ahead(headTail[e][1], headTail[e][2]))
  BY <1>1, <1>3, RingPush
<1> QED BY <1>2, <1>3, <1>4

\* pushHead finds the slot at the head released, and claims it; or gives up.
LEMMA PushTypStep ==
    ASSUME PoolIInv, PushTyp
    PROVE  PoolIInv'
<1> USE Basics DEF PushTyp
<1>1. /\ d[Producer] = chead /\ chead \in 1..chead /\ v[Producer] \in Item
      /\ head(Producer) = headTail[chead][1] /\ Count(chead) < Size(chead)
  BY DEF ProducerKnows
<1>2. UNCHANGED <<chead, ctail, next, prev, pushes, headTail, typ, val, d, d2, v>>
  BY DEF chain, ring
<1>3. Count(d[Producer])' = Count(d[Producer]) /\ Size(d[Producer])' = Size(d[Producer])
  BY <1>2 DEF Count, Size
<1>4. CASE IsReleased(d[Producer], head(Producer)) /\ GoesTo(Producer, "pushWrite") /\ UNCHANGED ptrs
  <2>1. PICK e \in 1..chead : e = chead /\ e = d[Producer]
    BY <1>1
  <2>2. PICK i \in 1..Size(e) : i = Slot(e, head(Producer)) /\ i \notin InRange(e)
    BY <1>1, <2>1, HeadRoom
  <2>3. ~typ[e][i]
    BY <1>4, <2>1, <2>2 DEF IsReleased
  <2>4. e \in Elt /\ RingSize(Size(e)) /\ Size(e) \in Nat \ {0} /\ SlotsOK(e)
        /\ Len(val[e]) = Size(e) /\ Count(e) \in Nat /\ Count(e) <= Size(e)
    BY RingOf DEF PoolIInv
  <2>5. ASSUME NEW q \in Process
        PROVE  Claim(q, e) # i
    <3>1. SUFFICES ASSUME Claim(q, e) = i
                   PROVE  FALSE
      OBVIOUS
    <3>2. SlotState(at[q], typ[e][i], val[e][i])
      <4>1. Claim(q, e) # 0
        BY <2>4, <3>1
      <4>2. SlotState(at[q], typ[e][Claim(q, e)], val[e][Claim(q, e)])
        BY <2>4, <4>1 DEF SlotsOK
      <4> QED BY <3>1, <4>2
    <3>3. at[q] = "pushWrite"
      BY <2>3, <3>2 DEF SlotState
    <3>4. q = Producer
      BY <3>3 DEF Types, ConsumerAt, ConsumerPC
    <3> QED BY <3>3, <3>4
  <2>6. val[e][i] = 0
    BY <2>2, <2>4, <2>5 DEF SlotsOK
  <2>7. LocalsOf(Producer)
    BY <1>2, <1>4 DEF LocalsOf, Types
  <2>8. "pushWrite" \in ProducerAt
    BY DEF ProducerAt, ProducerPC
  <2>9. at'[Producer] = "pushWrite" /\ Only(Producer)
    BY <1>4, <2>7, <2>8, Goes
  <2>10. Claim(Producer, e) = 0
    BY NoClaim DEF Claims, HeadClaims, TailClaims
  <2>11. Claim(Producer, e)' = i
    BY <1>2, <1>4, <2>1, <2>2, <2>9 DEF Claim, HeadClaims, Slot, Size, head
  <2>12. \A f \in Elt : SameRing(f)
    BY <1>2 DEF SameRing
  <2>13. InRange(e)' = InRange(e) /\ Count(e)' = Count(e) /\ Size(e)' = Size(e)
    BY <1>2, SameRange DEF Size
  <2>14. SlotState(at'[Producer], typ'[e][i], val'[e][i])
    BY <1>2, <2>3, <2>6, <2>9 DEF SlotState
  <2>15. \A f \in Elt : SlotsOK(f)'
    <3>1. typ'[e] = typ[e] /\ val'[e] = val[e] /\ d[Producer] = e /\ d'[Producer] = e
      BY <1>2, <2>1
    <3>2. SlotStep(Producer, e, i)
      BY <2>2, <2>3, <2>5, <2>6, <2>10, <2>11, <2>12, <2>13, <2>14, <3>1 DEF SlotStep
    <3> QED BY <2>9, <3>2, RingStep
  <2>16. ProducerKnows'
    BY <1>1, <1>2, <1>3, <1>4, <2>9 DEF ProducerKnows, head
  <2>17. /\ headTail' \in [Elt -> Index \X Index] /\ Len(val'[e]) = Size(e)
         /\ typ' \in [Elt -> Seq(BOOLEAN)] /\ val' \in [Elt -> Seq(Stored)]
    BY <1>2, <2>4 DEF Types
  <2>18. RingFrame(Producer, e)
    BY <1>2, <2>4, <2>12, <2>13, <2>17 DEF RingFrame
  <2> QED BY <1>4, <2>7, <2>8, <2>15, <2>16, <2>18, RingIInv
<1>5. CASE GoesTo(Producer, "grow") /\ ptrs' = Set(ptrs, Producer, <<0, 0>>)
  <2>1. LocalsOf(Producer)
    BY <1>2, <1>5 DEF LocalsOf, Types, Set
  <2>2. at'[Producer] = "grow"
    BY <1>5 DEF Types, GoesTo
  <2>3. ProducerKnows'
    BY <1>1, <1>2, <2>2 DEF ProducerKnows
  <2>4. Links'
    BY <1>2, LinksKeep
  <2>5. "grow" \in ProducerAt
    BY DEF ProducerAt, ProducerPC
  <2>6. at[Producer] \notin Claims /\ "grow" \notin Claims
    BY DEF Claims, HeadClaims, TailClaims
  <2>7. ctail' \in 0..MaxElt /\ prev' \in [Elt -> 0..MaxElt] /\ pushes' \in 0..MaxPush
    BY <1>2 DEF Types
  <2> QED BY <1>2, <1>5, <2>1, <2>3, <2>4, <2>5, <2>6, <2>7, LocalStep
<1> QED BY <1>4, <1>5

\* pushHead writes the slot it has claimed.
LEMMA PushWriteStep ==
    ASSUME PoolIInv, PushWrite
    PROVE  PoolIInv'
<1> USE Basics
<1>0. /\ at[Producer] = "pushWrite" /\ GoesTo(Producer, "pushAdd")
      /\ typ' = [typ EXCEPT ![d[Producer]][Slot(d[Producer], head(Producer))] = Boxed(v[Producer]) # NilItem]
      /\ val' = [val EXCEPT ![d[Producer]][Slot(d[Producer], head(Producer))] = Boxed(v[Producer])]
      /\ UNCHANGED <<chead, ctail, next, prev, pushes, headTail, d, d2, ptrs, v>>
  BY DEF PushWrite, chain
<1>1. PICK e \in 1..chead : /\ e = chead /\ e = d[Producer] /\ v[Producer] \in Item
                            /\ head(Producer) = headTail[e][1] /\ Count(e) < Size(e)
  BY <1>0 DEF ProducerKnows
<1>2. PICK i \in 1..Size(e) : /\ i = Claim(Producer, e) /\ i = Slot(e, head(Producer))
                                /\ i \notin InRange(e)
                                /\ \A q \in Process \ {Producer} : Claim(q, e) # i
  BY <1>0, <1>1, ClaimedSlot DEF Claims, HeadClaims
<1>3. UNCHANGED <<chead, ctail, next, prev, pushes, headTail, d, d2, ptrs, v>>
  BY <1>0
<1>4. Boxed(v[Producer]) \in Stored /\ Boxed(v[Producer]) # 0 /\ Boxed(v[Producer]) # NilItem
  BY <1>1, PoolAssumption DEF Boxed, Stored
<1>5. /\ typ' \in [Elt -> Seq(BOOLEAN)] /\ Size(e)' = Size(e)
      /\ typ'[e][i] = TRUE /\ \A j \in (1..Size(e)) \ {i} : typ'[e][j] = typ[e][j]
      /\ \A f \in Elt \ {e} : typ'[f] = typ[f]
  <2>1. typ' = Put(typ, e, i, TRUE)
    BY <1>0, <1>1, <1>2, <1>4 DEF Put
  <2> QED BY <2>1, WriteTyp
<1>6. /\ val' \in [Elt -> Seq(Stored)] /\ Len(val'[e]) = Size(e)
      /\ val'[e][i] # 0 /\ \A j \in (1..Size(e)) \ {i} : val'[e][j] = val[e][j]
      /\ \A f \in Elt \ {e} : val'[f] = val[f]
  <2>1. PICK b \in Stored : b = Boxed(v[Producer]) /\ b # 0
    BY <1>4
  <2>2. val' = Put(val, e, i, b)
    BY <1>0, <1>1, <1>2, <2>1 DEF Put
  <2>3. /\ val' \in [Elt -> Seq(Stored)] /\ Len(val'[e]) = Size(e)
        /\ val'[e][i] = b /\ \A j \in (1..Size(e)) \ {i} : val'[e][j] = val[e][j]
        /\ \A f \in Elt \ {e} : val'[f] = val[f]
    BY <2>2, WriteVal
  <2> QED BY <2>1, <2>3
<1>7. LocalsOf(Producer)
  BY <1>3 DEF LocalsOf, Types
<1>8. "pushAdd" \in ProducerAt
  BY DEF ProducerAt, ProducerPC
<1>9. at'[Producer] = "pushAdd" /\ Only(Producer) /\ GoesTo(Producer, "pushAdd")
  BY <1>0, <1>7, <1>8, Goes
<1>10. Claim(Producer, e)' = i
  BY <1>1, <1>2, <1>3, <1>5, <1>9 DEF Claim, HeadClaims, Slot, head
<1>11. \A f \in Elt \ {e} : SameRing(f)
  BY <1>3, <1>5, <1>6 DEF SameRing
<1>12. InRange(e)' = InRange(e) /\ Count(e)' = Count(e)
  BY <1>3, <1>5, SameRange
<1>13. SlotState(at'[Producer], typ'[e][i], val'[e][i])
  BY <1>5, <1>6, <1>9 DEF SlotState
<1>14. \A f \in Elt : SlotsOK(f)'
  <2>1. d[Producer] = e /\ d'[Producer] = e
    BY <1>1, <1>3
  <2>2. SlotStep(Producer, e, i)
    BY <1>2, <1>5, <1>6, <1>10, <1>11, <1>12, <1>13, <2>1 DEF SlotStep
  <2> QED BY <1>9, <2>2, RingStep
<1>15. ProducerKnows'
  <2>1. Count(d[Producer])' = Count(e)' /\ Size(d[Producer])' = Size(e)'
    BY <1>1, <1>3 DEF Count, Size
  <2>2. head(Producer)' = headTail'[d'[Producer]][1]
    BY <1>1, <1>3 DEF head
  <2>3. d'[Producer] = chead' /\ chead' > 0 /\ v'[Producer] \in Item
    <3>1. chead > 0 /\ d[Producer] = chead /\ v[Producer] \in Item
      BY <1>1
    <3> QED BY <1>3, <3>1
  <2>4. Count(d[Producer])' < Size(d[Producer])'
    BY <1>1, <1>5, <1>12, <2>1
  <2> QED BY <1>9, <2>2, <2>3, <2>4 DEF ProducerKnows
<1>16. headTail' \in [Elt -> Index \X Index] /\ Count(e) \in Nat /\ Count(e) <= Size(e)
  BY <1>3, RingOf DEF Types
<1>17. RingFrame(Producer, e)
  <2> QED BY <1>3, <1>5, <1>6, <1>11, <1>12, <1>16 DEF RingFrame
<1> QED BY <1>7, <1>8, <1>9, <1>14, <1>15, <1>17, RingIInv

\* One component of a pair of indices is replaced.
LEMMA PairExcept ==
    ASSUME NEW S, NEW x \in S \X S, NEW y
    PROVE  [x EXCEPT ![1] = y] = <<y, x[2]>>
  OBVIOUS

\* pushHead moves the head: the slot comes into the range.
LEMMA PushAddStep ==
    ASSUME PoolIInv, PushAdd
    PROVE  PoolIInv'
<1> USE Basics
<1>0. /\ at[Producer] = "pushAdd" /\ GoesTo(Producer, "idle")
      /\ headTail' = [headTail EXCEPT ![d[Producer]][1] = AddOne(@)]
      /\ d' = Set(d, Producer, NilPtr) /\ ptrs' = Set(ptrs, Producer, <<0, 0>>)
      /\ v' = Set(v, Producer, NilPtr)
      /\ UNCHANGED <<chead, ctail, next, prev, pushes, typ, val, d2>>
  BY DEF PushAdd, chain
<1>1. PICK e \in 1..chead : /\ e = chead /\ e = d[Producer]
                            /\ head(Producer) = headTail[e][1] /\ Count(e) < Size(e)
  BY <1>0 DEF ProducerKnows
<1>2. PICK i \in 1..Size(e) : /\ i = Claim(Producer, e) /\ i = Slot(e, headTail[e][1])
                                /\ typ[e][i] /\ val[e][i] # 0
                                /\ \A q \in Process \ {Producer} : Claim(q, e) # i
  BY <1>0, <1>1, ClaimedSlot DEF Claims, HeadClaims, SlotState
<1>3. PICK h \in Index, t \in Index : headTail[e] = <<h, t>> /\ h = headTail[e][1] /\ t = headTail[e][2]
  BY RingOf
<1>4. PICK h1 \in Index : h1 = AddOne(h)
  BY NextIndex
<1>5. e \in Elt /\ RingSize(Size(e)) /\ Size(e) \in Nat \ {0} /\ Len(val[e]) = Size(e)
  BY RingOf
<1>6. Redone(e, h1, t)
  <2>1. headTail' = [headTail EXCEPT ![e] = [headTail[e] EXCEPT ![1] = h1]]
    BY <1>0, <1>1, <1>3, <1>4
  <2>2. headTail[e] \in Index \X Index
    BY <1>3
  <2>3. [headTail[e] EXCEPT ![1] = h1] = <<h1, t>>
    BY <1>3, <2>2, PairExcept
  <2> QED BY <2>1, <2>3 DEF Redone
<1>7. /\ headTail' \in [Elt -> Index \X Index]
      /\ headTail'[e][1] = h1 /\ headTail'[e][2] = t
      /\ \A f \in Elt \ {e} : headTail'[f] = headTail[f]
      /\ Count(e)' = Ahead(h1, t)
  BY <1>6, WriteHeadTail
<1>8. Count(e) = Ahead(h, t) /\ InRange(e) = SlotsFrom(Size(e), t, Ahead(h, t)) /\ i = SlotAt(Size(e), h)
  BY <1>2, <1>3, RangeOf
<1>9. /\ Ahead(h1, t) = Ahead(h, t) + 1
      /\ SlotsFrom(Size(e), t, Ahead(h, t) + 1) = SlotsFrom(Size(e), t, Ahead(h, t)) \cup {i}
  BY <1>1, <1>4, <1>5, <1>8, RingPush
<1>10. Size(e)' = Size(e)
  BY <1>0 DEF Size
<1>11. InRange(e)' = InRange(e) \cup {i}
  <2>1. InRange(e)' = SlotsFrom(Size(e)', headTail'[e][2], Count(e)')
    BY DEF InRange, SlotsFrom, Slot, SlotAt
  <2> QED BY <1>7, <1>8, <1>9, <1>10, <2>1
<1>12. LocalsOf(Producer)
  BY <1>0 DEF LocalsOf, Types, Set
<1>13. "idle" \in ProducerAt
  BY DEF ProducerAt, ProducerPC
<1>14. at'[Producer] = "idle" /\ Only(Producer)
  BY <1>0, <1>12, <1>13, Goes
<1>15. Claim(Producer, e)' = 0 /\ at'[Producer] \notin Claims
  BY <1>14, NoClaim DEF Claims, HeadClaims, TailClaims
<1>16. \A f \in Elt \ {e} : SameRing(f)
  BY <1>0, <1>7 DEF SameRing
<1>17. SlotStep(Producer, e, i)
  <2>1. typ' = typ /\ val' = val /\ i # 0
    BY <1>0, <1>5
  <2> QED BY <1>1, <1>2, <1>10, <1>11, <1>15, <1>16, <2>1 DEF SlotStep
<1>18. \A f \in Elt : SlotsOK(f)'
  BY <1>14, <1>17, RingStep
<1>19. ProducerKnows'
  BY <1>14 DEF ProducerKnows
<1>20. RingFrame(Producer, e)
  <2>1. Count(e) \in Nat
    BY RingOf
  <2>2. Count(e)' = Count(e) + 1
    BY <1>7, <1>8, <1>9
  <2>3. Count(e)' \in Nat /\ Count(e)' <= Size(e)
    BY <1>1, <1>5, <2>1, <2>2
  <2>4. typ' \in [Elt -> Seq(BOOLEAN)] /\ val' \in [Elt -> Seq(Stored)]
    BY <1>0 DEF Types
  <2> QED BY <1>0, <1>1, <1>5, <1>7, <1>10, <1>16, <2>3, <2>4 DEF RingFrame
<1> QED BY <1>0, <1>12, <1>13, <1>18, <1>19, <1>20, RingIInv

\* popHead reads and clears the slot it has claimed.
LEMMA PopHeadReadStep ==
    ASSUME PoolIInv, PopHeadRead
    PROVE  PoolIInv'
<1> USE Basics
<1>0. /\ at[Producer] = "popHeadRead" /\ GoesTo(Producer, "done")
      /\ v' = Set(v, Producer, Unboxed(val[d[Producer]][Slot(d[Producer], head(Producer))]))
      /\ typ' = [typ EXCEPT ![d[Producer]][Slot(d[Producer], head(Producer))] = FALSE]
      /\ val' = [val EXCEPT ![d[Producer]][Slot(d[Producer], head(Producer))] = NilPtr]
      /\ ptrs' = Set(ptrs, Producer, <<0, 0>>) /\ d' = Set(d, Producer, NilPtr)
      /\ UNCHANGED <<chead, ctail, next, prev, pushes, headTail, d2>>
  BY DEF PopHeadRead, chain
<1>1. PICK e \in 1..chead : e = d[Producer]
  BY <1>0 DEF ProducerKnows
<1>2. PICK i \in 1..Size(e) : /\ i = Claim(Producer, e) /\ i = Slot(e, head(Producer))
                                /\ val[e][i] # 0 /\ i \notin InRange(e)
                                /\ \A q \in Process \ {Producer} : Claim(q, e) # i
  BY <1>0, <1>1, ClaimedSlot DEF Claims, HeadClaims, SlotState
<1>3. e \in Elt /\ Size(e) \in Nat \ {0} /\ Count(e) \in Nat /\ Count(e) <= Size(e)
  BY RingOf
<1>4. Unboxed(val[e][i]) \in Item
  <2>1. val[e] \in Seq(Stored) /\ Size(e) = Len(val[e])
    BY RingOf
  <2>2. val[e][i] \in Stored
    BY <2>1
  <2> QED BY <1>2, <2>2, PoolAssumption DEF Unboxed, Stored
<1>5. /\ typ' \in [Elt -> Seq(BOOLEAN)] /\ Size(e)' = Size(e)
      /\ typ'[e][i] = FALSE /\ \A j \in (1..Size(e)) \ {i} : typ'[e][j] = typ[e][j]
      /\ \A f \in Elt \ {e} : typ'[f] = typ[f]
  <2>1. typ' = Put(typ, e, i, FALSE)
    BY <1>0, <1>1, <1>2 DEF Put
  <2> QED BY <2>1, WriteTyp
<1>6. /\ val' \in [Elt -> Seq(Stored)] /\ Len(val'[e]) = Size(e)
      /\ val'[e][i] = 0 /\ \A j \in (1..Size(e)) \ {i} : val'[e][j] = val[e][j]
      /\ \A f \in Elt \ {e} : val'[f] = val[f]
  <2>1. val' = Put(val, e, i, 0)
    BY <1>0, <1>1, <1>2 DEF Put
  <2>2. 0 \in Stored
    BY DEF Stored
  <2> QED BY <2>1, <2>2, WriteVal
<1>7. LocalsOf(Producer)
  <2>1. v' = Set(v, Producer, Unboxed(val[e][i]))
    BY <1>0, <1>1, <1>2
  <2> QED BY <1>0, <1>4, <2>1, SMTT(30) DEF LocalsOf, Types, Set
<1>8. "done" \in ProducerAt
  BY DEF ProducerAt, ProducerPC
<1>9. at'[Producer] = "done" /\ Only(Producer)
  BY <1>0, <1>7, <1>8, Goes
<1>10. Claim(Producer, e)' = 0 /\ at'[Producer] \notin Claims
  BY <1>9, NoClaim DEF Claims, HeadClaims, TailClaims
<1>11. \A f \in Elt \ {e} : SameRing(f)
  BY <1>0, <1>5, <1>6 DEF SameRing
<1>12. InRange(e)' = InRange(e) /\ Count(e)' = Count(e)
  BY <1>0, <1>5, SameRange
<1>13. SlotStep(Producer, e, i)
  <2>1. i # 0
    BY <1>3
  <2> QED BY <1>1, <1>2, <1>5, <1>6, <1>10, <1>11, <1>12, <2>1 DEF SlotStep
<1>14. \A f \in Elt : SlotsOK(f)'
  BY <1>9, <1>13, RingStep
<1>15. ProducerKnows'
  BY <1>9 DEF ProducerKnows
<1>16. RingFrame(Producer, e)
  <2>1. headTail' \in [Elt -> Index \X Index]
    BY <1>0 DEF Types
  <2> QED BY <1>0, <1>3, <1>5, <1>6, <1>11, <1>12, <2>1, SMTT(30) DEF RingFrame
<1> QED BY <1>0, <1>7, <1>8, <1>14, <1>15, <1>16, RingIInv

\* popHead takes the slot before the head out of the range, or tries again.
LEMMA PopHeadCASStep ==
    ASSUME PoolIInv, PopHeadCAS
    PROVE  PoolIInv'
<1> USE Basics
<1> DEFINE a == (head(Producer) + IndexMod - 1) % IndexMod
<1>0. /\ at[Producer] = "popHeadCAS"
      /\ \/ /\ Confirmed(d[Producer], ptrs[Producer])
            /\ headTail' = Set(headTail, d[Producer], <<a, tail(Producer)>>)
            /\ ptrs' = Set(ptrs, Producer, <<a, 0>>)
            /\ GoesTo(Producer, "popHeadRead")
         \/ /\ ptrs' = Set(ptrs, Producer, <<0, 0>>)
            /\ GoesTo(Producer, "popHead")
            /\ UNCHANGED headTail
      /\ UNCHANGED <<chead, ctail, next, prev, pushes, typ, val, d, d2, v>>
  BY DEF PopHeadCAS, chain
<1>1. PICK e \in 1..chead : e = d[Producer] /\ head(Producer) # tail(Producer)
  BY <1>0 DEF ProducerKnows
<1>2. CASE /\ Confirmed(d[Producer], ptrs[Producer])
           /\ headTail' = Set(headTail, d[Producer], <<a, tail(Producer)>>)
           /\ ptrs' = Set(ptrs, Producer, <<a, 0>>)
           /\ GoesTo(Producer, "popHeadRead")
  <2>1. PICK h \in Index, t \in Index : /\ h = headTail[e][1] /\ t = headTail[e][2]
                                           /\ h = head(Producer) /\ t = tail(Producer)
    BY <1>1, <1>2, RingOf DEF Confirmed, head, tail
  <2>2. PICK h1 \in Index : h1 = (h + IndexMod - 1) % IndexMod
    BY NextIndex
  <2>3. /\ e \in Elt /\ RingSize(Size(e)) /\ Size(e) \in Nat \ {0} /\ Len(val[e]) = Size(e)
        /\ Count(e) \in Nat /\ Count(e) <= Size(e) /\ SlotsOK(e)
    BY RingOf DEF PoolIInv
  <2>4. Redone(e, h1, t) /\ ptrs' = Set(ptrs, Producer, <<h1, 0>>)
    BY <1>1, <1>2, <2>1, <2>2 DEF Set, Redone
  <2>5. /\ headTail' \in [Elt -> Index \X Index]
        /\ headTail'[e][1] = h1 /\ headTail'[e][2] = t
        /\ \A f \in Elt \ {e} : headTail'[f] = headTail[f]
        /\ Count(e)' = Ahead(h1, t)
    BY <2>4, WriteHeadTail
  <2>6. Count(e) = Ahead(h, t) /\ InRange(e) = SlotsFrom(Size(e), t, Ahead(h, t))
    BY <2>1, RangeOf
  <2>7. h # t
    BY <1>1, <2>1
  <2>8. /\ Ahead(h1, t) = Ahead(h, t) - 1 /\ Ahead(h1, t) < Size(e)
        /\ SlotAt(Size(e), h1) \in SlotsFrom(Size(e), t, Ahead(h, t))
        /\ SlotsFrom(Size(e), t, Ahead(h1, t)) = SlotsFrom(Size(e), t, Ahead(h, t)) \ {SlotAt(Size(e), h1)}
    BY <2>2, <2>3, <2>6, <2>7, RingPopHead
  <2>9. PICK i \in 1..Size(e) : i = SlotAt(Size(e), h1) /\ i \in InRange(e)
    BY <2>3, <2>6, <2>8, SlotIn
  <2>10. Size(e)' = Size(e)
    BY <1>0 DEF Size
  <2>11. InRange(e)' = InRange(e) \ {i}
    <3>1. InRange(e)' = SlotsFrom(Size(e)', headTail'[e][2], Count(e)')
      BY DEF InRange, SlotsFrom, Slot, SlotAt
    <3> QED BY <2>5, <2>6, <2>8, <2>9, <2>10, <3>1
  <2>12. LocalsOf(Producer) /\ ptrs'[Producer] = <<h1, 0>>
    <3>1. 0 \in Index
      BY Sizes DEF Index
    <3>2. <<h1, 0>> \in Index \X Index
      BY <3>1
    <3> QED BY <1>0, <2>4, <3>2 DEF LocalsOf, Types, Set
  <2>13. "popHeadRead" \in ProducerAt
    BY DEF ProducerAt, ProducerPC
  <2>14. at'[Producer] = "popHeadRead" /\ Only(Producer)
    BY <1>2, <2>12, <2>13, Goes
  <2>15. Claim(Producer, e) = 0
    BY <1>0, NoClaim DEF Claims, HeadClaims, TailClaims
  <2>16. Claim(Producer, e)' = i
    <3>1. head(Producer)' = h1
      BY <2>12 DEF head
    <3>2. d'[Producer] = e
      BY <1>0, <1>1
    <3>3. Claim(Producer, e)' = Slot(e, head(Producer))'
      BY <2>14, <3>2 DEF Claim, HeadClaims
    <3> QED BY <2>9, <2>10, <3>1, <3>3 DEF Slot, SlotAt
  <2>17. typ[e][i] /\ val[e][i] # 0 /\ \A q \in Process : Claim(q, e) # i
    <3>1. i # 0
      BY <2>3
    <3> QED BY <2>3, <2>9, <3>1 DEF SlotsOK
  <2>18. \A f \in Elt \ {e} : SameRing(f)
    BY <1>0, <2>5 DEF SameRing
  <2>19. SlotState(at'[Producer], typ'[e][i], val'[e][i])
    BY <1>0, <2>14, <2>17 DEF SlotState
  <2>20. SlotStep(Producer, e, i)
    <3>1. typ' = typ /\ val' = val /\ d' = d
      BY <1>0
    <3> QED BY <1>1, <2>10, <2>11, <2>15, <2>16, <2>17, <2>18, <2>19, <3>1 DEF SlotStep
  <2>21. \A f \in Elt : SlotsOK(f)'
    BY <2>14, <2>20, RingStep
  <2>22. ProducerKnows'
    <3>1. Count(d[Producer])' = Count(e)' /\ Size(d[Producer])' = Size(e)'
      BY <1>0, <1>1 DEF Count, Size
    <3>2. head(Producer)' = headTail'[d'[Producer]][1]
      BY <1>0, <1>1, <2>5, <2>12 DEF head
    <3>3. Count(d[Producer])' < Size(d[Producer])'
      BY <2>5, <2>8, <2>10, <3>1
    <3>4. d'[Producer] \in 1..chead'
      BY <1>0, <1>1
    <3> QED BY <2>14, <3>2, <3>3, <3>4 DEF ProducerKnows
  <2>23. RingFrame(Producer, e)
    <3>1. Count(e)' = Count(e) - 1
      BY <2>5, <2>6, <2>8
    <3>2. Count(e) # 0
      BY <2>1, <2>7, FullAndEmpty DEF IsEmpty
    <3>3. Count(e)' \in Nat /\ Count(e)' <= Size(e) /\ Count(e)' <= Count(e)
      BY <2>3, <3>1, <3>2
    <3>4. typ' \in [Elt -> Seq(BOOLEAN)] /\ val' \in [Elt -> Seq(Stored)] /\ Len(val'[e]) = Size(e)
      BY <1>0, <2>3 DEF Types
    <3> QED BY <1>0, <2>5, <2>10, <2>18, <3>3, <3>4 DEF RingFrame
  <2> QED BY <1>2, <2>12, <2>13, <2>21, <2>22, <2>23, RingIInv
<1>3. CASE ptrs' = Set(ptrs, Producer, <<0, 0>>) /\ GoesTo(Producer, "popHead") /\ UNCHANGED headTail
  <2>1. LocalsOf(Producer)
    BY <1>0, <1>3 DEF LocalsOf, Types, Set
  <2>2. at'[Producer] = "popHead"
    BY <1>3 DEF Types, GoesTo
  <2>3. d'[Producer] \in 1..chead'
    BY <1>0, <1>1
  <2>4. ProducerKnows'
    BY <2>2, <2>3 DEF ProducerKnows
  <2>5. Links'
    BY <1>0, <1>3, LinksKeep
  <2>6. "popHead" \in ProducerAt
    BY DEF ProducerAt, ProducerPC
  <2>7. at[Producer] \notin Claims /\ "popHead" \notin Claims
    BY <1>0 DEF Claims, HeadClaims, TailClaims
  <2>8. ctail' \in 0..MaxElt /\ prev' \in [Elt -> 0..MaxElt] /\ pushes' \in 0..MaxPush
    BY <1>0 DEF Types
  <2> QED BY <1>0, <1>3, <2>1, <2>4, <2>5, <2>6, <2>7, <2>8, LocalStep
<1> QED BY <1>0, <1>2, <1>3

\* popTail moves the tail past a slot, which it claims, or tries again.
LEMMA PopTailCASStep ==
    ASSUME PoolIInv, NEW c \in Consumer, PopTailCAS(c)
    PROVE  PoolIInv'
<1> USE Basics
<1>0. /\ at[c] = "popTailCAS"
      /\ \/ /\ Confirmed(d[c], ptrs[c])
            /\ headTail' = Set(headTail, d[c], <<head(c), AddOne(tail(c))>>)
            /\ GoesTo(c, "popTailRead")
            /\ ptrs' = [ptrs EXCEPT ![c][1] = 0]
            /\ d2' = Set(d2, c, NilPtr)
         \/ /\ GoesTo(c, "popTail")
            /\ ptrs' = Set(ptrs, c, <<0, 0>>)
            /\ UNCHANGED <<headTail, d2>>
      /\ UNCHANGED <<chead, ctail, next, prev, pushes, typ, val, d, v>>
  BY DEF PopTailCAS, chain
<1>1. PICK e \in 1..chead : /\ e = d[c] /\ head(c) # tail(c)
                            /\ d2[c] = 0 \/ (d2[c] = d[c] + 1 /\ d2[c] <= chead)
  BY <1>0 DEF ConsumerKnows, PoolIInv
<1>2. CASE /\ Confirmed(d[c], ptrs[c])
           /\ headTail' = Set(headTail, d[c], <<head(c), AddOne(tail(c))>>)
           /\ GoesTo(c, "popTailRead")
           /\ ptrs' = [ptrs EXCEPT ![c][1] = 0]
           /\ d2' = Set(d2, c, NilPtr)
  <2>1. PICK h \in Index, t \in Index : /\ h = headTail[e][1] /\ t = headTail[e][2]
                                           /\ h = head(c) /\ t = tail(c)
    BY <1>1, <1>2, RingOf DEF Confirmed, head, tail
  <2>2. PICK t1 \in Index : t1 = AddOne(t)
    BY NextIndex
  <2>3. /\ e \in Elt /\ RingSize(Size(e)) /\ Size(e) \in Nat \ {0} /\ Len(val[e]) = Size(e)
        /\ Count(e) \in Nat /\ Count(e) <= Size(e) /\ SlotsOK(e)
    BY RingOf DEF PoolIInv
  <2>4. Redone(e, h, t1)
    BY <1>1, <1>2, <2>1, <2>2 DEF Set, Redone
  <2>5. /\ headTail' \in [Elt -> Index \X Index]
        /\ headTail'[e][1] = h /\ headTail'[e][2] = t1
        /\ \A f \in Elt \ {e} : headTail'[f] = headTail[f]
        /\ Count(e)' = Ahead(h, t1)
    BY <2>4, WriteHeadTail
  <2>6. Count(e) = Ahead(h, t) /\ InRange(e) = SlotsFrom(Size(e), t, Ahead(h, t))
    BY <2>1, RangeOf
  <2>7. h # t
    BY <1>1, <2>1
  <2>8. /\ Ahead(h, t1) = Ahead(h, t) - 1
        /\ SlotAt(Size(e), t) \in SlotsFrom(Size(e), t, Ahead(h, t))
        /\ SlotsFrom(Size(e), t1, Ahead(h, t1)) = SlotsFrom(Size(e), t, Ahead(h, t)) \ {SlotAt(Size(e), t)}
    BY <2>2, <2>3, <2>6, <2>7, RingPopTail
  <2>9. PICK i \in 1..Size(e) : i = SlotAt(Size(e), t) /\ i \in InRange(e)
    BY <2>3, <2>6, <2>8, SlotIn
  <2>10. Size(e)' = Size(e)
    BY <1>0 DEF Size
  <2>11. InRange(e)' = InRange(e) \ {i}
    <3>1. InRange(e)' = SlotsFrom(Size(e)', headTail'[e][2], Count(e)')
      BY DEF InRange, SlotsFrom, Slot, SlotAt
    <3> QED BY <2>5, <2>6, <2>8, <2>9, <2>10, <3>1
  <2>12. LocalsOf(c) /\ ptrs'[c] = <<0, t>>
    <3>1. 0 \in Index /\ ptrs[c] \in Index \X Index
      BY Sizes DEF Index, Types
    <3>2. [ptrs[c] EXCEPT ![1] = 0] = <<0, ptrs[c][2]>>
      BY <3>1, PairExcept
    <3>3. ptrs' = Set(ptrs, c, <<0, t>>) /\ <<0, t>> \in Index \X Index
      BY <1>2, <2>1, <3>1, <3>2 DEF tail, Set
    <3>4. d2' = Set(d2, c, 0) /\ UNCHANGED <<d, v>>
      BY <1>0, <1>2
    <3>5. /\ d \in [Process -> 0..MaxElt] /\ d2 \in [Process -> 0..MaxElt]
          /\ ptrs \in [Process -> Index \X Index] /\ v \in [Process -> Item \cup {0}]
      BY DEF Types
    <3>6. ptrs' \in [Process -> Index \X Index] /\ ptrs'[c] = <<0, t>>
          /\ \A q \in Process \ {c} : ptrs'[q] = ptrs[q]
      BY <3>3, <3>5 DEF Set
    <3>7. d2' \in [Process -> 0..MaxElt] /\ \A q \in Process \ {c} : d2'[q] = d2[q]
      BY <3>4, <3>5 DEF Set
    <3> QED BY <3>4, <3>5, <3>6, <3>7 DEF LocalsOf
  <2>13. "popTailRead" \in ConsumerAt
    BY DEF ConsumerAt, ConsumerPC
  <2>14. at'[c] = "popTailRead" /\ Only(c)
    BY <1>2, <2>12, <2>13, Goes
  <2>15. Claim(c, e) = 0
    BY <1>0, NoClaim DEF Claims, HeadClaims, TailClaims
  <2>16. Claim(c, e)' = i
    <3>1. tail(c)' = t
      BY <2>12 DEF tail
    <3>2. d'[c] = e
      BY <1>0, <1>1
    <3>3. Claim(c, e)' = Slot(e, tail(c))'
      BY <2>14, <3>2 DEF Claim, HeadClaims, TailClaims
    <3> QED BY <2>9, <2>10, <3>1, <3>3 DEF Slot, SlotAt
  <2>17. typ[e][i] /\ val[e][i] # 0 /\ \A q \in Process : Claim(q, e) # i
    <3>1. i # 0
      BY <2>3
    <3> QED BY <2>3, <2>9, <3>1 DEF SlotsOK
  <2>18. \A f \in Elt \ {e} : SameRing(f)
    BY <1>0, <2>5 DEF SameRing
  <2>19. SlotState(at'[c], typ'[e][i], val'[e][i])
    BY <1>0, <2>14, <2>17 DEF SlotState
  <2>20. SlotStep(c, e, i)
    <3>1. typ' = typ /\ val' = val /\ d' = d
      BY <1>0
    <3> QED BY <1>1, <2>10, <2>11, <2>15, <2>16, <2>17, <2>18, <2>19, <3>1 DEF SlotStep
  <2>21. \A f \in Elt : SlotsOK(f)'
    BY <2>14, <2>20, RingStep
  <2>22. ConsumerKnows(c)'
    <3>1. d'[c] \in 1..chead'
      BY <1>0, <1>1
    <3> QED BY <2>14, <3>1 DEF ConsumerKnows
  <2>23. RingFrame(c, e)
    <3>1. Count(e)' = Count(e) - 1
      BY <2>5, <2>6, <2>8
    <3>2. Count(e) # 0
      BY <2>1, <2>7, FullAndEmpty DEF IsEmpty
    <3>3. Count(e)' \in Nat /\ Count(e)' <= Size(e) /\ Count(e)' <= Count(e)
      BY <2>3, <3>1, <3>2
    <3>4. typ' \in [Elt -> Seq(BOOLEAN)] /\ val' \in [Elt -> Seq(Stored)] /\ Len(val'[e]) = Size(e)
      BY <1>0, <2>3 DEF Types
    <3> QED BY <1>0, <2>1, <2>5, <2>10, <2>18, <3>3, <3>4 DEF RingFrame
  <2> QED BY <1>2, <2>12, <2>13, <2>21, <2>22, <2>23, RingIInv
<1>3. CASE GoesTo(c, "popTail") /\ ptrs' = Set(ptrs, c, <<0, 0>>) /\ UNCHANGED <<headTail, d2>>
  <2>1. LocalsOf(c)
    BY <1>0, <1>3 DEF LocalsOf, Types, Set
  <2>2. at'[c] = "popTail"
    BY <1>3 DEF Types, GoesTo
  <2>3. d'[c] \in 1..chead' /\ (d2'[c] = 0 \/ (d2'[c] = d'[c] + 1 /\ d2'[c] <= chead'))
    BY <1>0, <1>1, <1>3
  <2>4. ConsumerKnows(c)'
    BY <2>2, <2>3 DEF ConsumerKnows
  <2>5. Links'
    BY <1>0, <1>3, LinksKeep
  <2>6. "popTail" \in ConsumerAt
    BY DEF ConsumerAt, ConsumerPC
  <2>7. at[c] \notin Claims /\ "popTail" \notin Claims
    BY <1>0 DEF Claims, HeadClaims, TailClaims
  <2>8. ctail' \in 0..MaxElt /\ prev' \in [Elt -> 0..MaxElt] /\ pushes' \in 0..MaxPush
    BY <1>0 DEF Types
  <2> QED BY <1>0, <1>3, <2>1, <2>4, <2>5, <2>6, <2>7, <2>8, LocalStep
<1> QED BY <1>0, <1>2, <1>3

\* popTail clears the second word of its slot.
LEMMA ClearValStep ==
    ASSUME PoolIInv, NEW c \in Consumer, ClearVal(c)
    PROVE  PoolIInv'
<1> USE Basics
<1>0. /\ at[c] = "clearVal" /\ GoesTo(c, "clearTyp")
      /\ val' = [val EXCEPT ![d[c]][Slot(d[c], tail(c))] = NilPtr]
      /\ UNCHANGED <<chead, ctail, next, prev, pushes, headTail, typ, d, d2, ptrs, v>>
  BY DEF ClearVal, chain
<1>1. PICK e \in 1..chead : e = d[c]
  BY <1>0 DEF ConsumerKnows, PoolIInv
<1>2. PICK i \in 1..Size(e) : /\ i = Claim(c, e) /\ i = Slot(e, tail(c))
                                /\ typ[e][i] /\ i \notin InRange(e)
                                /\ \A q \in Process \ {c} : Claim(q, e) # i
  BY <1>0, <1>1, ClaimedSlot DEF Claims, TailClaims, SlotState
<1>3. e \in Elt /\ Size(e) \in Nat \ {0} /\ Count(e) \in Nat /\ Count(e) <= Size(e)
  BY RingOf
<1>4. /\ val' \in [Elt -> Seq(Stored)] /\ Len(val'[e]) = Size(e)
      /\ val'[e][i] = 0 /\ \A j \in (1..Size(e)) \ {i} : val'[e][j] = val[e][j]
      /\ \A f \in Elt \ {e} : val'[f] = val[f]
  <2>1. val' = Put(val, e, i, 0)
    BY <1>0, <1>1, <1>2 DEF Put
  <2>2. 0 \in Stored
    BY DEF Stored
  <2> QED BY <2>1, <2>2, WriteVal
<1>5. LocalsOf(c)
  BY <1>0 DEF LocalsOf, Types
<1>6. "clearTyp" \in ConsumerAt
  BY DEF ConsumerAt, ConsumerPC
<1>7. at'[c] = "clearTyp" /\ Only(c)
  BY <1>0, <1>5, <1>6, Goes
<1>8. Size(e)' = Size(e)
  BY <1>0 DEF Size
<1>9. Claim(c, e)' = i
  BY <1>0, <1>1, <1>2, <1>7, <1>8 DEF Claim, HeadClaims, TailClaims, Slot, tail
<1>10. \A f \in Elt \ {e} : SameRing(f)
  BY <1>0, <1>4 DEF SameRing
<1>11. InRange(e)' = InRange(e) /\ Count(e)' = Count(e)
  BY <1>0, <1>8, SameRange
<1>12. SlotState(at'[c], typ'[e][i], val'[e][i])
  BY <1>0, <1>2, <1>4, <1>7 DEF SlotState
<1>13. SlotStep(c, e, i)
  <2>1. typ' = typ /\ d'[c] = e /\ d[c] = e
    BY <1>0, <1>1
  <2> QED BY <1>2, <1>4, <1>8, <1>9, <1>10, <1>11, <1>12, <2>1 DEF SlotStep
<1>14. \A f \in Elt : SlotsOK(f)'
  BY <1>7, <1>13, RingStep
<1>15. ConsumerKnows(c)'
  <2>1. d'[c] \in 1..chead'
    BY <1>0, <1>1
  <2> QED BY <1>7, <2>1 DEF ConsumerKnows
<1>16. RingFrame(c, e)
  <2>1. headTail' \in [Elt -> Index \X Index] /\ typ' \in [Elt -> Seq(BOOLEAN)]
    BY <1>0 DEF Types
  <2> QED BY <1>0, <1>3, <1>4, <1>8, <1>10, <1>11, <2>1, SMTT(30) DEF RingFrame
<1> QED BY <1>0, <1>5, <1>6, <1>14, <1>15, <1>16, RingIInv

\* popTail gives its slot back.
LEMMA ClearTypStep ==
    ASSUME PoolIInv, NEW c \in Consumer, ClearTyp(c)
    PROVE  PoolIInv'
<1> USE Basics
<1>0. /\ at[c] = "clearTyp" /\ GoesTo(c, "done")
      /\ typ' = [typ EXCEPT ![d[c]][Slot(d[c], tail(c))] = FALSE]
      /\ ptrs' = Set(ptrs, c, <<0, 0>>) /\ d' = Set(d, c, NilPtr)
      /\ UNCHANGED <<chead, ctail, next, prev, pushes, headTail, val, d2, v>>
  BY DEF ClearTyp, chain
<1>1. PICK e \in 1..chead : e = d[c]
  BY <1>0 DEF ConsumerKnows, PoolIInv
<1>2. PICK i \in 1..Size(e) : /\ i = Claim(c, e) /\ i = Slot(e, tail(c))
                                /\ val[e][i] = 0 /\ i \notin InRange(e)
                                /\ \A q \in Process \ {c} : Claim(q, e) # i
  BY <1>0, <1>1, ClaimedSlot DEF Claims, TailClaims, SlotState
<1>3. /\ e \in Elt /\ Size(e) \in Nat \ {0} /\ Count(e) \in Nat /\ Count(e) <= Size(e)
      /\ Len(val[e]) = Size(e)
  BY RingOf
<1>4. /\ typ' \in [Elt -> Seq(BOOLEAN)] /\ Size(e)' = Size(e)
      /\ typ'[e][i] = FALSE /\ \A j \in (1..Size(e)) \ {i} : typ'[e][j] = typ[e][j]
      /\ \A f \in Elt \ {e} : typ'[f] = typ[f]
  <2>1. typ' = Put(typ, e, i, FALSE)
    BY <1>0, <1>1, <1>2 DEF Put
  <2> QED BY <2>1, WriteTyp
<1>5. LocalsOf(c)
  BY <1>0 DEF LocalsOf, Types, Set
<1>6. "done" \in ConsumerAt
  BY DEF ConsumerAt, ConsumerPC
<1>7. at'[c] = "done" /\ Only(c)
  BY <1>0, <1>5, <1>6, Goes
<1>8. Claim(c, e)' = 0 /\ at'[c] \notin Claims
  BY <1>7, NoClaim DEF Claims, HeadClaims, TailClaims
<1>9. \A f \in Elt \ {e} : SameRing(f)
  BY <1>0, <1>4 DEF SameRing
<1>10. InRange(e)' = InRange(e) /\ Count(e)' = Count(e)
  BY <1>0, <1>4, SameRange
<1>11. SlotStep(c, e, i)
  <2>1. val' = val /\ i # 0 /\ d[c] = e
    BY <1>0, <1>1, <1>3
  <2> QED BY <1>2, <1>4, <1>8, <1>9, <1>10, <2>1 DEF SlotStep
<1>12. \A f \in Elt : SlotsOK(f)'
  BY <1>7, <1>11, RingStep
<1>13. ConsumerKnows(c)'
  BY <1>7 DEF ConsumerKnows
<1>14. RingFrame(c, e)
  <2>1. headTail' \in [Elt -> Index \X Index] /\ val' \in [Elt -> Seq(Stored)]
    BY <1>0 DEF Types
  <2> QED BY <1>0, <1>3, <1>4, <1>9, <1>10, <2>1, SMTT(30) DEF RingFrame
<1> QED BY <1>0, <1>5, <1>6, <1>12, <1>13, <1>14, RingIInv

-----------------------------------------------------------------------------
(* Allocation of a ring *)

\* The producer puts an empty ring of size n at the head of the chain.
LEMMA AllocateStep ==
    ASSUME PoolIInv, NEW e \in Elt, e = chead + 1, NEW n, RingSize(n),
           GoesTo(Producer, "push"), LocalsOf(Producer), d'[Producer] = e, v'[Producer] \in Item,
           at[Producer] \notin Claims,
           typ' = Set(typ, e, [i \in 1..n |-> FALSE]),
           val' = Set(val, e, [i \in 1..n |-> NilPtr]),
           headTail' = headTail, chead' = e, pushes' \in 0..MaxPush,
           ctail' \in 0..MaxElt, next' \in [Elt -> 0..MaxElt], prev' \in [Elt -> 0..MaxElt],
           Links'
    PROVE  PoolIInv'
<1> USE Basics
<1>1. "push" \in ProducerAt
  BY DEF ProducerAt, ProducerPC
<1>2. /\ at' \in [Process -> ProducerAt \cup ConsumerAt]
      /\ at'[Producer] \in ProducerAt
      /\ \A c \in Consumer : at'[c] \in ConsumerAt
      /\ at'[Producer] = "push" /\ Only(Producer)
  BY <1>1, Goes
<1>3. n \in Nat \ {0}
  BY DEF RingSize
<1>4. /\ [i \in 1..n |-> FALSE] \in Seq(BOOLEAN) /\ Len([i \in 1..n |-> FALSE]) = n
      /\ [i \in 1..n |-> 0] \in Seq(Stored) /\ Len([i \in 1..n |-> 0]) = n
  <2>1. 0 \in Stored
    BY DEF Stored
  <2> QED BY <1>3, <2>1
<1>5. /\ typ'[e] = [i \in 1..n |-> FALSE] /\ val'[e] = [i \in 1..n |-> 0]
      /\ \A f \in Elt \ {e} : typ'[f] = typ[f] /\ val'[f] = val[f]
  BY DEF Set, Types
<1>6. typ' \in [Elt -> Seq(BOOLEAN)] /\ val' \in [Elt -> Seq(Stored)]
  <2>1. typ \in [Elt -> Seq(BOOLEAN)] /\ val \in [Elt -> Seq(Stored)]
    BY DEF Types
  <2> QED BY <1>4, <2>1 DEF Set
<1>7. Types'
  <2>1. chead' \in 0..MaxElt /\ headTail' \in [Elt -> Index \X Index]
    <3>1. headTail \in [Elt -> Index \X Index]
      BY DEF Types
    <3>2. chead' \in 0..MaxElt
      OBVIOUS
    <3> QED BY <3>1, <3>2
  <2>2. /\ d' \in [Process -> 0..MaxElt] /\ d2' \in [Process -> 0..MaxElt]
        /\ ptrs' \in [Process -> Index \X Index] /\ v' \in [Process -> Item \cup {NilPtr}]
    BY DEF LocalsOf
  <2> QED BY <1>2, <1>6, <2>1, <2>2 DEF Types
<1>8. /\ Size(e)' = n /\ Len(val'[e]) = n
      /\ \A f \in Elt \ {e} : Size(f)' = Size(f) /\ SameRing(f)
  BY <1>4, <1>5 DEF Size, SameRing
<1>9. \A f \in Elt : Count(f)' = Count(f)
  BY DEF Count
<1>10. e > chead
  OBVIOUS
<1>11. Size(e) = 0 /\ headTail[e] = <<0, 0>> /\ Count(e) = 0 /\ \A p \in Process : Claim(p, e) = 0
  BY <1>10, NoRing
<1>12. Rings'
  <2>1. ASSUME NEW f \in Elt
        PROVE  /\ Len(val'[f]) = Size(f)'
               /\ f <= chead' => RingSize(Size(f)') /\ Count(f)' <= Size(f)'
               /\ f > chead' => Size(f)' = 0 /\ headTail'[f] = <<0, 0>>
    <3>1. CASE f = e
      BY <1>3, <1>8, <1>9, <1>11, <3>1
    <3>2. CASE f # e
      <4>1. f <= chead' => f <= chead
        BY <3>2
      <4>2. f > chead' => f > chead
        OBVIOUS
      <4>3. val'[f] = val[f] /\ Size(f)' = Size(f) /\ Count(f)' = Count(f)
        BY <1>5, <1>8, <1>9, <3>2
      <4>4. /\ Len(val[f]) = Size(f)
            /\ f <= chead => RingSize(Size(f)) /\ Count(f) <= Size(f)
            /\ f > chead => Size(f) = 0 /\ headTail[f] = <<0, 0>>
        BY DEF Rings
      <4> QED BY <4>1, <4>2, <4>3, <4>4
    <3> QED BY <3>1, <3>2
  <2> QED BY <2>1 DEF Rings, RingSize
<1>13. ProducerKnows'
  BY <1>2 DEF ProducerKnows
<1>14. ASSUME NEW c \in Consumer
       PROVE  ConsumerKnows(c)'
  <2>1. at'[c] = at[c] /\ d'[c] = d[c] /\ d2'[c] = d2[c] /\ ptrs'[c] = ptrs[c]
    BY <1>2 DEF Only
  <2>2. Count(d[c])' = Count(d[c])
    BY <2>1 DEF Count
  <2>3. ConsumerKnows(c) /\ chead \in Nat /\ chead' \in Nat /\ chead <= chead'
    BY SMTT(30) DEF PoolIInv
  <2> QED BY <2>1, <2>2, <2>3, ConsumerKeeps
<1>15. ASSUME NEW f \in Elt
       PROVE  SlotsOK(f)'
  <2>1. CASE f # e
    <3>1. SlotsOK(f) /\ SameRing(f) /\ Size(f)' = Size(f)
      BY <1>8, <2>1 DEF PoolIInv
    <3>2. \A q \in Process \ {Producer} : Claim(q, f)' = Claim(q, f) /\ at'[q] = at[q]
      BY <1>2, <3>1, ClaimKeeps DEF Only
    <3>3. Claim(Producer, f) = 0 /\ Claim(Producer, f)' = 0
      BY <1>2, NoClaim DEF Claims, HeadClaims, TailClaims
    <3> QED BY <3>1, <3>2, <3>3, SlotsKeep
  <2>2. CASE f = e
    <3>1. \A q \in Process : Claim(q, e)' = 0
      <4>1. ASSUME NEW q \in Process \ {Producer}
            PROVE  at[q] \notin Claims \/ d[q] # e
        <5>1. q \in Consumer
          OBVIOUS
        <5>2. ConsumerKnows(q) /\ at[q] \in ConsumerAt
          BY <5>1 DEF PoolIInv, Types
        <5>3. at[q] \in Claims => d[q] \in 1..chead
          BY <5>2 DEF ConsumerKnows, Claims, HeadClaims, TailClaims, ConsumerAt, ConsumerPC
        <5> QED BY <5>3
      <4>2. ASSUME NEW q \in Process \ {Producer}
            PROVE  Claim(q, e)' = 0
        <5>1. at'[q] = at[q] /\ d'[q] = d[q]
          BY <1>2 DEF Only
        <5>2. at'[q] \notin Claims \/ d'[q] # e
          BY <4>1, <5>1
        <5> QED BY <5>2, NoClaim
      <4>3. Claim(Producer, e)' = 0
        BY <1>2, NoClaim DEF Claims, HeadClaims, TailClaims
      <4> QED BY <4>2, <4>3
    <3>2. InRange(e)' = {}
      BY <1>9, <1>11 DEF InRange
    <3>3. \A i \in 1..Size(e)' : typ'[e][i] = FALSE /\ val'[e][i] = 0
      BY <1>5, <1>8
    <3> QED BY <2>2, <3>1, <3>2, <3>3 DEF SlotsOK
  <2> QED BY <2>1, <2>2
<1> QED BY <1>7, <1>12, <1>13, <1>14, <1>15 DEF PoolIInv

\* The first push makes the first ring.
LEMMA FirstPushStep ==
    ASSUME PoolIInv, NEW x \in Item, PushHead(x), chead = 0
    PROVE  PoolIInv'
<1> USE Basics
<1>0. /\ at[Producer] = "idle" /\ pushes < MaxPush /\ pushes' = pushes + 1
      /\ GoesTo(Producer, "push") /\ v' = Set(v, Producer, x)
      /\ d' = Set(d, Producer, 1) /\ chead' = 1 /\ ctail' = 1
      /\ typ' = Set(typ, 1, [i \in 1..InitSize |-> FALSE])
      /\ val' = Set(val, 1, [i \in 1..InitSize |-> NilPtr])
      /\ UNCHANGED <<next, prev, headTail, d2, ptrs>>
  BY DEF PushHead
<1>1. PICK e \in Elt : e = 1 /\ e = chead + 1
  OBVIOUS
<1>2. LocalsOf(Producer) /\ d'[Producer] = e /\ v'[Producer] \in Item
  BY <1>0, <1>1 DEF LocalsOf, Types, Set
<1>3. RingSize(InitSize)
  BY Sizes
<1>4. pushes' \in 0..MaxPush /\ next' \in [Elt -> 0..MaxElt] /\ prev' \in [Elt -> 0..MaxElt] /\ ctail' \in 0..MaxElt
  <2>1. pushes' \in 0..MaxPush
    BY <1>0, PoolAssumption DEF Types
  <2> QED BY <1>0, <2>1 DEF Types
<1>5. Links'
  <2>1. ctail' <= chead' /\ (ctail' = 0 <=> chead' = 0)
    BY <1>0
  <2>2. ASSUME NEW f \in Elt
        PROVE  /\ next'[f] = (IF f < chead' THEN f + 1 ELSE 0) /\ prev'[f] \in {0, f - 1}
               /\ ~(f < ctail')
    <3>1. next[f] = (IF f < chead THEN f + 1 ELSE 0) /\ prev[f] \in {0, f - 1}
      BY DEF Links
    <3> QED BY <1>0, <3>1
  <2> QED BY <2>1, <2>2 DEF Links
<1>6. at[Producer] \notin Claims
  BY <1>0 DEF Claims, HeadClaims, TailClaims
<1>7. /\ typ' = Set(typ, e, [i \in 1..InitSize |-> FALSE])
      /\ val' = Set(val, e, [i \in 1..InitSize |-> NilPtr]) /\ chead' = e
  BY <1>0, <1>1
<1> QED BY <1>0, <1>1, <1>2, <1>3, <1>4, <1>5, <1>6, <1>7, AllocateStep

\* pushHead finds its ring full and makes the next one.
LEMMA GrowStep ==
    ASSUME PoolIInv, Grow
    PROVE  PoolIInv'
<1> USE Basics
<1> DEFINE m == IF 2 * Size(d[Producer]) >= DequeueLimit THEN DequeueLimit ELSE 2 * Size(d[Producer])
<1>0. /\ at[Producer] = "grow" /\ chead + 1 \in Elt
      /\ prev' = Set(prev, chead + 1, d[Producer])
      /\ typ' = Set(typ, chead + 1, [i \in 1..m |-> FALSE])
      /\ val' = Set(val, chead + 1, [i \in 1..m |-> NilPtr])
      /\ chead' = chead + 1 /\ next' = Set(next, d[Producer], chead + 1)
      /\ d' = Set(d, Producer, chead + 1) /\ GoesTo(Producer, "push")
      /\ UNCHANGED <<ctail, headTail, d2, ptrs, v, pushes>>
  BY DEF Grow
<1>1. d[Producer] = chead /\ chead \in 1..chead /\ v[Producer] \in Item
  BY <1>0 DEF ProducerKnows
<1>2. PICK e \in Elt : e = chead + 1
  BY <1>0
<1>3. PICK n : n = m /\ RingSize(n)
  <2>1. RingSize(Size(chead)) /\ Size(chead) \in Nat
    BY <1>1, RingOf
  <2>2. /\ DequeueLimit \in Nat
        /\ RingSize(DequeueLimit)
        /\ \A k : RingSize(k) /\ 2 * k < DequeueLimit => RingSize(2 * k)
    BY Sizes
  <2>3. CASE 2 * Size(chead) >= DequeueLimit
    BY <1>1, <2>2, <2>3
  <2>4. CASE 2 * Size(chead) < DequeueLimit
    BY <1>1, <2>1, <2>2, <2>4
  <2> QED BY <2>1, <2>2, <2>3, <2>4
<1> HIDE DEF m
<1>4. LocalsOf(Producer) /\ d'[Producer] = e /\ v'[Producer] \in Item
  <2>1. d' = Set(d, Producer, e) /\ UNCHANGED <<d2, ptrs, v>> /\ e \in 0..MaxElt
    BY <1>0, <1>2
  <2> QED BY <1>1, <2>1 DEF LocalsOf, Types, Set
<1>5. /\ next' \in [Elt -> 0..MaxElt] /\ prev' \in [Elt -> 0..MaxElt]
      /\ pushes' \in 0..MaxPush /\ ctail' \in 0..MaxElt
      /\ \A f \in Elt : /\ next'[f] = (IF f = chead THEN e ELSE next[f])
                          /\ prev'[f] = (IF f = e THEN chead ELSE prev[f])
  <2>1. /\ next' = Set(next, chead, e) /\ prev' = Set(prev, e, chead) /\ e \in 0..MaxElt
        /\ chead \in Elt /\ UNCHANGED <<pushes, ctail>>
    BY <1>0, <1>1, <1>2 DEF Types
  <2>2. next \in [Elt -> 0..MaxElt] /\ prev \in [Elt -> 0..MaxElt]
    BY DEF Types
  <2>3. /\ next' \in [Elt -> 0..MaxElt]
        /\ \A f \in Elt : next'[f] = (IF f = chead THEN e ELSE next[f])
    BY <2>1, <2>2 DEF Set
  <2>4. /\ prev' \in [Elt -> 0..MaxElt]
        /\ \A f \in Elt : prev'[f] = (IF f = e THEN chead ELSE prev[f])
    BY <2>1, <2>2 DEF Set
  <2>5. pushes' \in 0..MaxPush /\ ctail' \in 0..MaxElt
    BY <2>1 DEF Types
  <2> QED BY <2>3, <2>4, <2>5
<1>6. Links'
  <2>1. ctail' <= chead' /\ (ctail' = 0 <=> chead' = 0)
    BY <1>0, <1>1 DEF Links
  <2>2. ASSUME NEW f \in Elt
        PROVE  next'[f] = (IF f < chead' THEN f + 1 ELSE 0) /\ prev'[f] \in {0, f - 1}
    <3>1. next[f] = (IF f < chead THEN f + 1 ELSE 0) /\ prev[f] \in {0, f - 1}
      BY DEF Links
    <3>2. chead' = e /\ e = chead + 1 /\ f \in Nat
      BY <1>0, <1>2
    <3>3. /\ next'[f] = (IF f = chead THEN e ELSE next[f])
          /\ prev'[f] = (IF f = e THEN chead ELSE prev[f])
      BY <1>5
    <3>4. prev'[f] \in {0, f - 1}
      BY <3>1, <3>2, <3>3
    <3> QED BY <3>1, <3>2, <3>3, <3>4
  <2>3. ASSUME NEW f \in Elt, f < ctail'
        PROVE  Count(f)' = 0
    BY <1>0, <2>3 DEF Links, Count
  <2> QED BY <2>1, <2>2, <2>3 DEF Links
<1>7. at[Producer] \notin Claims
  BY <1>0 DEF Claims, HeadClaims, TailClaims
<1>8. /\ typ' = Set(typ, e, [i \in 1..n |-> FALSE])
      /\ val' = Set(val, e, [i \in 1..n |-> NilPtr]) /\ chead' = e
  BY <1>0, <1>2, <1>3
<1> QED BY <1>0, <1>2, <1>3, <1>4, <1>5, <1>6, <1>7, <1>8, AllocateStep

-----------------------------------------------------------------------------
(* The theorems about PoolChain *)

\* The chain is empty and every process idle.
LEMMA PoolInitially ==
    ASSUME PoolInit
    PROVE  PoolIInv
<1>1. /\ MaxElt \in Nat \ {0} /\ Elt = 1..MaxElt /\ IndexMod \in Nat \ {0} /\ MaxPush \in Nat
      /\ Producer \notin Consumer /\ Process = Consumer \cup {Producer} /\ NilPtr = 0
  BY PoolAssumption DEF Elt, Process, NilPtr
<1>2. 0 \in Index
  BY <1>1 DEF Index
<1>3. "idle" \in ProducerAt /\ "idle" \in ConsumerAt
  BY DEF ProducerAt, ConsumerAt, ProducerPC, ConsumerPC
<1>4. Types
  BY <1>1, <1>2, <1>3 DEF PoolInit, Types
<1>5. \A e \in Elt : /\ typ[e] = <<>> /\ val[e] = <<>> /\ headTail[e] = <<0, 0>>
                       /\ Size(e) = 0 /\ Count(e) = 0
  <2>1. \A e \in Elt : typ[e] = <<>> /\ val[e] = <<>> /\ headTail[e] = <<0, 0>>
    BY DEF PoolInit
  <2>2. (0 + IndexMod - 0) % IndexMod = 0
    BY <1>1
  <2> QED BY <2>1, <2>2 DEF Size, Count
<1>6. Rings
  BY <1>1, <1>5 DEF PoolInit, Rings
<1>7. Links
  BY <1>1 DEF PoolInit, Links
<1>8. \A p \in Process : at[p] = "idle"
  BY DEF PoolInit
<1>9. ProducerKnows /\ \A c \in Consumer : ConsumerKnows(c)
  BY <1>1, <1>8 DEF ProducerKnows, ConsumerKnows
<1>10. ASSUME NEW e \in Elt
       PROVE  SlotsOK(e)
  <2>1. \A p \in Process : Claim(p, e) = 0
    BY <1>8 DEF Claim, HeadClaims, TailClaims
  <2>2. InRange(e) = {}
    BY <1>5 DEF InRange
  <2> QED BY <1>5, <2>1, <2>2 DEF SlotsOK
<1> QED BY <1>4, <1>6, <1>7, <1>9, <1>10 DEF PoolIInv

\* A step that changes nothing.
LEMMA PoolStutter ==
    ASSUME PoolIInv, UNCHANGED poolVars
    PROVE  PoolIInv'
<1>1. /\ UNCHANGED <<chead, ctail, next, prev, headTail, typ, val, at, d, d2, ptrs, v, pushes>>
  BY DEF poolVars, chain, ring
<1>2. Types'
  BY <1>1 DEF PoolIInv, Types
<1>3. Rings' /\ Links'
  BY <1>1 DEF PoolIInv, Rings, Links, Size, Count
<1>4. ProducerKnows' /\ \A c \in Consumer : ConsumerKnows(c)'
  BY <1>1 DEF PoolIInv, ProducerKnows, ConsumerKnows, Size, Count, head, tail
<1>5. ASSUME NEW e \in Elt
      PROVE  SlotsOK(e)'
  <2>1. SlotsOK(e) /\ SameRing(e) /\ Size(e)' = Size(e)
    BY <1>1 DEF PoolIInv, SameRing, Size
  <2>2. \A q \in Process : Claim(q, e)' = Claim(q, e) /\ at'[q] = at[q]
    BY <1>1, <2>1, ClaimKeeps
  <2> QED BY <2>1, <2>2, SlotsKeep
<1> QED BY <1>2, <1>3, <1>4, <1>5 DEF PoolIInv

\* Every step of the producer or of a consumer keeps the invariant.
LEMMA PoolSteps == PoolIInv /\ [PoolNext]_poolVars => PoolIInv'
<1> SUFFICES ASSUME PoolIInv, [PoolNext]_poolVars
             PROVE  PoolIInv'
  OBVIOUS
<1>1. ASSUME NEW x \in Item, PushHead(x)
      PROVE  PoolIInv'
  BY <1>1, PushHeadStep, FirstPushStep
<1>2. CASE PopHead
  BY <1>2, PopHeadStep
<1>3. CASE ProducerStep
  BY <1>3, PushLoadStep, PushTypStep, PushWriteStep, PushAddStep, GrowStep,
     PopHeadLoadStep, PopHeadCASStep, PopHeadReadStep, BackUpStep DEF ProducerStep
<1>4. ASSUME NEW c \in Consumer, PopTail(c) \/ ConsumerStep(c)
      PROVE  PoolIInv'
  BY <1>4, PopTailStep, NextLoadStep, PopTailLoadStep, PopTailCASStep, PopTailReadStep,
     ClearValStep, ClearTypStep, DrainedStep, ClearPrevStep DEF ConsumerStep
<1>5. ASSUME NEW p \in Process, PoolReturn(p)
      PROVE  PoolIInv'
  BY <1>5, PoolReturnStep
<1>6. CASE UNCHANGED poolVars
  BY <1>6, PoolStutter
<1> QED BY <1>1, <1>2, <1>3, <1>4, <1>5, <1>6 DEF PoolNext

\* The invariant holds of every state of the chain.
LEMMA PoolIInvHolds == PoolSpec => []PoolIInv
<1>1. PoolInit => PoolIInv
  BY PoolInitially
<1> QED BY <1>1, PoolSteps, PTL DEF PoolSpec

\* The owners of a slot are the processes that claim it.
LEMMA OwnersClaim ==
    ASSUME PoolIInv, NEW e \in Elt, NEW i \in 1..Size(e)
    PROVE  Owner(e, i) = {p \in Process : Claim(p, e) = i}
<1>1. Size(e) \in Nat /\ i # 0
  <2>1. e \in 1..chead \/ e > chead
    BY Basics
  <2>2. Size(e) \in Nat
    BY <2>1, RingOf, NoRing
  <2> QED BY <2>2
<1>2. ASSUME NEW p \in Process
      PROVE  p \in Owner(e, i) <=> Claim(p, e) = i
  BY <1>1 DEF Owner, Claim, HeadClaims, TailClaims
<1>3. Owner(e, i) \subseteq Process
  BY DEF Owner
<1> QED BY <1>2, <1>3

\* Each slot of a ring.
LEMMA SlotsAreExact ==
    ASSUME PoolIInv, NEW e \in Elt, NEW i \in 1..Size(e)
    PROVE  /\ Cardinality(Owner(e, i)) + (IF i \in InRange(e) THEN 1 ELSE 0) <= 1
           /\ i \in InRange(e) => typ[e][i] /\ val[e][i] # NilPtr
           /\ typ[e][i] \/ val[e][i] # NilPtr => i \in InRange(e) \/ Owner(e, i) # {}
<1>1. SlotsOK(e) /\ NilPtr = 0
  BY Basics DEF PoolIInv
<1>2. Owner(e, i) = {p \in Process : Claim(p, e) = i}
  BY OwnersClaim
<1>3. i # 0
  <2>1. e \in 1..chead \/ e > chead
    BY Basics
  <2>2. Size(e) \in Nat
    BY <2>1, RingOf, NoRing
  <2> QED BY <2>2
<1>4. i \in InRange(e) => Owner(e, i) = {}
  BY <1>1, <1>2, <1>3 DEF SlotsOK
<1>5. Owner(e, i) = {} \/ \E p \in Process : Owner(e, i) = {p}
  BY <1>1, <1>2, <1>3 DEF SlotsOK
<1>6. Cardinality({}) = 0 /\ \A p : Cardinality({p}) = 1
  BY FS_EmptySet, FS_Singleton
<1>7. Cardinality(Owner(e, i)) + (IF i \in InRange(e) THEN 1 ELSE 0) <= 1
  <2>1. CASE Owner(e, i) = {}
    BY <1>6, <2>1
  <2>2. CASE Owner(e, i) # {}
    <3>1. i \notin InRange(e)
      BY <1>4, <2>2
    <3>2. Cardinality(Owner(e, i)) = 1
      BY <1>5, <1>6, <2>2
    <3> QED BY <3>1, <3>2
  <2> QED BY <2>1, <2>2
<1> QED BY <1>1, <1>2, <1>7 DEF SlotsOK

\* It says what PoolInv and DroppedIsEmpty say.
LEMMA PoolImplies == PoolIInv => PoolInv /\ DroppedIsEmpty
<1> SUFFICES ASSUME PoolIInv
             PROVE  PoolInv /\ DroppedIsEmpty
  OBVIOUS
<1> USE Basics
<1>1. PoolTypeOK
  <2>1. ASSUME NEW e \in Elt
        PROVE  /\ Len(typ[e]) = Len(val[e])
               /\ \A i \in 1..Len(typ[e]) : typ[e][i] \in BOOLEAN /\ val[e][i] \in Stored
    <3>1. typ[e] \in Seq(BOOLEAN) /\ val[e] \in Seq(Stored) /\ Len(val[e]) = Len(typ[e])
      BY DEF Types, Rings, Size
    <3> QED BY <3>1
  <2>2. Elt \cup {NilPtr} = 0..MaxElt
    OBVIOUS
  <2> QED BY <2>1, <2>2 DEF Types, PoolTypeOK, ProducerAt, ConsumerAt
<1>2. SlotsExact
  <2>1. ASSUME NEW e \in Elt
        PROVE  Count(e) <= Size(e)
    <3>1. e \in 1..chead \/ e > chead
      OBVIOUS
    <3> QED BY <3>1, RingOf, NoRing
  <2>2. ASSUME NEW e \in Elt, NEW i \in 1..Size(e)
        PROVE  /\ Cardinality(Owner(e, i)) + (IF i \in InRange(e) THEN 1 ELSE 0) <= 1
               /\ i \in InRange(e) => typ[e][i] /\ val[e][i] # NilPtr
               /\ typ[e][i] \/ val[e][i] # NilPtr => i \in InRange(e) \/ Owner(e, i) # {}
    BY SlotsAreExact
  <2>3. ASSUME NEW e \in Elt
        PROVE  Count(e) <= Size(e) /\ \A i \in 1..Size(e) :
                 /\ Cardinality(Owner(e, i)) + (IF i \in InRange(e) THEN 1 ELSE 0) <= 1
                 /\ i \in InRange(e) => typ[e][i] /\ val[e][i] # NilPtr
                 /\ typ[e][i] \/ val[e][i] # NilPtr => i \in InRange(e) \/ Owner(e, i) # {}
    BY <2>1, <2>2
  <2> QED BY <2>3 DEF SlotsExact
<1>3. DroppedIsEmpty
  <2>1. \A e \in Elt : ctail # NilPtr /\ e < ctail => e # chead /\ Count(e) = 0
    BY DEF Links
  <2>2. \A c \in Consumer : at[c] \in {"drained", "clearPrev"} => Count(d[c]) = 0
    BY DEF PoolIInv, ConsumerKnows
  <2> QED BY <2>1, <2>2 DEF DroppedIsEmpty
<1> QED BY <1>1, <1>2, <1>3 DEF PoolInv

\* sync/poolqueue.go, for any number of consumers and pushes and any sizes that
\* divide the range of the indices: in every ring each slot is in the range of
\* headTail and filled, or owned by one process, or free and cleared, also after
\* the indices have wrapped; nobody writes a slot that another one still reads.
THEOREM PoolSafe == PoolSpec => []PoolInv
  BY PoolIInvHolds, PoolImplies, PTL

\* A ring that popTail has passed is empty and stays so, and the producer does not
\* push to it: next was loaded before the ring was found empty (poolqueue.go:272).
THEOREM PoolDropsEmpty == PoolSpec => []DroppedIsEmpty
  BY PoolIInvHolds, PoolImplies, PTL

-----------------------------------------------------------------------------
(* Induction and recursion over the natural numbers *)

\* A set of numbers that is not empty has a least one.
LEMMA Least ==
    ASSUME NEW T \in SUBSET Nat, T # {}
    PROVE  \E n \in T : \A m \in T : n <= m
<1> DEFINE R == {ss \in Nat \X Nat : ss[1] < ss[2]}
<1>1. R = OpToRel(<, Nat)
  BY DEF OpToRel
<1>2. IsWellFoundedOn(R, Nat)
  BY <1>1, NatLessThanWellFounded, Zenon
<1>3. \A m, n \in T : m < n => <<m, n>> \in R
  OBVIOUS
<1> HIDE DEF R
<1>4. PICK n \in T : \A m \in T : ~(<<m, n>> \in R)
  BY <1>2, WFMin
<1>5. \A m \in T : ~(m < n)
  BY <1>3, <1>4, Zenon
<1>6. \A m \in T : n <= m
  BY <1>5
<1> QED BY <1>6

\* Induction, for a set of numbers.
LEMMA Induction ==
    ASSUME NEW S, 0 \in S, \A n \in Nat : n \in S => n + 1 \in S
    PROVE  Nat \subseteq S
<1> SUFFICES ASSUME Nat \ S # {}
             PROVE  FALSE
  OBVIOUS
<1>1. PICK n \in Nat \ S : \A m \in Nat \ S : n <= m
  BY Least
<1>2. n # 0
  BY <1>1
<1>3. n - 1 \in Nat /\ ~(n <= n - 1)
  BY <1>2
<1>4. n - 1 \in S
  BY <1>1, <1>3
<1>5. (n - 1) + 1 \in S
  BY <1>3, <1>4
<1>6. (n - 1) + 1 = n
  OBVIOUS
<1> QED BY <1>5, <1>6

\* Induction downwards, from m.
LEMMA Downwards ==
    ASSUME NEW m \in Nat, NEW S, m \in S, \A e \in 1..(m - 1) : e + 1 \in S => e \in S
    PROVE  \A e \in 1..m : e \in S
<1> DEFINE T == {k \in Nat : k < m => m - k \in S}
<1>1. 0 \in T
  OBVIOUS
<1>2. ASSUME NEW k \in Nat, k \in T
      PROVE  k + 1 \in T
  <2>1. ASSUME k + 1 < m
        PROVE  m - (k + 1) \in S
    <3>1. m - k \in S
      BY <1>2, <2>1
    <3>2. PICK e \in 1..(m - 1) : e = m - (k + 1) /\ e + 1 = m - k
      BY <2>1
    <3> QED BY <3>1, <3>2
  <2> QED BY <2>1
<1> HIDE DEF T
<1>3. Nat \subseteq T
  BY <1>1, <1>2, Induction
<1>4. ASSUME NEW e \in 1..m
      PROVE  e \in S
  <2>1. PICK k \in Nat : k = m - e /\ k < m /\ m - k = e
    OBVIOUS
  <2>2. k \in T
    BY <1>3
  <2> QED BY <2>1, <2>2 DEF T
<1> QED BY <1>4

\* f iterates step from a.
Maps(X) == [X -> X]
Iterates(f, X, a, step) == f \in [Nat -> X] /\ f[0] = a /\ \A n \in Nat : f[n + 1] = step[f[n]]

\* A function can be defined by iteration.
LEMMA Iterate ==
    ASSUME NEW X, NEW a \in X, NEW step \in Maps(X)
    PROVE  \E f : Iterates(f, X, a, step)
<1> USE DEF Maps
<1> DEFINE Upto(n, g) == /\ g \in [0..n -> X] /\ g[0] = a
                         /\ \A m \in 0..(n - 1) : g[m + 1] = step[g[m]]
<1>1. \A n \in Nat : \E g : Upto(n, g)
  <2> DEFINE S == {n \in Nat : \E g : Upto(n, g)}
  <2>1. 0 \in S
    <3>1. Upto(0, [m \in 0..0 |-> a])
      OBVIOUS
    <3> QED BY <3>1
  <2>2. ASSUME NEW n \in Nat, n \in S
        PROVE  n + 1 \in S
    <3>1. PICK g : Upto(n, g)
      BY <2>2
    <3> DEFINE g2 == [m \in 0..(n + 1) |-> IF m <= n THEN g[m] ELSE step[g[n]]]
    <3>2. g2 \in [0..(n + 1) -> X] /\ g2[0] = a
      BY <3>1
    <3>3. ASSUME NEW m \in 0..((n + 1) - 1)
          PROVE  g2[m + 1] = step[g2[m]]
      <4>1. CASE m < n
        BY <3>1, <4>1
      <4>2. CASE m = n
        BY <3>1, <4>2
      <4> QED BY <4>1, <4>2
    <3>4. Upto(n + 1, g2)
      BY <3>2, <3>3
    <3> QED BY <3>4
  <2> HIDE DEF S
  <2>3. Nat \subseteq S
    BY <2>1, <2>2, Induction
  <2> QED BY <2>3 DEF S
<1>2. \A n \in Nat : \A g, h : Upto(n, g) /\ Upto(n + 1, h) => g[n] = h[n]
  <2> SUFFICES ASSUME NEW n \in Nat, NEW g, NEW h, Upto(n, g), Upto(n + 1, h)
               PROVE  g[n] = h[n]
    OBVIOUS
  <2> DEFINE S == {m \in Nat : m <= n => g[m] = h[m]}
  <2>1. 0 \in S
    OBVIOUS
  <2>2. ASSUME NEW m \in Nat, m \in S
        PROVE  m + 1 \in S
    <3>1. ASSUME m + 1 <= n
          PROVE  g[m + 1] = h[m + 1]
      <4>1. g[m] = h[m]
        BY <2>2, <3>1
      <4>2. m \in 0..(n - 1) /\ m \in 0..((n + 1) - 1)
        BY <3>1
      <4>3. g[m + 1] = step[g[m]] /\ h[m + 1] = step[h[m]]
        BY <4>2
      <4> QED BY <4>1, <4>3
    <3> QED BY <3>1
  <2> HIDE DEF S
  <2>3. Nat \subseteq S
    BY <2>1, <2>2, Induction
  <2> QED BY <2>3 DEF S
<1> DEFINE G(n) == CHOOSE g : Upto(n, g)
<1>3. \A n \in Nat : Upto(n, G(n))
  BY <1>1
<1> HIDE DEF G
<1> DEFINE f == [n \in Nat |-> G(n)[n]]
<1>4. f \in [Nat -> X]
  BY <1>3
<1>5. f[0] = a
  BY <1>3
<1>6. ASSUME NEW n \in Nat
      PROVE  f[n + 1] = step[f[n]]
  <2>1. Upto(n, G(n)) /\ Upto(n + 1, G(n + 1))
    BY <1>3
  <2>2. G(n)[n] = G(n + 1)[n]
    <3> HIDE DEF Upto
    <3> QED BY <1>2, <2>1
  <2>3. n \in 0..((n + 1) - 1)
    OBVIOUS
  <2>4. G(n + 1)[n + 1] = step[G(n + 1)[n]]
    BY <2>1, <2>3
  <2>5. f[n] = G(n)[n] /\ f[n + 1] = G(n + 1)[n + 1]
    OBVIOUS
  <2> QED BY <2>2, <2>4, <2>5
<1>7. Iterates(f, X, a, step)
  BY <1>4, <1>5, <1>6 DEF Iterates
<1> QED BY <1>7

-----------------------------------------------------------------------------
(* What the chain holds *)

\* V has the values of the rings D, nx their links; the recursion of From for them.
Rows(D, A, V, nx) == V \in [D \ {0} -> Seq(A)] /\ nx \in [D \ {0} -> D]
Solves(g, D, V, nx) ==
    g = [n \in Nat |-> [e \in D |-> IF e = 0 \/ n = 0 THEN <<>> ELSE V[e] \o g[n - 1][nx[e]]]]

\* The recursion has a solution.
LEMMA FromExists ==
    ASSUME NEW D, NEW A, NEW V, NEW nx, Rows(D, A, V, nx)
    PROVE  \E g : Solves(g, D, V, nx)
<1> USE DEF Rows
<1>1. PICK X : X = [D -> Seq(A)]
  OBVIOUS
<1>2. PICK a \in X : a = [e \in D |-> <<>>]
  <2>1. [e \in D |-> <<>>] \in X
    BY <1>1
  <2> QED BY <2>1
<1>3. PICK step \in Maps(X) :
        step = [h \in X |-> [e \in D |-> IF e = 0 THEN <<>> ELSE V[e] \o h[nx[e]]]]
  <2>1. ASSUME NEW h \in X
        PROVE  [e \in D |-> IF e = 0 THEN <<>> ELSE V[e] \o h[nx[e]]] \in X
    <3>1. ASSUME NEW e \in D, e # 0
          PROVE  V[e] \o h[nx[e]] \in Seq(A)
      <4>1. V[e] \in Seq(A) /\ h[nx[e]] \in Seq(A)
        BY <1>1, <3>1
      <4> QED BY <4>1, ConcatProperties
    <3> QED BY <1>1, <3>1
  <2>2. [h \in X |-> [e \in D |-> IF e = 0 THEN <<>> ELSE V[e] \o h[nx[e]]]] \in Maps(X)
    BY <2>1 DEF Maps
  <2> QED BY <2>2
<1>4. PICK f : f \in [Nat -> X] /\ f[0] = a /\ \A n \in Nat : f[n + 1] = step[f[n]]
  <2>1. \E f : Iterates(f, X, a, step)
    BY Iterate
  <2> QED BY <2>1 DEF Iterates
<1>5. ASSUME NEW n \in Nat
      PROVE  f[n] = [e \in D |-> IF e = 0 \/ n = 0 THEN <<>> ELSE V[e] \o f[n - 1][nx[e]]]
  <2>1. CASE n = 0
    BY <1>2, <1>4, <2>1
  <2>2. CASE n # 0
    <3>1. PICK m \in Nat : m = n - 1 /\ m + 1 = n
      BY <2>2
    <3>2. f[n] = step[f[m]] /\ f[m] \in X
      BY <1>4, <3>1
    <3>3. f[n] = [e \in D |-> IF e = 0 THEN <<>> ELSE V[e] \o f[m][nx[e]]]
      BY <1>3, <3>2
    <3> QED BY <2>2, <3>1, <3>3
  <2> QED BY <2>1, <2>2
<1>6. f = [n \in Nat |-> f[n]]
  BY <1>4
<1>7. f = [n \in Nat |-> [e \in D |-> IF e = 0 \/ n = 0 THEN <<>> ELSE V[e] \o f[n - 1][nx[e]]]]
  BY <1>5, <1>6
<1> QED BY <1>7 DEF Solves

\* The range lies in the ring.
LEMMA InRing ==
    ASSUME PoolIInv, NEW e \in Elt
    PROVE  InRange(e) \subseteq 1..Size(e)
<1>1. CASE e \in 1..chead
  <2>1. /\ RingSize(Size(e)) /\ Count(e) \in Nat /\ Count(e) <= Size(e)
        /\ headTail[e][2] \in Index /\ Size(e) \in Nat \ {0}
    BY <1>1, RingOf
  <2>2. headTail[e][2] \in Nat /\ Count(e) \in 0..Size(e)
    BY <2>1, Sizes DEF Index
  <2> QED BY <2>1, <2>2, RangeIs, RangeOf
<1>2. CASE e > chead
  <2>1. Count(e) = 0
    BY <1>2, NoRing
  <2> QED BY <2>1 DEF InRange
<1> QED BY <1>1, <1>2, Basics

\* The values of a ring.
LEMMA ValuesType ==
    ASSUME PoolIInv, NEW e \in Elt
    PROVE  Values(e) \in Seq(Item) /\ Len(Values(e)) = Count(e) /\ Count(e) \in Nat
<1> USE Basics
<1>1. Count(e) \in Nat /\ Count(e) <= Size(e) /\ Size(e) \in Nat
  <2>1. e \in 1..chead \/ e > chead
    OBVIOUS
  <2> QED BY <2>1, RingOf, NoRing
<1>2. ASSUME NEW k \in 1..Count(e)
      PROVE  Unboxed(val[e][Slot(e, headTail[e][2] + k - 1)]) \in Item
  <2>1. Slot(e, headTail[e][2] + (k - 1)) \in InRange(e)
    <3>1. k - 1 \in 0..(Count(e) - 1)
      BY <1>1
    <3> QED BY <3>1 DEF InRange
  <2>2. headTail[e][2] \in Int
    <3>1. headTail[e] \in Index \X Index /\ Index \subseteq Int
      BY Sizes DEF Types, Index
    <3> QED BY <3>1
  <2>3. headTail[e][2] + (k - 1) = headTail[e][2] + k - 1
    BY <2>2, <1>1
  <2>4. PICK i \in InRange(e) : i = Slot(e, headTail[e][2] + k - 1)
    BY <2>1, <2>3
  <2>5. val[e][i] # 0
    BY <2>4 DEF SlotsOK, PoolIInv
  <2>6. i \in 1..Size(e)
    BY <1>1, <2>4, InRing
  <2>7. val[e][i] \in Stored
    <3>1. val[e] \in Seq(Stored) /\ Len(val[e]) = Size(e)
      BY DEF Types, Rings
    <3> QED BY <2>6, <3>1
  <2> QED BY <2>4, <2>5, <2>7, PoolAssumption DEF Unboxed, Stored
<1>3. Values(e) = [k \in 1..Count(e) |-> Unboxed(val[e][Slot(e, headTail[e][2] + k - 1)])]
  BY DEF Values
<1>4. Values(e) \in Seq(Item) /\ Len(Values(e)) = Count(e)
  BY <1>1, <1>2, <1>3, SMTT(30)
<1> QED BY <1>1, <1>4

\* From satisfies its recursion.
LEMMA FromIs ==
    ASSUME PoolIInv
    PROVE  /\ From = [n \in Nat |-> [e \in Elt \cup {NilPtr} |->
                        IF e = NilPtr \/ n = 0 THEN <<>> ELSE Values(e) \o From[n - 1][next[e]]]]
<1> USE Basics
<1> DEFINE D == Elt \cup {NilPtr}
           V == [e \in D \ {0} |-> Values(e)]
<1>1. D \ {0} = Elt /\ D = 0..MaxElt
  OBVIOUS
<1>2. Rows(D, Item, V, next)
  BY <1>1, ValuesType DEF Rows, Types
<1>3. PICK g : Solves(g, D, V, next)
  <2> HIDE DEF D, V
  <2> QED BY <1>2, FromExists
<1>4. ASSUME NEW n \in Nat
      PROVE  [e \in D |-> IF e = 0 \/ n = 0 THEN <<>> ELSE V[e] \o g[n - 1][next[e]]]
           = [e \in Elt \cup {NilPtr} |->
                IF e = NilPtr \/ n = 0 THEN <<>> ELSE Values(e) \o g[n - 1][next[e]]]
  <2>1. \A e \in D : e # 0 => V[e] = Values(e)
    OBVIOUS
  <2> HIDE DEF V
  <2> QED BY <2>1
<1>5. g = [n \in Nat |-> [e \in Elt \cup {NilPtr} |->
               IF e = NilPtr \/ n = 0 THEN <<>> ELSE Values(e) \o g[n - 1][next[e]]]]
  BY <1>3, <1>4 DEF Solves
<1>6. \E f : f = [n \in Nat |-> [e \in Elt \cup {NilPtr} |->
               IF e = NilPtr \/ n = 0 THEN <<>> ELSE Values(e) \o f[n - 1][next[e]]]]
  BY <1>5, Zenon
<1> QED BY <1>6 DEF From

\* C[e] is what the rings from e to n hold, if ring f holds V[f].
IsChain(C, V, n) ==
    /\ n \in Nat /\ C \in [1..(n + 1) -> Seq(Item)] /\ C[n + 1] = <<>>
    /\ \A e \in 1..n : V[e] \in Seq(Item) /\ C[e] = V[e] \o C[e + 1]

\* The contents of the rings, and the ring that the deque begins with.
Row == [e \in 1..chead |-> Values(e)]
First == IF ctail = 0 THEN 1 ELSE ctail

\* The deque is what the rings from c.tail on hold.
LEMMA Content ==
    ASSUME PoolIInv
    PROVE  /\ \E C : IsChain(C, Row, chead) /\ Deque = C[First]
           /\ First \in 1..(chead + 1)
<1>0. /\ NilPtr = 0 /\ Elt = 1..MaxElt /\ MaxElt \in Nat /\ chead \in 0..MaxElt /\ ctail \in 0..chead
      /\ ctail = 0 <=> chead = 0
      /\ \A e \in 1..chead : e \in Elt /\ next[e] = IF e < chead THEN e + 1 ELSE 0
  <2>1. Types /\ Links /\ NilPtr = 0 /\ Elt = 1..MaxElt /\ MaxElt \in Nat
    BY Basics
  <2>2. chead \in 0..MaxElt /\ ctail \in 0..MaxElt
    BY <2>1 DEF Types
  <2> QED BY <2>1, <2>2 DEF Links
<1> USE <1>0
<1> DEFINE At(e) == IF e <= chead THEN e ELSE 0
           C == [e \in 1..(chead + 1) |-> From[chead + 1 - e][At(e)]]
<1>1. /\ \A n \in Nat : From[n][0] = <<>>
      /\ \A e \in 1..chead : From[0][e] = <<>>
      /\ \A n \in Nat, e \in 1..chead : From[n + 1][e] = Values(e) \o From[n][At(e + 1)]
  <2>1. ASSUME NEW n \in Nat
        PROVE  From[n] = [e \in Elt \cup {NilPtr} |->
                            IF e = NilPtr \/ n = 0 THEN <<>> ELSE Values(e) \o From[n - 1][next[e]]]
    <3> DEFINE F == From
    <3>1. F = [m \in Nat |-> [e \in Elt \cup {NilPtr} |->
                 IF e = NilPtr \/ m = 0 THEN <<>> ELSE Values(e) \o F[m - 1][next[e]]]]
      BY FromIs
    <3> HIDE DEF F
    <3>2. F[n] = [e \in Elt \cup {NilPtr} |->
                    IF e = NilPtr \/ n = 0 THEN <<>> ELSE Values(e) \o F[n - 1][next[e]]]
      BY <3>1, Zenon
    <3> QED BY <3>2 DEF F
  <2>2. ASSUME NEW n \in Nat
        PROVE  From[n][0] = <<>>
    <3>1. 0 \in Elt \cup {NilPtr} /\ 0 = NilPtr
      OBVIOUS
    <3> QED BY <2>1, <3>1, Zenon
  <2>3. ASSUME NEW n \in Nat, NEW e \in 1..chead
        PROVE  From[n + 1][e] = Values(e) \o From[n][At(e + 1)]
    <3>1. e \in Elt /\ e # 0 /\ next[e] = At(e + 1)
      OBVIOUS
    <3>2. PICK m \in Nat : m = n + 1 /\ m # 0 /\ m - 1 = n
      OBVIOUS
    <3> HIDE DEF At
    <3>3. From[m][e] = Values(e) \o From[m - 1][next[e]]
      BY <2>1, <3>1, <3>2, ZenonT(60)
    <3> QED BY <3>1, <3>2, <3>3
  <2>4. ASSUME NEW e \in 1..chead
        PROVE  From[0][e] = <<>>
    <3>1. e \in Elt \cup {NilPtr} /\ 0 \in Nat
      OBVIOUS
    <3> QED BY <2>1, <3>1, Zenon
  <2> QED BY <2>2, <2>3, <2>4
<1>2. \A e \in 1..chead : Values(e) \in Seq(Item) /\ e \in Elt
  BY ValuesType
<1>3. \A n \in Nat : \A e \in 0..chead : From[n][e] \in Seq(Item)
  <2> DEFINE S == {n \in Nat : \A e \in 0..chead : From[n][e] \in Seq(Item)}
  <2>1. 0 \in S
    <3>1. ASSUME NEW e \in 0..chead
          PROVE  From[0][e] \in Seq(Item)
      <4>1. From[0][e] = <<>>
        <5>1. e = 0 \/ e \in 1..chead
          OBVIOUS
        <5> QED BY <1>1, <5>1
      <4> QED BY <4>1
    <3> QED BY <3>1
  <2>2. ASSUME NEW n \in Nat, n \in S
        PROVE  n + 1 \in S
    <3>1. ASSUME NEW e \in 0..chead
          PROVE  From[n + 1][e] \in Seq(Item)
      <4>1. CASE e = 0
        <5>1. n + 1 \in Nat
          OBVIOUS
        <5>2. From[n + 1][0] = <<>>
          BY <1>1, <5>1
        <5> QED BY <4>1, <5>2
      <4>2. CASE e \in 1..chead
        <5>1. At(e + 1) \in 0..chead
          BY <4>2
        <5> HIDE DEF At
        <5>2. From[n][At(e + 1)] \in Seq(Item)
          BY <2>2, <5>1
        <5> QED BY <1>1, <1>2, <4>2, <5>2, ConcatProperties
      <4> QED BY <4>1, <4>2
    <3> QED BY <3>1
  <2> HIDE DEF S
  <2>3. Nat \subseteq S
    BY <2>1, <2>2, Induction
  <2> QED BY <2>3 DEF S
<1>4. IsChain(C, Row, chead)
  <2>1. C \in [1..(chead + 1) -> Seq(Item)]
    <3>1. ASSUME NEW e \in 1..(chead + 1)
          PROVE  From[chead + 1 - e][At(e)] \in Seq(Item)
      <4>1. chead + 1 - e \in Nat /\ At(e) \in 0..chead
        OBVIOUS
      <4> QED BY <1>3, <4>1
    <3> QED BY <3>1
  <2>2. C[chead + 1] = <<>>
    <3>1. chead + 1 \in 1..(chead + 1) /\ chead + 1 - (chead + 1) = 0 /\ At(chead + 1) = 0
      OBVIOUS
    <3>2. C[chead + 1] = From[0][0]
      BY <3>1
    <3> QED BY <1>1, <3>2
  <2>3. ASSUME NEW e \in 1..chead
        PROVE  C[e] = Row[e] \o C[e + 1]
    <3>1. PICK n \in Nat : n = chead - e /\ n + 1 = chead + 1 - e /\ n = chead + 1 - (e + 1)
      OBVIOUS
    <3>2. C[e] = From[n + 1][e] /\ C[e + 1] = From[n][At(e + 1)]
      BY <3>1
    <3>3. Row[e] = Values(e)
      BY DEF Row
    <3> HIDE DEF C, At
    <3> QED BY <1>1, <3>2, <3>3
  <2>4. \A e \in 1..chead : Row[e] \in Seq(Item)
    BY <1>2 DEF Row
  <2> HIDE DEF C
  <2>5. chead \in Nat
    OBVIOUS
  <2>6. \A e \in 1..chead : Row[e] \in Seq(Item) /\ C[e] = Row[e] \o C[e + 1]
    BY <2>3, <2>4
  <2> QED BY <2>1, <2>2, <2>5, <2>6, Zenon DEF IsChain
<1> DEFINE S == {e \in 1..(chead + 1) : \A n \in Nat : n >= chead + 1 - e => From[n][At(e)] = C[e]}
<1>5. \A e \in 1..(chead + 1) : e \in S
  <2>1. chead + 1 \in S
    <3>1. At(chead + 1) = 0 /\ C[chead + 1] = <<>>
      BY <1>4 DEF IsChain
    <3> HIDE DEF C, At
    <3>2. \A n \in Nat : From[n][At(chead + 1)] = C[chead + 1]
      BY <1>1, <3>1
    <3>3. chead + 1 \in 1..(chead + 1)
      OBVIOUS
    <3> QED BY <3>2, <3>3
  <2>2. ASSUME NEW e \in 1..((chead + 1) - 1), e + 1 \in S
        PROVE  e \in S
    <3>1. ASSUME NEW n \in Nat, n >= chead + 1 - e
          PROVE  From[n][At(e)] = C[e]
      <4>1. PICK m \in Nat : m + 1 = n /\ m >= chead + 1 - (e + 1)
        BY <3>1
      <4>2. e \in 1..chead /\ At(e) = e
        OBVIOUS
      <4>3. C[e] = Row[e] \o C[e + 1] /\ Row[e] = Values(e)
        BY <1>4, <4>2 DEF IsChain, Row
      <4> HIDE DEF C, At
      <4>4. From[m][At(e + 1)] = C[e + 1]
        BY <2>2, <4>1
      <4>5. From[m + 1][e] = Values(e) \o From[m][At(e + 1)]
        BY <1>1, <4>2
      <4> QED BY <4>1, <4>2, <4>3, <4>4, <4>5
    <3> QED BY <3>1
  <2> HIDE DEF S
  <2>3. chead + 1 \in Nat
    OBVIOUS
  <2> QED BY <2>1, <2>2, <2>3, Downwards
<1>6. First \in 1..(chead + 1) /\ First \in S
  <2>1. First \in 1..(chead + 1)
    BY DEF First
  <2> QED BY <1>5, <2>1
<1>7. Deque = C[First]
  <2>1. CASE ctail = 0
    <3>1. chead = 0 /\ First = 1 /\ At(First) = 0
      BY <2>1 DEF First
    <3>2. C[First] = <<>>
      BY <1>4, <3>1 DEF IsChain
    <3> HIDE DEF C
    <3> QED BY <1>1, <2>1, <3>2 DEF Deque
  <2>2. CASE ctail # 0
    <3>1. First = ctail /\ At(First) = ctail /\ MaxElt \in Nat /\ MaxElt >= chead + 1 - First
      BY <2>2 DEF First
    <3> HIDE DEF C, At
    <3> QED BY <1>6, <3>1 DEF Deque
  <2> QED BY <2>1, <2>2
<1> HIDE DEF C
<1> QED BY <1>4, <1>6, <1>7

\* The same after a step.
LEMMA ContentNext ==
    PoolIInv' => /\ \E C : IsChain(C, Row', chead') /\ Deque' = C[First']
                 /\ First' \in 1..(chead' + 1)
<1>1. PoolIInv => /\ \E C : IsChain(C, Row, chead) /\ Deque = C[First]
                  /\ First \in 1..(chead + 1)
  BY Content
<1>2. (PoolIInv => /\ \E C : IsChain(C, Row, chead) /\ Deque = C[First]
                   /\ First \in 1..(chead + 1))'
  BY <1>1, PTL
<1> QED BY <1>2 DEF IsChain

\* A value appended to the second of two sequences.
LEMMA ConcatAppend ==
    \A s, t \in Seq(Item), x \in Item : s \o Append(t, x) = Append(s \o t, x)
<1> SUFFICES ASSUME NEW s \in Seq(Item), NEW t \in Seq(Item), NEW x \in Item
             PROVE  s \o Append(t, x) = Append(s \o t, x)
  OBVIOUS
<1>1. Append(t, x) = t \o <<x>> /\ Append(s \o t, x) = (s \o t) \o <<x>>
  <2>1. s \o t \in Seq(Item)
    BY ConcatProperties
  <2> QED BY <2>1, AppendIsConcat
<1>2. <<x>> \in Seq(Item)
  OBVIOUS
<1> QED BY <1>1, <1>2, ConcatAssociative

\* Two chains with the same rings from l to m.
Meet(C, V, n, C2, V2, n2, l, m) ==
    /\ IsChain(C, V, n) /\ IsChain(C2, V2, n2)
    /\ m \in 1..(n + 1) /\ m \in 1..(n2 + 1) /\ l \in 1..m
    /\ \A e \in l..(m - 1) : V2[e] = V[e]

\* They have the same contents from l on if they have from m on.
LEMMA ChainAgree ==
    ASSUME NEW C, NEW V, NEW n, NEW C2, NEW V2, NEW n2, NEW l, NEW m,
           Meet(C, V, n, C2, V2, n2, l, m), C2[m] = C[m]
    PROVE  \A e \in l..m : C2[e] = C[e]
<1> USE DEF IsChain, Meet
<1> DEFINE S == {e \in 1..m : e >= l => C2[e] = C[e]}
<1>1. m \in S /\ m \in Nat
  OBVIOUS
<1>2. ASSUME NEW e \in 1..(m - 1), e + 1 \in S
      PROVE  e \in S
  <2>1. e \in 1..n /\ e \in 1..n2
    OBVIOUS
  <2>2. C[e] = V[e] \o C[e + 1] /\ C2[e] = V2[e] \o C2[e + 1]
    BY <2>1
  <2>3. ASSUME e >= l
        PROVE  C2[e] = C[e]
    <3>1. V2[e] = V[e] /\ C2[e + 1] = C[e + 1]
      BY <1>2, <2>3
    <3> QED BY <2>2, <3>1
  <2> QED BY <2>3
<1> HIDE DEF S
<1>3. \A e \in 1..m : e \in S
  BY <1>1, <1>2, Downwards
<1> QED BY <1>3 DEF S

\* Likewise if one has another value at the end.
LEMMA ChainAppend ==
    ASSUME NEW C, NEW V, NEW n, NEW C2, NEW V2, NEW n2, NEW m, Meet(C, V, n, C2, V2, n2, 1, m),
           NEW x \in Item, C2[m] = Append(C[m], x)
    PROVE  \A e \in 1..m : C2[e] = Append(C[e], x)
<1> USE DEF IsChain, Meet
<1> DEFINE S == {e \in 1..m : C2[e] = Append(C[e], x)}
<1>1. m \in S /\ m \in Nat
  OBVIOUS
<1>2. ASSUME NEW e \in 1..(m - 1), e + 1 \in S
      PROVE  e \in S
  <2>1. e \in 1..n /\ e \in 1..n2
    OBVIOUS
  <2>2. C[e] = V[e] \o C[e + 1] /\ C2[e] = V[e] \o C2[e + 1] /\ C2[e + 1] = Append(C[e + 1], x)
    BY <1>2, <2>1
  <2>3. V[e] \in Seq(Item) /\ C[e + 1] \in Seq(Item)
    <3>1. e + 1 \in 1..(n + 1)
      BY <2>1
    <3> QED BY <2>1, <3>1
  <2>4. V[e] \o Append(C[e + 1], x) = Append(V[e] \o C[e + 1], x)
    BY <2>3, ConcatAppend, Zenon
  <2>5. C2[e] = Append(C[e], x)
    BY <2>2, <2>4
  <2> QED BY <2>5
<1> HIDE DEF S
<1>3. \A e \in 1..m : e \in S
  BY <1>1, <1>2, Downwards
<1> QED BY <1>3 DEF S

\* If the rings from m on are empty.
LEMMA ChainEmpty ==
    ASSUME NEW C, NEW V, NEW n, IsChain(C, V, n), NEW m \in 1..(n + 1),
           \A e \in m..n : V[e] = <<>>
    PROVE  \A e \in m..(n + 1) : C[e] = <<>>
<1> USE DEF IsChain
<1> DEFINE S == {e \in 1..(n + 1) : e >= m => C[e] = <<>>}
<1>1. n + 1 \in S /\ n + 1 \in Nat
  OBVIOUS
<1>2. ASSUME NEW e \in 1..((n + 1) - 1), e + 1 \in S
      PROVE  e \in S
  <2>1. ASSUME e >= m
        PROVE  C[e] = <<>>
    <3>1. e \in 1..n /\ e \in m..n
      BY <2>1
    <3>2. V[e] = <<>> /\ C[e] = V[e] \o C[e + 1]
      BY <3>1
    <3>3. C[e + 1] = <<>>
      BY <1>2, <2>1
    <3> QED BY <3>2, <3>3
  <2> QED BY <2>1
<1> HIDE DEF S
<1>3. \A e \in 1..(n + 1) : e \in S
  BY <1>1, <1>2, Downwards
<1> QED BY <1>3 DEF S

\* A value is pushed to ring k, and the rings after it are empty.
LEMMA ChainPush ==
    ASSUME NEW C, NEW V, NEW n, IsChain(C, V, n), NEW C2, NEW V2, IsChain(C2, V2, n),
           NEW k \in 1..n, NEW x \in Item, V2[k] = Append(V[k], x),
           \A e \in (1..n) \ {k} : V2[e] = V[e], \A e \in (k + 1)..n : V[e] = <<>>
    PROVE  \A e \in 1..k : C2[e] = Append(C[e], x)
<1>1. n \in Nat /\ k + 1 \in 1..(n + 1) /\ k \in 1..(n + 1) /\ k <= n + 1 /\ k + 1 \in (k + 1)..(n + 1)
  BY DEF IsChain
<1>2. \A e \in (k + 1)..n : V2[e] = <<>>
  BY <1>1
<1>3. C[k + 1] = <<>> /\ C2[k + 1] = <<>>
  BY <1>1, <1>2, ChainEmpty
<1>4. /\ C[k] = V[k] \o C[k + 1] /\ C2[k] = V2[k] \o C2[k + 1]
      /\ V[k] \in Seq(Item) /\ V2[k] \in Seq(Item)
  BY DEF IsChain
<1>5. C[k] = V[k] /\ C2[k] = V2[k]
  BY <1>3, <1>4
<1>6. C2[k] = Append(C[k], x) /\ \A e \in 1..(k - 1) : V2[e] = V[e]
  BY <1>1, <1>5
<1>7. Meet(C, V, n, C2, V2, n, 1, k)
  BY <1>1, <1>6 DEF Meet
<1> QED BY <1>6, <1>7, ChainAppend

\* Concatenation is associative.
LEMMA ConcatThree ==
    \A s, t, u \in Seq(Item) : (s \o t) \o u = s \o (t \o u)
<1> SUFFICES ASSUME NEW s \in Seq(Item), NEW t \in Seq(Item), NEW u \in Seq(Item)
             PROVE  (s \o t) \o u = s \o (t \o u)
  OBVIOUS
<1> QED BY ConcatAssociative

\* The first value of ring k is taken.
LEMMA ChainPop ==
    ASSUME NEW C, NEW V, NEW n, IsChain(C, V, n), NEW C2, NEW V2, IsChain(C2, V2, n),
           NEW k \in 1..n, NEW x \in Item, V[k] = <<x>> \o V2[k],
           \A e \in (1..n) \ {k} : V2[e] = V[e]
    PROVE  C[k] = <<x>> \o C2[k] /\ C2[k] \in Seq(Item)
<1>1. /\ n \in Nat /\ k + 1 \in 1..(n + 1) /\ n + 1 \in 1..(n + 1) /\ n + 1 <= n + 1
      /\ \A e \in (k + 1)..((n + 1) - 1) : V2[e] = V[e]
      /\ C[n + 1] = C2[n + 1] /\ k + 1 \in (k + 1)..(n + 1)
  BY DEF IsChain
<1>2. C2[k + 1] = C[k + 1]
  <2>1. Meet(C, V, n, C2, V2, n, k + 1, n + 1)
    BY <1>1 DEF Meet
  <2> QED BY <1>1, <2>1, ChainAgree
<1>3. /\ C[k] = V[k] \o C[k + 1] /\ C2[k] = V2[k] \o C2[k + 1]
      /\ V2[k] \in Seq(Item) /\ C[k + 1] \in Seq(Item) /\ C2[k] \in Seq(Item)
  <2>1. k \in 1..n /\ k \in 1..(n + 1) /\ k + 1 \in 1..(n + 1)
    BY <1>1
  <2>2. /\ C \in [1..(n + 1) -> Seq(Item)] /\ C2 \in [1..(n + 1) -> Seq(Item)]
        /\ \A e \in 1..n : V[e] \in Seq(Item) /\ C[e] = V[e] \o C[e + 1]
        /\ \A e \in 1..n : V2[e] \in Seq(Item) /\ C2[e] = V2[e] \o C2[e + 1]
    BY DEF IsChain
  <2> QED BY <2>1, <2>2
<1>4. (<<x>> \o V2[k]) \o C[k + 1] = <<x>> \o (V2[k] \o C[k + 1])
  <2>1. <<x>> \in Seq(Item)
    OBVIOUS
  <2> QED BY <1>3, <2>1, ConcatThree, Zenon
<1> QED BY <1>2, <1>3, <1>4

\* A ring is added, empty.
LEMMA ChainGrow ==
    ASSUME NEW C, NEW V, NEW n, IsChain(C, V, n), NEW C2, NEW V2, IsChain(C2, V2, n + 1),
           V2[n + 1] = <<>>, \A e \in 1..n : V2[e] = V[e]
    PROVE  \A e \in 1..(n + 1) : C2[e] = C[e]
<1>1. /\ n \in Nat /\ n + 1 \in 1..(n + 1) /\ n + 1 <= (n + 1) + 1 /\ 1 \in 1..(n + 1)
      /\ \A e \in 1..((n + 1) - 1) : V2[e] = V[e]
  BY DEF IsChain
<1>2. C2[n + 1] = C[n + 1]
  <2>1. n + 1 \in 1..(n + 1) /\ C2[(n + 1) + 1] = <<>> /\ C[n + 1] = <<>>
    BY <1>1 DEF IsChain
  <2>2. C2[n + 1] = V2[n + 1] \o C2[(n + 1) + 1]
    BY <2>1 DEF IsChain
  <2> QED BY <2>1, <2>2
<1>3. Meet(C, V, n, C2, V2, n + 1, 1, n + 1)
  BY <1>1 DEF Meet
<1> QED BY <1>2, <1>3, ChainAgree

\* The values in c slots of a ring of n from index t on.
RingValues(vals, n, t, c) == [k \in 1..c |-> Unboxed(vals[SlotAt(n, t + k - 1)])]

\* One more slot at the end.
LEMMA RingValuesAppend ==
    ASSUME NEW vals, NEW n, NEW t \in Nat, NEW c \in Nat,
           RingValues(vals, n, t, c) \in Seq(Item), RingValues(vals, n, t, c + 1) \in Seq(Item)
    PROVE  /\ RingValues(vals, n, t, c + 1)
                = Append(RingValues(vals, n, t, c), Unboxed(vals[SlotAt(n, t + c)]))
           /\ Unboxed(vals[SlotAt(n, t + c)]) \in Item
<1> DEFINE s == RingValues(vals, n, t, c)
           s2 == RingValues(vals, n, t, c + 1)
           x == Unboxed(vals[SlotAt(n, t + c)])
<1>1. /\ \A k \in 1..c : s[k] = Unboxed(vals[SlotAt(n, t + k - 1)])
      /\ \A k \in 1..(c + 1) : s2[k] = Unboxed(vals[SlotAt(n, t + k - 1)])
      /\ DOMAIN s = 1..c /\ DOMAIN s2 = 1..(c + 1)
  BY DEF RingValues
<1>2. s2[c + 1] = x
  <2>1. t + (c + 1) - 1 = t + c /\ c + 1 \in 1..(c + 1)
    OBVIOUS
  <2> QED BY <1>1, <2>1
<1>3. \A k \in 1..c : s2[k] = s[k]
  BY <1>1
<1>4. s \in Seq(Item) /\ s2 \in Seq(Item)
  OBVIOUS
<1> HIDE DEF s, s2, x
<1>5. Len(s) = c /\ Len(s2) = c + 1
  BY <1>1, <1>4
<1>6. x \in Item
  BY <1>2, <1>4, <1>5
<1>7. s2 = Append(s, x)
  BY <1>2, <1>3, <1>4, <1>5, <1>6
<1> QED BY <1>6, <1>7 DEF s, s2, x

\* The first slot and the rest.
LEMMA RingValuesTail ==
    ASSUME NEW vals, NEW n, NEW t \in Nat, NEW u \in Nat, NEW c \in Nat,
           RingValues(vals, n, t, c + 1) \in Seq(Item), RingValues(vals, n, u, c) \in Seq(Item),
           \A k \in 1..c : SlotAt(n, u + k - 1) = SlotAt(n, t + k)
    PROVE  /\ RingValues(vals, n, t, c + 1)
                = <<Unboxed(vals[SlotAt(n, t)])>> \o RingValues(vals, n, u, c)
           /\ Unboxed(vals[SlotAt(n, t)]) \in Item
<1> DEFINE s == RingValues(vals, n, u, c)
           s2 == RingValues(vals, n, t, c + 1)
           x == Unboxed(vals[SlotAt(n, t)])
<1>1. /\ \A k \in 1..c : s[k] = Unboxed(vals[SlotAt(n, u + k - 1)])
      /\ \A k \in 1..(c + 1) : s2[k] = Unboxed(vals[SlotAt(n, t + k - 1)])
      /\ DOMAIN s = 1..c /\ DOMAIN s2 = 1..(c + 1)
  BY DEF RingValues
<1>2. s2[1] = x
  <2>1. t + 1 - 1 = t /\ 1 \in 1..(c + 1)
    OBVIOUS
  <2> QED BY <1>1, <2>1
<1>3. \A k \in 1..c : s2[k + 1] = s[k]
  <2> SUFFICES ASSUME NEW k \in 1..c
               PROVE  s2[k + 1] = s[k]
    OBVIOUS
  <2>1. t + (k + 1) - 1 = t + k /\ k + 1 \in 1..(c + 1)
    OBVIOUS
  <2> QED BY <1>1, <2>1
<1>4. s \in Seq(Item) /\ s2 \in Seq(Item)
  OBVIOUS
<1> HIDE DEF s, s2, x
<1>5. Len(s) = c /\ Len(s2) = c + 1
  BY <1>1, <1>4
<1>6. x \in Item
  BY <1>2, <1>4, <1>5
<1>7. s2 = <<x>> \o s
  BY <1>2, <1>3, <1>4, <1>5, <1>6
<1> QED BY <1>6, <1>7 DEF s, s2, x

-----------------------------------------------------------------------------
(* How the deque changes when a ring does *)

\* The bounds of the chain.
ChainBounds ==
    /\ chead \in Nat /\ ctail \in 0..chead /\ chead \in 0..MaxElt
    /\ ctail = 0 <=> chead = 0

\* They hold.
LEMMA Bounded == PoolIInv => ChainBounds
<1> SUFFICES ASSUME PoolIInv
             PROVE  ChainBounds
  OBVIOUS
<1>1. Types /\ Links /\ NilPtr = 0 /\ Elt = 1..MaxElt /\ MaxElt \in Nat
  BY Basics
<1>2. chead \in 0..MaxElt /\ ctail \in 0..MaxElt
  BY <1>1 DEF Types
<1> QED BY <1>1, <1>2 DEF Links, ChainBounds

\* Also after a step.
LEMMA BoundedNext == PoolIInv' => ChainBounds'
BY Bounded, PTL

\* The chain before and after a step.
LEMMA Chains ==
    ASSUME PoolIInv, PoolIInv'
    PROVE  /\ chead \in Nat /\ chead' \in Nat /\ ctail \in 0..chead /\ ctail' \in 0..chead'
           /\ ctail = 0 <=> chead = 0
           /\ ctail' = 0 <=> chead' = 0
           /\ \A e \in 1..chead : Row[e] = Values(e) /\ e \in Elt
           /\ \A e \in 1..chead' : Row'[e] = Values(e)'
           /\ \E C : IsChain(C, Row, chead) /\ Deque = C[First]
           /\ \E C : IsChain(C, Row', chead') /\ Deque' = C[First']
<1>1. ChainBounds /\ ChainBounds' /\ Elt = 1..MaxElt /\ MaxElt \in Nat
  BY Bounded, BoundedNext, Basics
<1>2. /\ \A e \in 1..chead : Row[e] = Values(e) /\ e \in Elt
      /\ \A e \in 1..chead' : Row'[e] = Values(e)'
  BY <1>1 DEF Row, ChainBounds
<1> QED BY <1>1, <1>2, Content, ContentNext DEF ChainBounds

\* No ring that the deque reaches is changed.
LEMMA DequeSame ==
    ASSUME PoolIInv, PoolIInv', chead' = chead, ctail' = ctail,
           \A e \in 1..chead : e >= ctail => Values(e)' = Values(e)
    PROVE  Deque' = Deque
<1>1. PICK C : IsChain(C, Row, chead) /\ Deque = C[First]
  BY Chains
<1>2. PICK C2 : IsChain(C2, Row', chead) /\ Deque' = C2[First']
  BY Chains
<1>3. First' = First /\ First \in 1..(chead + 1) /\ First >= ctail /\ chead \in Nat /\ ctail \in Nat
  BY Chains DEF First
<1>4. \A e \in First..((chead + 1) - 1) : Row'[e] = Row[e]
  BY <1>3, Chains
<1>5. Meet(C, Row, chead, C2, Row', chead, First, chead + 1)
  BY <1>1, <1>2, <1>3, <1>4 DEF Meet
<1>6. C2[chead + 1] = C[chead + 1]
  BY <1>1, <1>2 DEF IsChain
<1>7. \A e \in First..(chead + 1) : C2[e] = C[e]
  BY <1>5, <1>6, ChainAgree
<1> QED BY <1>1, <1>2, <1>3, <1>7

\* Ring k gets one more value at its head, and there is none in the rings after it.
LEMMA DequePush ==
    ASSUME PoolIInv, PoolIInv', chead' = chead, ctail' = ctail, NEW k \in 1..chead, k >= ctail,
           NEW x \in Item, Values(k)' = Append(Values(k), x),
           \A e \in 1..chead : e # k => Values(e)' = Values(e),
           \A e \in 1..chead : e > k => Values(e) = <<>>
    PROVE  Deque' = Append(Deque, x)
<1>1. PICK C : IsChain(C, Row, chead) /\ Deque = C[First]
  BY Chains
<1>2. PICK C2 : IsChain(C2, Row', chead) /\ Deque' = C2[First']
  BY Chains
<1>3. First' = First /\ First \in 1..k
  BY Chains DEF First
<1>4. /\ Row'[k] = Append(Row[k], x)
      /\ \A e \in (1..chead) \ {k} : Row'[e] = Row[e]
      /\ \A e \in (k + 1)..chead : Row[e] = <<>>
  BY Chains
<1>5. \A e \in 1..k : C2[e] = Append(C[e], x)
  BY <1>1, <1>2, <1>4, ChainPush
<1> QED BY <1>1, <1>2, <1>3, <1>5

\* Ring k loses the value at its head, and there is none in the rings after it.
LEMMA DequePopHead ==
    ASSUME PoolIInv, PoolIInv', chead' = chead, ctail' = ctail, NEW k \in 1..chead, k >= ctail,
           NEW x \in Item, Values(k) = Append(Values(k)', x),
           \A e \in 1..chead : e # k => Values(e)' = Values(e),
           \A e \in 1..chead : e > k => Values(e) = <<>>
    PROVE  Deque = Append(Deque', x) /\ Deque' \in Seq(Item)
<1>1. PICK C : IsChain(C, Row, chead) /\ Deque = C[First]
  BY Chains
<1>2. PICK C2 : IsChain(C2, Row', chead) /\ Deque' = C2[First']
  BY Chains
<1>3. First' = First /\ First \in 1..k /\ First \in 1..(chead + 1)
  BY Chains DEF First
<1>4. /\ Row[k] = Append(Row'[k], x)
      /\ \A e \in (1..chead) \ {k} : Row[e] = Row'[e]
      /\ \A e \in (k + 1)..chead : Row'[e] = <<>>
  BY Chains
<1>5. \A e \in 1..k : C[e] = Append(C2[e], x)
  BY <1>1, <1>2, <1>4, ChainPush
<1>6. C2[First] \in Seq(Item)
  BY <1>2, <1>3 DEF IsChain
<1> QED BY <1>1, <1>2, <1>3, <1>5, <1>6

\* The first ring of the deque loses the value at its tail.
LEMMA DequePopTail ==
    ASSUME PoolIInv, PoolIInv', chead' = chead, ctail' = ctail, NEW k \in 1..chead, ctail = k,
           NEW x \in Item, Values(k) = <<x>> \o Values(k)',
           \A e \in 1..chead : e # k => Values(e)' = Values(e)
    PROVE  Deque = <<x>> \o Deque' /\ Deque' \in Seq(Item)
<1>1. PICK C : IsChain(C, Row, chead) /\ Deque = C[First]
  BY Chains
<1>2. PICK C2 : IsChain(C2, Row', chead) /\ Deque' = C2[First']
  BY Chains
<1>3. First' = k /\ First = k
  BY Chains DEF First
<1>4. /\ Row[k] = <<x>> \o Row'[k]
      /\ \A e \in (1..chead) \ {k} : Row'[e] = Row[e]
  BY <1>3, Chains
<1>5. C[k] = <<x>> \o C2[k] /\ C2[k] \in Seq(Item)
  BY <1>1, <1>2, <1>4, ChainPop, SMTT(30)
<1> QED BY <1>1, <1>2, <1>3, <1>5

\* A ring is added, empty.
LEMMA DequeGrow ==
    ASSUME PoolIInv, PoolIInv', NEW k, k = chead + 1, chead' = k, First' = First, Values(k)' = <<>>,
           \A e \in 1..chead : Values(e)' = Values(e)
    PROVE  Deque' = Deque
<1>1. PICK C : IsChain(C, Row, chead) /\ Deque = C[First]
  BY Chains
<1>2. PICK C2 : IsChain(C2, Row', chead + 1) /\ Deque' = C2[First']
  BY Chains
<1>3. First \in 1..(chead + 1)
  BY Chains DEF First
<1>4. Row'[chead + 1] = <<>> /\ \A e \in 1..chead : Row'[e] = Row[e]
  <2>1. k \in 1..chead' /\ \A e \in 1..chead : e \in 1..chead'
    BY Chains
  <2> QED BY <2>1, Chains
<1>5. \A e \in 1..(chead + 1) : C2[e] = C[e]
  BY <1>1, <1>2, <1>4, ChainGrow
<1> QED BY <1>1, <1>2, <1>3, <1>5

\* c.tail moves past a ring that is empty.
LEMMA DequeMove ==
    ASSUME PoolIInv, PoolIInv', chead' = chead, ctail # 0, ctail' = ctail + 1, Values(ctail) = <<>>,
           \A e \in 1..chead : Values(e)' = Values(e)
    PROVE  Deque' = Deque
<1>1. PICK C : IsChain(C, Row, chead) /\ Deque = C[First]
  BY Chains
<1>2. PICK C2 : IsChain(C2, Row', chead) /\ Deque' = C2[First']
  BY Chains
<1>3. PICK k \in 1..chead : k = ctail /\ First = k /\ First' = k + 1 /\ k + 1 \in 1..chead
  BY Chains DEF First
<1>4. Row[k] = <<>> /\ \A e \in 1..((chead + 1) - 1) : Row'[e] = Row[e]
  BY <1>3, Chains
<1>5. Meet(C, Row, chead, C2, Row', chead, 1, chead + 1)
  BY <1>1, <1>2, <1>3, <1>4, Chains DEF Meet
<1>6. C2[chead + 1] = C[chead + 1]
  BY <1>1, <1>2 DEF IsChain
<1>7. k + 1 \in 1..(chead + 1)
  BY <1>3, Chains
<1>8. C2[k + 1] = C[k + 1]
  BY <1>5, <1>6, <1>7, ChainAgree
<1>9. C[k] = Row[k] \o C[k + 1] /\ C[k + 1] \in Seq(Item)
  BY <1>1, <1>7 DEF IsChain
<1>10. C[k] = C[k + 1]
  BY <1>4, <1>9
<1> QED BY <1>1, <1>2, <1>3, <1>8, <1>10

\* The deque is empty if its rings are.
LEMMA DequeEmpty ==
    ASSUME PoolIInv, \A e \in 1..chead : e >= ctail => Values(e) = <<>>
    PROVE  Deque = <<>>
<1>1. PICK C : IsChain(C, Row, chead) /\ Deque = C[First]
  BY Content
<1>2. First \in 1..(chead + 1)
  BY Content
<1>3. chead \in Nat /\ ctail \in Nat /\ First >= ctail
  <2>1. Types /\ NilPtr = 0 /\ Elt = 1..MaxElt /\ MaxElt \in Nat
    BY Basics
  <2> QED BY <2>1 DEF Types, First
<1>4. \A e \in First..chead : Row[e] = <<>>
  BY <1>2, <1>3 DEF Row
<1>5. \A e \in First..(chead + 1) : C[e] = <<>>
  BY <1>1, <1>2, <1>4, ChainEmpty
<1> QED BY <1>1, <1>2, <1>3, <1>5

-----------------------------------------------------------------------------
(* What a step leaves of the values and of the results *)

\* What the call of p has found.
Result(p) ==
    CASE at[p] = "none" -> <<"none">>
      [] at[p] \in {"clearVal", "clearTyp", "done"} -> <<v[p]>>
      [] at[p] = "popHeadRead" -> <<Unboxed(val[d[p]][Slot(d[p], head(p))])>>
      [] at[p] = "popTailRead" -> <<Unboxed(val[d[p]][Slot(d[p], tail(p))])>>
      [] OTHER -> <<>>

\* Where a call has found nothing yet.
Searching(l) == l \notin {"none", "clearVal", "clearTyp", "done", "popHeadRead", "popTailRead"}

\* Result by cases, before and after a step.
LEMMA ResultIs ==
    ASSUME NEW p
    PROVE  /\ at[p] = "none" => Result(p) = <<"none">>
           /\ at[p] \in {"clearVal", "clearTyp", "done"} => Result(p) = <<v[p]>>
           /\ at[p] = "popHeadRead" => Result(p) = <<Unboxed(val[d[p]][Slot(d[p], head(p))])>>
           /\ at[p] = "popTailRead" => Result(p) = <<Unboxed(val[d[p]][Slot(d[p], tail(p))])>>
           /\ Searching(at[p]) => Result(p) = <<>>
  BY DEF Result, Searching

\* The same of the state after a step.
LEMMA ResultNext ==
    ASSUME NEW p
    PROVE  /\ at'[p] = "none" => Result(p)' = <<"none">>
           /\ at'[p] \in {"clearVal", "clearTyp", "done"} => Result(p)' = <<v'[p]>>
           /\ at'[p] = "popHeadRead" => Result(p)' = <<Unboxed(val'[d'[p]][Slot(d[p], head(p))'])>>
           /\ at'[p] = "popTailRead" => Result(p)' = <<Unboxed(val'[d'[p]][Slot(d[p], tail(p))'])>>
           /\ Searching(at'[p]) => Result(p)' = <<>>
  BY DEF Result, Searching, Unboxed

\* Only p takes a step, and of the slots of the rings it changes at most its own.
Spares(p) ==
    /\ Only(p)
    /\ \A e \in 1..chead :
          /\ Size(e)' = Size(e)
          /\ \A i \in 1..Size(e) : i # Claim(p, e) => val'[e][i] = val[e][i]

\* The values of a ring stay if its indices do.
LEMMA ValuesKept ==
    ASSUME PoolIInv, NEW p \in Process, Spares(p), NEW e \in 1..chead, headTail'[e] = headTail[e]
    PROVE  Values(e)' = Values(e)
<1>1. /\ Size(e)' = Size(e) /\ e \in Elt /\ SlotsOK(e)
      /\ \A i \in 1..Size(e) : i # Claim(p, e) => val'[e][i] = val[e][i]
  BY RingOf DEF Spares, PoolIInv
<1>2. Count(e)' = Count(e)
  BY <1>1, SameRange
<1>3. InRange(e) \subseteq 1..Size(e) /\ Claim(p, e) \notin InRange(e)
  <2>1. InRange(e) \subseteq 1..Size(e) /\ Size(e) \in Nat
    BY <1>1, InRing, RingOf
  <2>2. Claim(p, e) # 0 => Claim(p, e) \notin InRange(e)
    BY <1>1 DEF SlotsOK
  <2> QED BY <2>1, <2>2
<1>4. \A i \in InRange(e) : val'[e][i] = val[e][i]
  BY <1>1, <1>3
<1>5. ASSUME NEW k \in 1..Count(e)
      PROVE  /\ Slot(e, headTail[e][2] + k - 1)' = Slot(e, headTail[e][2] + k - 1)
             /\ val'[e][Slot(e, headTail[e][2] + k - 1)] = val[e][Slot(e, headTail[e][2] + k - 1)]
  <2>1. headTail[e][2] \in Nat /\ Count(e) \in Nat
    BY RingOf, Sizes DEF Index
  <2>2. headTail[e][2] + k - 1 = headTail[e][2] + (k - 1) /\ k - 1 \in 0..(Count(e) - 1)
    BY <2>1
  <2>3. Slot(e, headTail[e][2] + k - 1) \in InRange(e)
    BY <2>2 DEF InRange
  <2>4. Slot(e, headTail[e][2] + k - 1)' = Slot(e, headTail[e][2] + k - 1)
    BY <1>1 DEF Slot
  <2> QED BY <1>4, <2>3, <2>4
<1>6. Values(e)' = [k \in 1..Count(e) |-> Unboxed(val'[e][Slot(e, headTail[e][2] + k - 1)])]
  <2>1. Values(e)' = [k \in 1..Count(e)' |-> Unboxed(val'[e][Slot(e, headTail[e][2] + k - 1)'])]
    BY DEF Values, Unboxed
  <2> QED BY <1>2, <1>5, <2>1
<1>7. Values(e) = [k \in 1..Count(e) |-> Unboxed(val[e][Slot(e, headTail[e][2] + k - 1)])]
  BY DEF Values
<1> QED BY <1>5, <1>6, <1>7

\* The others keep what they have found.
LEMMA ResultsKept ==
    ASSUME PoolIInv, NEW p \in Process, Spares(p)
    PROVE  \A q \in Process \ {p} : Result(q)' = Result(q)
<1> SUFFICES ASSUME NEW q \in Process \ {p}
             PROVE  Result(q)' = Result(q)
  OBVIOUS
<1>1. at'[q] = at[q] /\ d'[q] = d[q] /\ ptrs'[q] = ptrs[q] /\ v'[q] = v[q]
  BY DEF Spares, Only
<1>2. CASE at[q] \in {"popHeadRead", "popTailRead"}
  <2>1. PICK e \in 1..chead : e = d[q]
    <3>1. at[q] \in {"popHeadRead", "popTailRead"} => d[q] \in 1..chead
      <4>1. CASE q = Producer
        BY <4>1, Basics DEF ProducerKnows, Types, ProducerAt, ProducerPC
      <4>2. CASE q \in Consumer
        BY <4>2, Basics DEF PoolIInv, ConsumerKnows, Types, ConsumerAt, ConsumerPC
      <4> QED BY <4>1, <4>2, Basics
    <3> QED BY <1>2, <3>1
  <2>2. PICK i \in 1..Size(e) : /\ i = Claim(q, e) /\ i # Claim(p, e)
                                /\ at[q] \in HeadClaims => i = Slot(e, head(q))
                                /\ at[q] \in TailClaims => i = Slot(e, tail(q))
    <3>1. d[q] = e /\ at[q] \in Claims
      BY <1>2, <2>1 DEF Claims, HeadClaims, TailClaims
    <3> QED BY <3>1, ClaimedSlot
  <2>3. val'[e][i] = val[e][i] /\ Size(e)' = Size(e)
    BY <2>2 DEF Spares
  <2>4. /\ Slot(d[q], head(q))' = Slot(e, head(q)) /\ Slot(d[q], tail(q))' = Slot(e, tail(q))
    BY <1>1, <2>1, <2>3 DEF Slot, Size, head, tail
  <2>5. CASE at[q] = "popHeadRead"
    <3>1. i = Slot(e, head(q))
      BY <2>2, <2>5 DEF HeadClaims
    <3>2. Result(q) = <<Unboxed(val[e][i])>>
      BY <2>1, <2>5, <3>1, ResultIs
    <3>3. Result(q)' = <<Unboxed(val'[e][i])>>
      BY <1>1, <2>1, <2>4, <2>5, <3>1, ResultNext
    <3> QED BY <2>3, <3>2, <3>3
  <2>6. CASE at[q] = "popTailRead"
    <3>1. i = Slot(e, tail(q))
      BY <2>2, <2>6 DEF TailClaims
    <3>2. Result(q) = <<Unboxed(val[e][i])>>
      BY <2>1, <2>6, <3>1, ResultIs
    <3>3. Result(q)' = <<Unboxed(val'[e][i])>>
      BY <1>1, <2>1, <2>4, <2>6, <3>1, ResultNext
    <3> QED BY <2>3, <3>2, <3>3
  <2> QED BY <1>2, <2>5, <2>6
<1>3. CASE at[q] \notin {"popHeadRead", "popTailRead"}
  BY <1>1, <1>3 DEF Result
<1> QED BY <1>2, <1>3

\* A step of p that changes its result to r, or keeps it.
LEMMA ResultStep ==
    ASSUME PoolIInv, NEW p \in Process, Spares(p)
    PROVE  /\ AbsResult[p] = Result(p)
           /\ AbsResult' = [AbsResult EXCEPT ![p] = Result(p)']
           /\ Result(p)' = Result(p) => AbsResult' = AbsResult
<1>1. AbsResult = [q \in Process |-> Result(q)]
  BY DEF AbsResult, Result
<1>2. AbsResult' = [q \in Process |-> Result(q)']
  BY DEF AbsResult, Result
<1>3. \A q \in Process \ {p} : Result(q)' = Result(q)
  BY ResultsKept
<1> QED BY <1>1, <1>2, <1>3

-----------------------------------------------------------------------------
(* What is known of the order of the rings *)

\* A consumer is not ahead of c.tail while it looks for a value.
Behind(c) ==
    /\ at[c] \in {"next", "popTail", "popTailCAS", "drained", "clearPrev"} => d[c] <= ctail
    /\ at[c] = "clearPrev" => d2[c] <= ctail

\* A ring is cut off from the ones before it only when c.tail has passed them.
CutOff == \A e \in 1..chead : prev[e] = 0 => e <= ctail

\* What the producer has passed, going back, is empty and stays so; what it has written
\* is its argument.
Passed ==
    /\ at[Producer] \in {"popHead", "popHeadCAS", "backUp"} =>
          \A e \in Elt : e > d[Producer] => Count(e) = 0
    /\ at[Producer] = "backUp" => Count(d[Producer]) = 0
    /\ at[Producer] = "pushAdd" =>
          \A e \in Elt : d[Producer] = e => val[e][Slot(e, head(Producer))] = Boxed(v[Producer])

Order == CutOff /\ Passed /\ \A c \in Consumer : Behind(c)

\* A step of p keeps this if it does for p itself.
LEMMA OrderKeeps ==
    ASSUME PoolIInv, PoolIInv', Order, NEW p \in Process, Only(p), ctail' >= ctail, CutOff',
           p \in Consumer => Behind(p)', p = Producer => Passed',
           p \in Consumer => Spares(p) /\ \A e \in Elt : Count(e) = 0 => Count(e)' = 0
    PROVE  Order'
<1> USE Basics
<1>1. ASSUME NEW c \in Consumer
      PROVE  Behind(c)'
  <2>1. CASE c = p
    BY <2>1
  <2>2. CASE c # p
    <3>1. at'[c] = at[c] /\ d'[c] = d[c] /\ d2'[c] = d2[c] /\ Behind(c)
      BY <2>2 DEF Only, Order
    <3>2. ctail' \in Nat /\ d[c] \in Nat /\ d2[c] \in Nat
      BY BoundedNext DEF ChainBounds, Types
    <3> QED BY <3>1, <3>2 DEF Behind
  <2> QED BY <2>1, <2>2
<1>2. Passed'
  <2>1. CASE p = Producer
    BY <2>1
  <2>2. CASE p # Producer
    <3>1. at'[Producer] = at[Producer] /\ d'[Producer] = d[Producer] /\ Passed
      BY <2>2 DEF Only, Order
    <3>2. \A e \in Elt : Count(e) = 0 => Count(e)' = 0
      BY <2>2
    <3>3. at[Producer] = "backUp" => Count(d[Producer])' = 0
      <4>1. SUFFICES ASSUME at[Producer] = "backUp"
                     PROVE  Count(d[Producer])' = 0
        OBVIOUS
      <4>2. PICK e \in Elt : e = d[Producer]
        BY <4>1 DEF ProducerKnows, Types
      <4>3. Count(d[Producer])' = Count(e)' /\ Count(e) = 0
        BY <3>1, <4>1, <4>2 DEF Count, Passed
      <4> QED BY <3>2, <4>3
    <3>4. ASSUME at[Producer] = "pushAdd", NEW e \in Elt, d[Producer] = e
          PROVE  val'[e][Slot(e, head(Producer))'] = Boxed(v'[Producer])
      <4>1. val[e][Slot(e, head(Producer))] = Boxed(v[Producer])
        BY <3>1, <3>4 DEF Passed
      <4>2. e \in 1..chead /\ d[Producer] = e /\ at[Producer] \in Claims /\ at[Producer] \in HeadClaims
        BY <3>4 DEF ProducerKnows, Claims, HeadClaims
      <4>3. PICK i \in 1..Size(e) : i = Claim(Producer, e) /\ i # Claim(p, e) /\ i = Slot(e, head(Producer))
        BY <2>2, <4>2, ClaimedSlot
      <4>4. val'[e][i] = val[e][i] /\ Size(e)' = Size(e)
        BY <2>2, <4>2, <4>3 DEF Spares
      <4>5. Slot(e, head(Producer))' = Slot(e, head(Producer)) /\ v'[Producer] = v[Producer]
        BY <2>2, <4>4 DEF Slot, head, Only
      <4> QED BY <4>1, <4>3, <4>4, <4>5
    <3>5. at'[Producer] = "pushAdd" =>
             \A e \in Elt : d'[Producer] = e => val'[e][Slot(e, head(Producer))'] = Boxed(v'[Producer])
      BY <3>1, <3>4
    <3> QED BY <3>1, <3>2, <3>3, <3>5 DEF Passed, Boxed
  <2> QED BY <2>1, <2>2
<1> QED BY <1>1, <1>2 DEF Order

\* A step of p that changes only what p knows, or its own slot.
LEMMA LocalSim ==
    ASSUME PoolIInv, PoolIInv', Order, NEW p \in Process, Spares(p),
           UNCHANGED <<chead, ctail, headTail, prev>>,
           p \in Consumer => Behind(p)', p = Producer => Passed'
    PROVE  Order' /\ Deque' = Deque
<1> USE Basics
<1>1. \A e \in 1..chead : Values(e)' = Values(e)
  BY ValuesKept
<1>2. Deque' = Deque
  BY <1>1, DequeSame
<1>3. ctail' >= ctail /\ Only(p)
  BY DEF Spares
<1>4. \A e \in Elt : Count(e)' = Count(e)
  BY DEF Count
<1>5. CutOff'
  BY DEF CutOff, Order
<1> QED BY <1>2, <1>3, <1>4, <1>5, OrderKeeps

\* The same for a step that leaves the rings alone.
LEMMA QuietSim ==
    ASSUME PoolIInv, PoolIInv', Order, NEW p \in Process, Only(p),
           UNCHANGED <<chead, ctail, headTail, prev, typ, val>>,
           p \in Consumer => Behind(p)', p = Producer => Passed'
    PROVE  Order' /\ Deque' = Deque /\ Spares(p)
<1>1. Spares(p)
  BY DEF Spares, Size
<1> QED BY <1>1, LocalSim

\* What a step does to the values and the results.
Same == Deque' = Deque /\ AbsResult' = AbsResult
Pushed(x) == Deque' = Append(Deque, x) /\ AbsResult' = AbsResult
Learns(p, r) == AbsResult[p] = <<>> /\ AbsResult' = [AbsResult EXCEPT ![p] = r]
Nothing(p) == Deque' = Deque /\ Learns(p, <<"none">>)
Returned(p) ==
    /\ Deque' = Deque
    /\ AbsResult[p] # <<>>
    /\ AbsResult' = [AbsResult EXCEPT ![p] = <<>>]
Shrunk(e) == Count(e)' + 1 = Count(e) /\ \A f \in Elt \ {e} : Count(f)' = Count(f)
TakenBy(p) ==
    \E x \in Item : /\ Deque' \in Seq(Item) /\ Learns(p, <<x>>)
                     /\ Deque = IF p = Producer THEN Append(Deque', x) ELSE <<x>> \o Deque'

\* The last and the first value of a sequence that is put together.
LEMMA TakenApart ==
    ASSUME NEW s \in Seq(Item), NEW x \in Item
    PROVE  /\ Append(s, x) # <<>> /\ Append(s, x)[Len(Append(s, x))] = x
           /\ SubSeq(Append(s, x), 1, Len(Append(s, x)) - 1) = s
           /\ <<x>> \o s # <<>> /\ Head(<<x>> \o s) = x /\ Tail(<<x>> \o s) = s
<1>1. Len(Append(s, x)) = Len(s) + 1 /\ Append(s, x)[Len(s) + 1] = x
  OBVIOUS
<1>2. SubSeq(Append(s, x), 1, Len(Append(s, x)) - 1) = s
  BY <1>1
<1>3. <<x>> \o s # <<>> /\ Head(<<x>> \o s) = x /\ Tail(<<x>> \o s) = s
  OBVIOUS
<1> QED BY <1>1, <1>2, <1>3

-----------------------------------------------------------------------------
(* Steps that change the locals of one process only *)

\* p goes on searching.
LEMMA SearchSim ==
    ASSUME PoolIInv, PoolIInv', Order, NEW p \in Process, Only(p),
           UNCHANGED <<chead, ctail, headTail, prev, typ, val>>,
           p \in Consumer => Behind(p)', p = Producer => Passed',
           Searching(at[p]), Searching(at'[p])
    PROVE  Order' /\ Same
<1>1. Order' /\ Deque' = Deque /\ Spares(p)
  BY QuietSim
<1>2. Result(p)' = <<>> /\ Result(p) = <<>>
  BY ResultIs, ResultNext
<1>3. AbsResult' = AbsResult
  BY <1>1, <1>2, ResultStep
<1> QED BY <1>1, <1>3 DEF Same

\* p finds nothing.
LEMMA NoneSim ==
    ASSUME PoolIInv, PoolIInv', Order, NEW p \in Process, Only(p),
           UNCHANGED <<chead, ctail, headTail, prev, typ, val>>,
           Searching(at[p]), at'[p] = "none"
    PROVE  Order' /\ Nothing(p)
<1>1. Behind(p)' /\ (p = Producer => Passed')
  BY DEF Behind, Passed
<1>2. Order' /\ Deque' = Deque /\ Spares(p)
  BY <1>1, QuietSim
<1>3. Result(p) = <<>> /\ Result(p)' = <<"none">>
  BY ResultIs, ResultNext
<1>4. Learns(p, <<"none">>)
  BY <1>2, <1>3, ResultStep DEF Learns
<1> QED BY <1>2, <1>4 DEF Nothing

\* Return of any process.
LEMMA ReturnSim ==
    ASSUME PoolIInv, PoolIInv', Order, NEW p \in Process, PoolReturn(p)
    PROVE  Order' /\ Returned(p)
<1> USE Basics
<1>1. /\ at[p] \in {"done", "none"} /\ at'[p] = "idle" /\ Only(p)
      /\ UNCHANGED <<chead, ctail, headTail, prev, typ, val>>
  BY DEF PoolReturn, GoesTo, Types, Set, Only, chain, ring
<1>2. Behind(p)' /\ (p = Producer => Passed')
  BY <1>1 DEF Behind, Passed
<1>3. Order' /\ Deque' = Deque /\ Spares(p)
  BY <1>1, <1>2, QuietSim
<1>4. Result(p) # <<>>
  BY <1>1, ResultIs
<1>5. Result(p)' = <<>>
  BY <1>1, ResultNext DEF Searching
<1>6. AbsResult[p] # <<>> /\ AbsResult' = [AbsResult EXCEPT ![p] = <<>>]
  BY <1>3, <1>4, <1>5, ResultStep
<1> QED BY <1>3, <1>6 DEF Returned

\* pushHead on a chain that has a ring.
LEMMA PushHeadSim ==
    ASSUME PoolIInv, PoolIInv', Order, NEW x \in Item, PushHead(x), chead # 0
    PROVE  Order' /\ Same
<1> USE Basics
<1>1. /\ at[Producer] = "idle" /\ at'[Producer] = "push" /\ Only(Producer)
      /\ UNCHANGED <<chead, ctail, headTail, prev, typ, val>>
  BY DEF PushHead, GoesTo, Types, Set, Only, chain
<1>2. Passed' /\ Searching(at[Producer]) /\ Searching(at'[Producer])
  BY <1>1 DEF Passed, Searching
<1> QED BY <1>1, <1>2, SearchSim

\* It loads headTail.
LEMMA PushLoadSim ==
    ASSUME PoolIInv, PoolIInv', Order, PushLoad
    PROVE  Order' /\ Same
<1> USE Basics
<1>1. /\ at[Producer] = "push" /\ at'[Producer] \in {"grow", "pushTyp"} /\ Only(Producer)
      /\ UNCHANGED <<chead, ctail, headTail, prev, typ, val>>
  BY DEF PushLoad, Loaded, GoesTo, Types, Set, Only, chain, ring
<1>2. Passed' /\ Searching(at[Producer]) /\ Searching(at'[Producer])
  BY <1>1 DEF Passed, Searching
<1> QED BY <1>1, <1>2, SearchSim

\* It tests the slot.
LEMMA PushTypSim ==
    ASSUME PoolIInv, PoolIInv', Order, PushTyp
    PROVE  Order' /\ Same
<1> USE Basics
<1>1. /\ at[Producer] = "pushTyp" /\ at'[Producer] \in {"pushWrite", "grow"} /\ Only(Producer)
      /\ UNCHANGED <<chead, ctail, headTail, prev, typ, val>>
  BY DEF PushTyp, GoesTo, Types, Set, Only, chain, ring
<1>2. Passed' /\ Searching(at[Producer]) /\ Searching(at'[Producer])
  BY <1>1 DEF Passed, Searching
<1> QED BY <1>1, <1>2, SearchSim

\* popHead starts at c.head, after which there is no ring.
LEMMA PopHeadSim ==
    ASSUME PoolIInv, PoolIInv', Order, PopHead
    PROVE  Order' /\ (Same \/ (Nothing(Producer) /\ Deque = <<>>))
<1> USE Basics
<1>1. /\ at[Producer] = "idle" /\ at'[Producer] = (IF chead = 0 THEN "none" ELSE "popHead")
      /\ d'[Producer] = chead /\ Only(Producer)
      /\ UNCHANGED <<chead, ctail, headTail, prev, typ, val>>
  BY DEF PopHead, GoesTo, Types, Set, Only, chain, ring
<1>2. CASE chead = 0
  <2>1. Deque = <<>>
    BY <1>2, DequeEmpty
  <2> QED BY <1>1, <1>2, <2>1, NoneSim DEF Searching
<1>3. CASE chead # 0
  <2>1. \A e \in Elt : e > chead => Count(e)' = 0
    BY <1>1, NoRing DEF Count
  <2>2. Passed'
    BY <1>1, <1>3, <2>1 DEF Passed
  <2> QED BY <1>1, <1>3, <2>2, SearchSim DEF Searching
<1> QED BY <1>2, <1>3

\* It loads headTail.
LEMMA PopHeadLoadSim ==
    ASSUME PoolIInv, PoolIInv', Order, PopHeadLoad
    PROVE  Order' /\ Same
<1> USE Basics
<1>1. /\ at[Producer] = "popHead" /\ d'[Producer] = d[Producer] /\ Only(Producer)
      /\ at'[Producer] = (IF IsEmpty(headTail[d[Producer]]) THEN "backUp" ELSE "popHeadCAS")
      /\ UNCHANGED <<chead, ctail, headTail, prev, typ, val>>
  BY DEF PopHeadLoad, Loaded, GoesTo, Types, Set, Only, chain, ring
<1>2. PICK e \in 1..chead : e = d[Producer]
  BY <1>1 DEF ProducerKnows
<1>3. at'[Producer] = "backUp" => Count(e) = 0
  BY <1>1, <1>2, FullAndEmpty
<1>4. Count(d[Producer])' = Count(e) /\ \A f \in Elt : Count(f)' = Count(f)
  BY <1>1, <1>2 DEF Count
<1>5. Passed'
  BY <1>1, <1>3, <1>4 DEF Order, Passed
<1> QED BY <1>1, <1>5, SearchSim DEF Searching

\* A ring with no value.
LEMMA NoValue ==
    ASSUME PoolIInv, NEW e \in 1..chead, Count(e) = 0
    PROVE  Values(e) = <<>>
<1>1. Values(e) \in Seq(Item) /\ Len(Values(e)) = 0
  BY ValuesType, RingOf
<1> QED BY <1>1

\* It goes back: if there is no ring before, the deque is empty.
LEMMA BackUpSim ==
    ASSUME PoolIInv, PoolIInv', Order, BackUp
    PROVE  Order' /\ (Same \/ (Nothing(Producer) /\ Deque = <<>>))
<1> USE Basics
<1>1. /\ at[Producer] = "backUp" /\ d'[Producer] = prev[d[Producer]] /\ Only(Producer)
      /\ at'[Producer] = (IF prev[d[Producer]] = 0 THEN "none" ELSE "popHead")
      /\ UNCHANGED <<chead, ctail, headTail, prev, typ, val>>
  BY DEF BackUp, GoesTo, Types, Set, Only, chain, ring
<1>2. PICK e \in 1..chead : e = d[Producer] /\ e \in Elt
  BY <1>1, RingOf DEF ProducerKnows
<1>3. prev[e] \in {0, e - 1}
  BY <1>2 DEF Links
<1>4. \A f \in Elt : f >= e => Count(f) = 0 /\ Count(f)' = 0
  <2>1. \A f \in Elt : f >= e => Count(f) = 0
    BY <1>1, <1>2 DEF Order, Passed
  <2> QED BY <1>1, <2>1 DEF Count
<1>5. CASE prev[e] = 0
  <2>1. e <= ctail
    BY <1>2, <1>5 DEF Order, CutOff
  <2>2. ASSUME NEW f \in 1..chead, f >= ctail
        PROVE  Values(f) = <<>>
    <3>1. f >= e /\ f \in Elt
      BY <2>1, <2>2, RingOf
    <3> QED BY <1>4, <3>1, NoValue
  <2>3. Deque = <<>>
    BY <2>2, DequeEmpty
  <2> QED BY <1>1, <1>2, <1>5, <2>3, NoneSim DEF Searching
<1>6. CASE prev[e] = e - 1 /\ prev[e] # 0
  <2>1. Passed'
    BY <1>1, <1>2, <1>4, <1>6 DEF Passed
  <2> QED BY <1>1, <1>2, <1>6, <2>1, SearchSim DEF Searching
<1> QED BY <1>3, <1>5, <1>6

\* popTail starts at c.tail.
LEMMA PopTailSim ==
    ASSUME PoolIInv, PoolIInv', Order, NEW c \in Consumer, PopTail(c)
    PROVE  Order' /\ (IF ctail = 0 THEN Nothing(c) /\ Deque = <<>> ELSE Same)
<1> USE Basics
<1>1. /\ at[c] = "idle" /\ at'[c] = (IF ctail = 0 THEN "none" ELSE "next")
      /\ d'[c] = ctail /\ Only(c)
      /\ UNCHANGED <<chead, ctail, headTail, prev, typ, val>>
  BY DEF PopTail, GoesTo, Types, Set, Only, chain, ring
<1>2. CASE ctail = 0
  <2>1. chead = 0
    BY <1>2, Bounded DEF ChainBounds
  <2>2. Deque = <<>>
    BY <2>1, DequeEmpty
  <2> QED BY <1>1, <1>2, <2>2, NoneSim DEF Searching
<1>3. CASE ctail # 0
  <2>1. Behind(c)'
    BY <1>1, <1>3 DEF Behind
  <2> QED BY <1>1, <1>3, <2>1, SearchSim DEF Searching
<1> QED BY <1>2, <1>3

\* It loads next.
LEMMA NextLoadSim ==
    ASSUME PoolIInv, PoolIInv', Order, NEW c \in Consumer, NextLoad(c)
    PROVE  Order' /\ Same
<1> USE Basics
<1>1. /\ at[c] = "next" /\ at'[c] = "popTail" /\ d'[c] = d[c] /\ Only(c)
      /\ UNCHANGED <<chead, ctail, headTail, prev, typ, val>>
  BY DEF NextLoad, GoesTo, Types, Set, Only, chain, ring
<1>2. Behind(c)'
  BY <1>1 DEF Order, Behind
<1> QED BY <1>1, <1>2, SearchSim DEF Searching

\* It loads headTail.
LEMMA PopTailLoadSim ==
    ASSUME PoolIInv, PoolIInv', Order, NEW c \in Consumer, PopTailLoad(c)
    PROVE  Order' /\ (IF at'[c] = "none" THEN Nothing(c) ELSE Same)
<1> USE Basics
<1>1. /\ at[c] = "popTail" /\ at'[c] \in {"popTailCAS", "none", "drained"} /\ d'[c] = d[c] /\ Only(c)
      /\ UNCHANGED <<chead, ctail, headTail, prev, typ, val>>
  BY DEF PopTailLoad, Loaded, GoesTo, Types, Set, Only, chain, ring
<1>2. Behind(c)'
  BY <1>1 DEF Order, Behind
<1>3. CASE at'[c] = "none"
  BY <1>1, <1>3, NoneSim DEF Searching
<1>4. CASE at'[c] # "none"
  BY <1>1, <1>2, <1>4, SearchSim DEF Searching
<1> QED BY <1>3, <1>4

\* It reads the slot that it has taken.
LEMMA PopTailReadSim ==
    ASSUME PoolIInv, PoolIInv', Order, NEW c \in Consumer, PopTailRead(c)
    PROVE  Order' /\ Same
<1> USE Basics
<1>1. /\ at[c] = "popTailRead" /\ at'[c] = "clearVal" /\ Only(c)
      /\ v'[c] = Unboxed(val[d[c]][Slot(d[c], tail(c))])
      /\ UNCHANGED <<chead, ctail, headTail, prev, typ, val>>
  BY DEF PopTailRead, GoesTo, Types, Set, Only, chain, ring
<1>2. Behind(c)'
  BY <1>1 DEF Behind
<1>3. Order' /\ Deque' = Deque /\ Spares(c)
  BY <1>1, <1>2, QuietSim
<1>4. Result(c)' = Result(c)
  BY <1>1, ResultIs, ResultNext
<1>5. AbsResult' = AbsResult
  BY <1>3, <1>4, ResultStep
<1> QED BY <1>3, <1>5 DEF Same

-----------------------------------------------------------------------------
(* Steps that change a slot, and the chain *)

\* p changes its own slot and keeps what it has found.
LEMMA SlotSim ==
    ASSUME PoolIInv, PoolIInv', Order, NEW p \in Process, Spares(p),
           UNCHANGED <<chead, ctail, headTail, prev>>,
           p \in Consumer => Behind(p)', p = Producer => Passed', Result(p)' = Result(p)
    PROVE  Order' /\ Same
<1>1. Order' /\ Deque' = Deque
  BY LocalSim
<1>2. AbsResult' = AbsResult
  BY ResultStep
<1> QED BY <1>1, <1>2 DEF Same

\* The rings after a write to slot i of ring e, which p owns.
LEMMA WriteSpares ==
    ASSUME PoolIInv, NEW p \in Process, Only(p), NEW e \in 1..chead, NEW i \in 1..Size(e),
           i = Claim(p, e), \A f \in Elt : Size(f)' = Size(f),
           \A f \in Elt \ {e} : val'[f] = val[f],
           \A j \in (1..Size(e)) \ {i} : val'[e][j] = val[e][j]
    PROVE  Spares(p)
<1>1. ASSUME NEW f \in 1..chead
      PROVE  /\ Size(f)' = Size(f)
             /\ \A j \in 1..Size(f) : j # Claim(p, f) => val'[f][j] = val[f][j]
  <2>1. f \in Elt
    BY RingOf
  <2>2. CASE f = e
    BY <2>1, <2>2
  <2>3. CASE f # e
    BY <2>1, <2>3
  <2> QED BY <2>2, <2>3
<1> QED BY <1>1 DEF Spares

\* pushHead writes its slot.
LEMMA PushWriteSim ==
    ASSUME PoolIInv, PoolIInv', Order, PushWrite
    PROVE  Order' /\ Same
<1> USE Basics
<1>0. /\ at[Producer] = "pushWrite" /\ at'[Producer] = "pushAdd" /\ Only(Producer)
      /\ typ' = [typ EXCEPT ![d[Producer]][Slot(d[Producer], head(Producer))] = Boxed(v[Producer]) # NilItem]
      /\ val' = [val EXCEPT ![d[Producer]][Slot(d[Producer], head(Producer))] = Boxed(v[Producer])]
      /\ UNCHANGED <<chead, ctail, headTail, prev>>
  BY DEF PushWrite, GoesTo, Types, Only, chain
<1>1. PICK e \in 1..chead : e = d[Producer] /\ v[Producer] \in Item
  BY <1>0 DEF ProducerKnows
<1>2. PICK i \in 1..Size(e) : i = Claim(Producer, e) /\ i = Slot(e, head(Producer))
  BY <1>0, <1>1, ClaimedSlot DEF Claims, HeadClaims
<1>3. PICK b \in Stored, y \in BOOLEAN : b = Boxed(v[Producer]) /\ y = (Boxed(v[Producer]) # NilItem)
  BY <1>1, PoolAssumption DEF Boxed, Stored
<1>4. typ' = Put(typ, e, i, y) /\ val' = Put(val, e, i, b)
  BY <1>0, <1>1, <1>2, <1>3 DEF Put
<1>5. /\ Size(e)' = Size(e) /\ \A f \in Elt \ {e} : typ'[f] = typ[f]
  BY <1>4, WriteTyp
<1>6. /\ \A j \in (1..Size(e)) \ {i} : val'[e][j] = val[e][j]
      /\ \A f \in Elt \ {e} : val'[f] = val[f]
  BY <1>4, WriteVal
<1>7. \A f \in Elt : Size(f)' = Size(f)
  BY <1>5 DEF Size
<1>8. Spares(Producer)
  BY <1>0, <1>2, <1>6, <1>7, WriteSpares
<1>9. Passed'
  <2>1. val'[e][i] = Boxed(v[Producer])
    BY <1>3, <1>4, WriteVal
  <2>2. d'[Producer] = d[Producer] /\ ptrs'[Producer] = ptrs[Producer] /\ v'[Producer] = v[Producer]
    BY DEF PushWrite
  <2>3. Slot(e, head(Producer))' = i
    BY <1>2, <1>5, <2>2 DEF Slot, head
  <2>4. \A f \in Elt : d'[Producer] = f => val'[f][Slot(f, head(Producer))'] = Boxed(v'[Producer])
    BY <1>1, <2>1, <2>2, <2>3
  <2> QED BY <1>0, <2>4 DEF Passed, Boxed
<1>10. Result(Producer)' = Result(Producer)
  BY <1>0, ResultIs, ResultNext DEF Searching
<1> QED BY <1>0, <1>8, <1>9, <1>10, SlotSim

\* popHead reads its slot and clears it.
LEMMA PopHeadReadSim ==
    ASSUME PoolIInv, PoolIInv', Order, PopHeadRead
    PROVE  Order' /\ Same
<1> USE Basics
<1>0. /\ at[Producer] = "popHeadRead" /\ at'[Producer] = "done" /\ Only(Producer)
      /\ v'[Producer] = Unboxed(val[d[Producer]][Slot(d[Producer], head(Producer))])
      /\ typ' = [typ EXCEPT ![d[Producer]][Slot(d[Producer], head(Producer))] = FALSE]
      /\ val' = [val EXCEPT ![d[Producer]][Slot(d[Producer], head(Producer))] = 0]
      /\ UNCHANGED <<chead, ctail, headTail, prev>>
  BY DEF PopHeadRead, GoesTo, Types, Set, Only, chain
<1>1. PICK e \in 1..chead : e = d[Producer]
  BY <1>0 DEF ProducerKnows
<1>2. PICK i \in 1..Size(e) : i = Claim(Producer, e) /\ i = Slot(e, head(Producer))
  BY <1>0, <1>1, ClaimedSlot DEF Claims, HeadClaims
<1>3. 0 \in Stored /\ FALSE \in BOOLEAN
  BY DEF Stored
<1>4. typ' = Put(typ, e, i, FALSE) /\ val' = Put(val, e, i, 0)
  BY <1>0, <1>1, <1>2 DEF Put
<1>5. /\ Size(e)' = Size(e) /\ \A f \in Elt \ {e} : typ'[f] = typ[f]
  BY <1>3, <1>4, WriteTyp
<1>6. /\ \A j \in (1..Size(e)) \ {i} : val'[e][j] = val[e][j]
      /\ \A f \in Elt \ {e} : val'[f] = val[f]
  BY <1>3, <1>4, WriteVal
<1>7. \A f \in Elt : Size(f)' = Size(f)
  BY <1>5 DEF Size
<1>8. Spares(Producer)
  BY <1>0, <1>2, <1>6, <1>7, WriteSpares
<1>9. Passed' /\ Result(Producer)' = Result(Producer)
  BY <1>0, ResultIs, ResultNext DEF Passed
<1> QED BY <1>0, <1>8, <1>9, SlotSim

\* popTail clears the second word of its slot.
LEMMA ClearValSim ==
    ASSUME PoolIInv, PoolIInv', Order, NEW c \in Consumer, ClearVal(c)
    PROVE  Order' /\ Same
<1> USE Basics
<1>0. /\ at[c] = "clearVal" /\ at'[c] = "clearTyp" /\ Only(c) /\ v'[c] = v[c]
      /\ val' = [val EXCEPT ![d[c]][Slot(d[c], tail(c))] = 0]
      /\ UNCHANGED <<chead, ctail, headTail, prev, typ>>
  BY DEF ClearVal, GoesTo, Types, Only, chain
<1>1. PICK e \in 1..chead : e = d[c]
  BY <1>0 DEF ConsumerKnows, PoolIInv
<1>2. PICK i \in 1..Size(e) : i = Claim(c, e) /\ i = Slot(e, tail(c))
  BY <1>0, <1>1, ClaimedSlot DEF Claims, TailClaims
<1>3. 0 \in Stored
  BY DEF Stored
<1>4. val' = Put(val, e, i, 0)
  BY <1>0, <1>1, <1>2 DEF Put
<1>5. /\ \A j \in (1..Size(e)) \ {i} : val'[e][j] = val[e][j]
      /\ \A f \in Elt \ {e} : val'[f] = val[f]
  BY <1>3, <1>4, WriteVal
<1>6. \A f \in Elt : Size(f)' = Size(f)
  BY <1>0 DEF Size
<1>7. Spares(c)
  BY <1>0, <1>2, <1>5, <1>6, WriteSpares
<1>8. Behind(c)' /\ Result(c)' = Result(c)
  BY <1>0, ResultIs, ResultNext DEF Behind
<1> QED BY <1>0, <1>7, <1>8, SlotSim

\* And then the first.
LEMMA ClearTypSim ==
    ASSUME PoolIInv, PoolIInv', Order, NEW c \in Consumer, ClearTyp(c)
    PROVE  Order' /\ Same
<1> USE Basics
<1>0. /\ at[c] = "clearTyp" /\ at'[c] = "done" /\ Only(c) /\ v'[c] = v[c]
      /\ typ' = [typ EXCEPT ![d[c]][Slot(d[c], tail(c))] = FALSE]
      /\ UNCHANGED <<chead, ctail, headTail, prev, val>>
  BY DEF ClearTyp, GoesTo, Types, Set, Only, chain
<1>1. PICK e \in 1..chead : e = d[c]
  BY <1>0 DEF ConsumerKnows, PoolIInv
<1>2. PICK i \in 1..Size(e) : i = Claim(c, e) /\ i = Slot(e, tail(c))
  BY <1>0, <1>1, ClaimedSlot DEF Claims, TailClaims
<1>3. FALSE \in BOOLEAN
  OBVIOUS
<1>4. typ' = Put(typ, e, i, FALSE)
  BY <1>0, <1>1, <1>2 DEF Put
<1>5. /\ Size(e)' = Size(e) /\ \A f \in Elt \ {e} : typ'[f] = typ[f]
  BY <1>3, <1>4, WriteTyp
<1>6. \A f \in Elt : Size(f)' = Size(f)
  BY <1>5 DEF Size
<1>7. Spares(c)
  BY <1>0, <1>6, RingOf DEF Spares
<1>8. Behind(c)' /\ Result(c)' = Result(c)
  BY <1>0, ResultIs, ResultNext DEF Behind
<1> QED BY <1>0, <1>7, <1>8, SlotSim

\* c.tail is moved past a ring that is empty, or has been moved before.
LEMMA DrainedSim ==
    ASSUME PoolIInv, PoolIInv', Order, NEW c \in Consumer, Drained(c)
    PROVE  Order' /\ Same
<1> USE Basics
<1>0. /\ at[c] = "drained" /\ UNCHANGED <<chead, headTail, prev, typ, val, d2, ptrs, v>>
  BY DEF Drained, ring
<1>1. /\ d[c] \in 1..chead /\ d2[c] = d[c] + 1 /\ Count(d[c]) = 0 /\ d[c] <= ctail
  BY <1>0 DEF ConsumerKnows, PoolIInv, Order, Behind
<1>2. CASE ctail = d[c] /\ ctail' = d2[c] /\ GoesTo(c, "clearPrev") /\ UNCHANGED d
  <2>1. Only(c) /\ at'[c] = "clearPrev" /\ ctail' = ctail + 1 /\ ctail # 0
    BY <1>0, <1>1, <1>2 DEF GoesTo, Types, Only
  <2>2. Spares(c)
    BY <1>0, <2>1 DEF Spares, Size
  <2>3. \A e \in 1..chead : Values(e)' = Values(e)
    BY <1>0, <2>2, ValuesKept
  <2>4. Values(ctail) = <<>>
    BY <1>1, <1>2, NoValue
  <2>5. Deque' = Deque
    BY <1>0, <2>1, <2>3, <2>4, DequeMove
  <2>6. Result(c)' = Result(c)
    BY <1>0, <2>1, ResultIs, ResultNext DEF Searching
  <2>7. AbsResult' = AbsResult
    BY <2>2, <2>6, ResultStep
  <2>8. Behind(c)'
    BY <1>0, <1>1, <1>2, <2>1 DEF Behind
  <2>9. CutOff' /\ ctail' >= ctail
    BY <1>0, <2>1 DEF Order, CutOff
  <2>10. \A e \in Elt : Count(e)' = Count(e)
    BY <1>0 DEF Count
  <2>11. Order'
    BY <2>1, <2>2, <2>8, <2>9, <2>10, OrderKeeps
  <2> QED BY <2>5, <2>7, <2>11 DEF Same
<1>3. CASE ctail # d[c] /\ d' = Set(d, c, d2[c]) /\ GoesTo(c, "next") /\ UNCHANGED ctail
  <2>1. Only(c) /\ at'[c] = "next" /\ d'[c] = d2[c]
    BY <1>0, <1>3 DEF GoesTo, Types, Only, Set
  <2>2. Behind(c)'
    BY <1>1, <1>3, <2>1 DEF Behind
  <2> QED BY <1>0, <1>3, <2>1, <2>2, SearchSim DEF Searching
<1> QED BY <1>2, <1>3 DEF Drained

\* A ring is cut off.
LEMMA ClearPrevSim ==
    ASSUME PoolIInv, PoolIInv', Order, NEW c \in Consumer, ClearPrev(c)
    PROVE  Order' /\ Same
<1> USE Basics
<1>0. /\ at[c] = "clearPrev" /\ at'[c] = "next" /\ d'[c] = d2[c] /\ Only(c)
      /\ UNCHANGED <<chead, ctail, headTail, typ, val, v>> /\ prev' = Set(prev, d2[c], 0)
  BY DEF ClearPrev, GoesTo, Types, Set, Only, ring
<1>1. d2[c] <= ctail
  BY <1>0 DEF Order, Behind
<1>2. Spares(c)
  BY <1>0 DEF Spares, Size
<1>3. \A e \in 1..chead : Values(e)' = Values(e)
  BY <1>0, <1>2, ValuesKept
<1>4. Deque' = Deque
  BY <1>0, <1>3, DequeSame
<1>5. Result(c)' = Result(c)
  BY <1>0, ResultIs, ResultNext DEF Searching
<1>6. AbsResult' = AbsResult
  BY <1>2, <1>5, ResultStep
<1>7. Behind(c)'
  BY <1>0, <1>1 DEF Behind
<1>8. CutOff'
  <2>1. ASSUME NEW e \in 1..chead, prev'[e] = 0
        PROVE  e <= ctail
    <3>1. e \in Elt
      BY RingOf
    <3>2. prev'[e] = prev[e] \/ e = d2[c]
      BY <1>0, <3>1 DEF Set, Types
    <3> QED BY <1>1, <2>1, <3>2 DEF Order, CutOff
  <2> QED BY <1>0, <2>1 DEF CutOff
<1>9. \A e \in Elt : Count(e)' = Count(e)
  BY <1>0 DEF Count
<1>10. Order'
  <2>1. ctail' >= ctail
    BY <1>0
  <2> QED BY <1>0, <1>2, <1>7, <1>8, <1>9, <2>1, OrderKeeps
<1> QED BY <1>4, <1>6, <1>10 DEF Same

-----------------------------------------------------------------------------
(* Steps that move an index *)

\* The values of a ring, before and after a step.
LEMMA ValuesAre ==
    ASSUME NEW e
    PROVE  /\ Values(e) = RingValues(val[e], Size(e), headTail[e][2], Count(e))
           /\ Values(e)' = RingValues(val'[e], Size(e)', headTail'[e][2], Count(e)')
<1>1. Values(e) = RingValues(val[e], Size(e), headTail[e][2], Count(e))
  BY DEF Values, RingValues, Slot, SlotAt
<1>2. Values(e)' = RingValues(val'[e], Size(e)', headTail'[e][2], Count(e)')
  BY DEF Values, RingValues, Slot, SlotAt, Unboxed
<1> QED BY <1>1, <1>2

\* They are values also after a step.
LEMMA ValuesNext == PoolIInv' => \A e \in Elt : Values(e)' \in Seq(Item) /\ Count(e)' \in Nat
<1>1. PoolIInv => \A e \in Elt : Values(e) \in Seq(Item) /\ Count(e) \in Nat
  BY ValuesType
<1>2. (PoolIInv => \A e \in Elt : Values(e) \in Seq(Item) /\ Count(e) \in Nat)'
  BY <1>1, PTL
<1> QED BY <1>2

\* Of two states of a ring that differ in the head, by one: the value between.
LEMMA OneMore ==
    ASSUME NEW n, RingSize(n), NEW vals, NEW h \in Index, NEW t \in Index,
           NEW c \in Nat, c = Ahead(h, t),
           RingValues(vals, n, t, c) \in Seq(Item), RingValues(vals, n, t, c + 1) \in Seq(Item)
    PROVE  /\ RingValues(vals, n, t, c + 1)
                = Append(RingValues(vals, n, t, c), Unboxed(vals[SlotAt(n, h)]))
           /\ Unboxed(vals[SlotAt(n, h)]) \in Item
<1>1. t \in Nat
  BY Sizes DEF Index
<1>2. SlotAt(n, h) = SlotAt(n, t + c)
  BY HeadSlot
<1>3. /\ RingValues(vals, n, t, c + 1)
           = Append(RingValues(vals, n, t, c), Unboxed(vals[SlotAt(n, t + c)]))
      /\ Unboxed(vals[SlotAt(n, t + c)]) \in Item
  BY <1>1, RingValuesAppend
<1> QED BY <1>2, <1>3

\* And in the tail.
LEMMA OneLess ==
    ASSUME NEW n, RingSize(n), NEW vals, NEW t \in Index, NEW c \in Nat,
           RingValues(vals, n, t, c + 1) \in Seq(Item), RingValues(vals, n, AddOne(t), c) \in Seq(Item)
    PROVE  /\ RingValues(vals, n, t, c + 1)
                = <<Unboxed(vals[SlotAt(n, t)])>> \o RingValues(vals, n, AddOne(t), c)
           /\ Unboxed(vals[SlotAt(n, t)]) \in Item
<1>0. PICK u \in Index : u = AddOne(t)
  BY NextIndex
<1>1. /\ t \in Nat /\ u \in Nat /\ IndexMod \in Nat /\ n \in Nat \ {0} /\ IndexMod % n = 0
      /\ u = IF t = IndexMod - 1 THEN 0 ELSE t + 1
  <2>1. /\ t \in Nat /\ u \in Nat /\ IndexMod \in Nat /\ n \in Nat \ {0} /\ IndexMod % n = 0
    BY Sizes DEF Index, RingSize
  <2> QED BY <1>0, <2>1, NextIndex
<1>2. ASSUME NEW k \in 1..c
      PROVE  SlotAt(n, u + k - 1) = SlotAt(n, t + k)
  <2>1. CASE t = IndexMod - 1
    <3>1. PICK x \in Nat : x = k - 1 /\ u + k - 1 = x /\ t + k = x + IndexMod
      BY <1>1, <2>1
    <3>2. (x + IndexMod) % n = x % n
      BY <1>1, ModWrap
    <3> QED BY <3>1, <3>2 DEF SlotAt
  <2>2. CASE t # IndexMod - 1
    <3>1. u + k - 1 = t + k
      BY <1>1, <2>2
    <3> QED BY <3>1
  <2> QED BY <2>1, <2>2
<1>3. /\ RingValues(vals, n, t, c + 1)
           = <<Unboxed(vals[SlotAt(n, t)])>> \o RingValues(vals, n, u, c)
      /\ Unboxed(vals[SlotAt(n, t)]) \in Item
  BY <1>0, <1>1, <1>2, RingValuesTail
<1> QED BY <1>0, <1>3

\* The rings after a step of p that writes no slot.
LEMMA IndexSpares ==
    ASSUME PoolIInv, NEW p \in Process, Only(p), typ' = typ, val' = val
    PROVE  Spares(p)
  BY DEF Spares, Size

\* pushHead publishes its slot.
LEMMA PushAddSim ==
    ASSUME PoolIInv, PoolIInv', Order, PushAdd
    PROVE  Order' /\ Pushed(v[Producer])
<1> USE Basics
<1>0. /\ at[Producer] = "pushAdd" /\ at'[Producer] = "idle" /\ Only(Producer)
      /\ headTail' = [headTail EXCEPT ![d[Producer]][1] = AddOne(@)]
      /\ UNCHANGED <<chead, ctail, prev, typ, val>>
  BY DEF PushAdd, GoesTo, Types, Set, Only, chain
<1>1. PICK e \in 1..chead : e = chead /\ e = d[Producer] /\ Count(e) < Size(e)
  BY <1>0 DEF ProducerKnows
<1>2. PICK h \in Index, t \in Index : headTail[e] = <<h, t>> /\ h = headTail[e][1] /\ t = headTail[e][2]
  BY RingOf
<1>3. PICK h1 \in Index : h1 = AddOne(h)
  BY NextIndex
<1>4. Redone(e, h1, t)
  <2>1. headTail' = [headTail EXCEPT ![e] = [headTail[e] EXCEPT ![1] = h1]]
    BY <1>0, <1>1, <1>2, <1>3
  <2>2. headTail[e] \in Index \X Index
    BY <1>2
  <2>3. [headTail[e] EXCEPT ![1] = h1] = <<h1, t>>
    BY <1>2, <2>2, PairExcept
  <2> QED BY <2>1, <2>3 DEF Redone
<1>5. /\ headTail'[e][2] = t /\ \A f \in Elt \ {e} : headTail'[f] = headTail[f]
      /\ Count(e)' = Ahead(h1, t)
  BY <1>4, WriteHeadTail
<1>6. PICK n : n = Size(e) /\ n = Size(e)' /\ RingSize(n) /\ e \in Elt
  BY <1>0, RingOf DEF Size
<1>7. PICK c \in Nat : c = Count(e) /\ c = Ahead(h, t) /\ c + 1 = Count(e)'
  <2>1. Count(e) = Ahead(h, t) /\ Count(e) \in Nat
    BY <1>2, RangeOf, RingOf
  <2>2. Ahead(h1, t) = Ahead(h, t) + 1
    BY <1>1, <1>3, <1>6, <2>1, RingPush
  <2> QED BY <1>5, <2>1, <2>2
<1>8. Values(e) = RingValues(val[e], n, t, c) /\ Values(e)' = RingValues(val[e], n, t, c + 1)
  BY <1>0, <1>2, <1>5, <1>6, <1>7, ValuesAre
<1>9. Values(e) \in Seq(Item) /\ Values(e)' \in Seq(Item)
  BY <1>6, ValuesType, ValuesNext
<1>10. PICK x \in Item : Values(e)' = Append(Values(e), x) /\ x = v[Producer]
  <2>1. /\ RingSize(n)
        /\ RingValues(val[e], n, t, c) \in Seq(Item)
        /\ RingValues(val[e], n, t, c + 1) \in Seq(Item)
    BY <1>6, <1>8, <1>9
  <2>2. /\ RingValues(val[e], n, t, c + 1)
             = Append(RingValues(val[e], n, t, c), Unboxed(val[e][SlotAt(n, h)]))
        /\ Unboxed(val[e][SlotAt(n, h)]) \in Item
    BY <1>7, <2>1, OneMore
  <2>3. head(Producer) = h /\ v[Producer] \in Item
    BY <1>0, <1>1, <1>2 DEF ProducerKnows
  <2>4. val[e][SlotAt(n, h)] = Boxed(v[Producer])
    <3>1. val[e][Slot(e, head(Producer))] = Boxed(v[Producer])
      BY <1>0, <1>1, <1>6 DEF Order, Passed
    <3> QED BY <1>6, <2>3, <3>1 DEF Slot, SlotAt
  <2>5. Unboxed(Boxed(v[Producer])) = v[Producer]
    BY <2>3, PoolAssumption DEF Unboxed, Boxed
  <2> QED BY <1>8, <2>2, <2>4, <2>5
<1>11. Spares(Producer)
  BY <1>0, IndexSpares
<1>12. \A f \in 1..chead : f # e => Values(f)' = Values(f)
  BY <1>5, <1>11, ValuesKept, RingOf
<1>13. Deque' = Append(Deque, x)
  <2>1. e >= ctail /\ \A f \in 1..chead : f > e => Values(f) = <<>>
    BY <1>1 DEF Links
  <2> QED BY <1>0, <1>10, <1>12, <2>1, DequePush
<1>14. AbsResult' = AbsResult
  BY <1>0, <1>11, ResultStep, ResultIs, ResultNext DEF Searching
<1>15. Order'
  <2>1. Passed' /\ CutOff' /\ ctail' >= ctail
    BY <1>0 DEF Passed, CutOff, Order
  <2> QED BY <1>0, <2>1, OrderKeeps
<1> QED BY <1>10, <1>13, <1>14, <1>15 DEF Pushed

\* popHead takes the last value.
LEMMA PopHeadCASSim ==
    ASSUME PoolIInv, PoolIInv', Order, PopHeadCAS
    PROVE  /\ Order'
           /\ \/ at'[Producer] = "popHead" /\ Same
              \/ at'[Producer] = "popHeadRead" /\ TakenBy(Producer) /\ Shrunk(d[Producer]) /\ d[Producer] >= ctail
<1> USE Basics
<1> DEFINE a == (head(Producer) + IndexMod - 1) % IndexMod
<1>0. /\ at[Producer] = "popHeadCAS" /\ Only(Producer) /\ d'[Producer] = d[Producer]
      /\ \/ /\ Confirmed(d[Producer], ptrs[Producer])
            /\ headTail' = Set(headTail, d[Producer], <<a, tail(Producer)>>)
            /\ ptrs'[Producer] = <<a, 0>> /\ at'[Producer] = "popHeadRead"
         \/ at'[Producer] = "popHead" /\ UNCHANGED headTail
      /\ UNCHANGED <<chead, ctail, prev, typ, val>>
  BY DEF PopHeadCAS, chain, GoesTo, Types, Set, Only
<1>1. PICK e \in 1..chead : e = d[Producer] /\ head(Producer) # tail(Producer) /\ e \in Elt
  BY <1>0, RingOf DEF ProducerKnows
<1>2. CASE /\ Confirmed(d[Producer], ptrs[Producer])
           /\ headTail' = Set(headTail, d[Producer], <<a, tail(Producer)>>)
           /\ ptrs'[Producer] = <<a, 0>> /\ at'[Producer] = "popHeadRead"
  <2>1. PICK h \in Index, t \in Index : /\ h = headTail[e][1] /\ t = headTail[e][2]
                                        /\ h = head(Producer) /\ t = tail(Producer)
    BY <1>1, <1>2, RingOf DEF Confirmed, head, tail
  <2>2. PICK h1 \in Index : h1 = (h + IndexMod - 1) % IndexMod
    BY NextIndex
  <2>3. Redone(e, h1, t) /\ ptrs'[Producer] = <<h1, 0>>
    BY <1>1, <1>2, <2>1, <2>2 DEF Set, Redone
  <2>4. /\ headTail'[e][2] = t /\ \A f \in Elt \ {e} : headTail'[f] = headTail[f]
        /\ Count(e)' = Ahead(h1, t)
    BY <2>3, WriteHeadTail
  <2>5. PICK n : n = Size(e) /\ n = Size(e)' /\ RingSize(n) /\ Count(e) <= n
    BY <1>0, RingOf DEF Size
  <2>6. PICK c \in Nat : c = Count(e)' /\ c = Ahead(h1, t) /\ c + 1 = Count(e)
    <3>1. Count(e) = Ahead(h, t) /\ h # t
      BY <1>1, <2>1, RangeOf
    <3>2. Ahead(h1, t) = Ahead(h, t) - 1
      BY <2>2, <2>5, <3>1, RingPopHead
    <3>3. Count(e)' \in Nat /\ Count(e) \in Nat
      BY <1>1, ValuesNext, RingOf
    <3> QED BY <2>4, <3>1, <3>2, <3>3
  <2>7. Values(e) = RingValues(val[e], n, t, c + 1) /\ Values(e)' = RingValues(val[e], n, t, c)
    BY <1>0, <2>1, <2>4, <2>5, <2>6, ValuesAre
  <2>8. Values(e) \in Seq(Item) /\ Values(e)' \in Seq(Item)
    BY <1>1, ValuesType, ValuesNext
  <2>9. PICK x \in Item : x = Unboxed(val[e][SlotAt(n, h1)]) /\ Values(e) = Append(Values(e)', x)
    <3>1. /\ RingSize(n)
          /\ RingValues(val[e], n, t, c) \in Seq(Item)
          /\ RingValues(val[e], n, t, c + 1) \in Seq(Item)
      BY <2>5, <2>7, <2>8
    <3>2. /\ RingValues(val[e], n, t, c + 1)
               = Append(RingValues(val[e], n, t, c), Unboxed(val[e][SlotAt(n, h1)]))
          /\ Unboxed(val[e][SlotAt(n, h1)]) \in Item
      BY <2>6, <3>1, OneMore
    <3> QED BY <2>7, <3>2
  <2>10. Spares(Producer)
    BY <1>0, IndexSpares
  <2>11. \A f \in 1..chead : f # e => Values(f)' = Values(f)
    BY <2>4, <2>10, ValuesKept, RingOf
  <2>12. e >= ctail /\ \A f \in 1..chead : f > e => Values(f) = <<>>
    <3>1. e >= ctail
      BY <1>1, <2>6 DEF Links
    <3>2. \A f \in 1..chead : f > e => Count(f) = 0
      BY <1>0, <1>1, RingOf DEF Order, Passed
    <3> QED BY <3>1, <3>2, NoValue
  <2>13. Deque = Append(Deque', x) /\ Deque' \in Seq(Item)
    BY <1>0, <2>9, <2>11, <2>12, DequePopHead
  <2>14. Result(Producer) = <<>> /\ Result(Producer)' = <<x>>
    <3>1. Slot(d[Producer], head(Producer))' = SlotAt(n, h1) /\ d'[Producer] = e
      BY <1>0, <1>1, <2>3, <2>5 DEF Slot, SlotAt, head, Size
    <3>2. Result(Producer)' = <<Unboxed(val'[e][SlotAt(n, h1)])>>
      BY <1>2, <3>1, ResultNext
    <3> QED BY <1>0, <2>9, <3>2, ResultIs DEF Searching
  <2>15. Learns(Producer, <<x>>)
    BY <2>10, <2>14, ResultStep DEF Learns
  <2>16. Order'
    <3>1. Passed' /\ CutOff' /\ ctail' >= ctail
      BY <1>0, <1>2 DEF Passed, CutOff, Order
    <3> QED BY <1>0, <3>1, OrderKeeps
  <2>17. Shrunk(d[Producer]) /\ d[Producer] >= ctail
    <3>1. Shrunk(e)
      BY <2>4, <2>6 DEF Shrunk, Count
    <3> QED BY <1>1, <2>12, <3>1
  <2>18. TakenBy(Producer)
    BY <2>13, <2>15 DEF TakenBy
  <2> QED BY <1>2, <2>16, <2>17, <2>18
<1>3. CASE at'[Producer] = "popHead" /\ UNCHANGED headTail
  <2>1. \A f \in Elt : Count(f)' = Count(f)
    BY <1>3 DEF Count
  <2>2. Passed'
    BY <1>0, <1>3, <2>1 DEF Passed, Order
  <2> QED BY <1>0, <1>3, <2>2, SearchSim DEF Searching
<1> QED BY <1>0, <1>2, <1>3

\* popTail takes the first value.
LEMMA PopTailCASSim ==
    ASSUME PoolIInv, PoolIInv', Order, NEW c \in Consumer, PopTailCAS(c)
    PROVE  /\ Order'
           /\ \/ at'[c] = "popTail" /\ Same
              \/ at'[c] = "popTailRead" /\ TakenBy(c) /\ Shrunk(ctail)
<1> USE Basics
<1>0. /\ at[c] = "popTailCAS" /\ Only(c) /\ d'[c] = d[c]
      /\ \/ /\ Confirmed(d[c], ptrs[c])
            /\ headTail' = Set(headTail, d[c], <<head(c), AddOne(tail(c))>>)
            /\ ptrs'[c][2] = ptrs[c][2] /\ at'[c] = "popTailRead"
         \/ at'[c] = "popTail" /\ UNCHANGED headTail
      /\ UNCHANGED <<chead, ctail, prev, typ, val>>
  BY DEF PopTailCAS, chain, GoesTo, Types, Set, Only
<1>1. PICK e \in 1..chead : e = d[c] /\ head(c) # tail(c) /\ e \in Elt
  BY <1>0, RingOf DEF ConsumerKnows, PoolIInv
<1>2. CASE /\ Confirmed(d[c], ptrs[c])
           /\ headTail' = Set(headTail, d[c], <<head(c), AddOne(tail(c))>>)
           /\ ptrs'[c][2] = ptrs[c][2] /\ at'[c] = "popTailRead"
  <2>1. PICK h \in Index, t \in Index : /\ h = headTail[e][1] /\ t = headTail[e][2]
                                        /\ h = head(c) /\ t = tail(c)
    BY <1>1, <1>2, RingOf DEF Confirmed, head, tail
  <2>2. PICK t1 \in Index : t1 = AddOne(t)
    BY NextIndex
  <2>3. Redone(e, h, t1)
    BY <1>1, <1>2, <2>1, <2>2 DEF Set, Redone
  <2>4. /\ headTail'[e][2] = t1 /\ \A f \in Elt \ {e} : headTail'[f] = headTail[f]
        /\ Count(e)' = Ahead(h, t1)
    BY <2>3, WriteHeadTail
  <2>5. PICK n : n = Size(e) /\ n = Size(e)' /\ RingSize(n) /\ Count(e) <= n
    BY <1>0, RingOf DEF Size
  <2>6. PICK k \in Nat : k = Count(e)' /\ k + 1 = Count(e)
    <3>1. Count(e) = Ahead(h, t) /\ h # t
      BY <1>1, <2>1, RangeOf
    <3>2. Ahead(h, t1) = Ahead(h, t) - 1
      BY <2>2, <2>5, <3>1, RingPopTail
    <3>3. Count(e)' \in Nat /\ Count(e) \in Nat
      BY <1>1, ValuesNext, RingOf
    <3> QED BY <2>4, <3>1, <3>2, <3>3
  <2>7. Values(e) = RingValues(val[e], n, t, k + 1) /\ Values(e)' = RingValues(val[e], n, t1, k)
    BY <1>0, <2>1, <2>4, <2>5, <2>6, ValuesAre
  <2>8. Values(e) \in Seq(Item) /\ Values(e)' \in Seq(Item)
    BY <1>1, ValuesType, ValuesNext
  <2>9. PICK x \in Item : x = Unboxed(val[e][SlotAt(n, t)]) /\ Values(e) = <<x>> \o Values(e)'
    <3>1. /\ RingSize(n) /\ RingValues(val[e], n, t, k + 1) \in Seq(Item)
          /\ RingValues(val[e], n, AddOne(t), k) \in Seq(Item)
      BY <2>2, <2>5, <2>7, <2>8
    <3>2. /\ RingValues(val[e], n, t, k + 1)
               = <<Unboxed(val[e][SlotAt(n, t)])>> \o RingValues(val[e], n, AddOne(t), k)
          /\ Unboxed(val[e][SlotAt(n, t)]) \in Item
      BY <3>1, OneLess
    <3> QED BY <2>2, <2>7, <3>2
  <2>10. Spares(c)
    BY <1>0, IndexSpares
  <2>11. \A f \in 1..chead : f # e => Values(f)' = Values(f)
    BY <2>4, <2>10, ValuesKept, RingOf
  <2>12. ctail = e
    <3>1. ~(e < ctail)
      BY <1>1, <2>6 DEF Links
    <3>2. e <= ctail
      BY <1>0, <1>1 DEF Order, Behind
    <3> QED BY <3>1, <3>2
  <2>13. Deque = <<x>> \o Deque' /\ Deque' \in Seq(Item)
    BY <1>0, <2>9, <2>11, <2>12, DequePopTail
  <2>14. Result(c) = <<>> /\ Result(c)' = <<x>>
    <3>1. Slot(d[c], tail(c))' = SlotAt(n, t) /\ d'[c] = e
      BY <1>0, <1>1, <1>2, <2>1, <2>5 DEF Slot, SlotAt, tail, Size
    <3>2. Result(c)' = <<Unboxed(val'[e][SlotAt(n, t)])>>
      BY <1>2, <3>1, ResultNext
    <3> QED BY <1>0, <2>9, <3>2, ResultIs DEF Searching
  <2>15. Learns(c, <<x>>)
    BY <2>10, <2>14, ResultStep DEF Learns
  <2>16. Order'
    <3>1. Behind(c)' /\ CutOff' /\ ctail' >= ctail
      BY <1>0, <1>2 DEF Behind, CutOff, Order
    <3>2. \A f \in Elt : Count(f) = 0 => Count(f)' = 0
      BY <2>4, <2>6 DEF Count
    <3> QED BY <1>0, <2>10, <3>1, <3>2, OrderKeeps
  <2>17. Shrunk(ctail)
    <3>1. Shrunk(e)
      BY <2>4, <2>6 DEF Shrunk, Count
    <3> QED BY <2>12, <3>1
  <2>18. TakenBy(c)
    <3>1. c # Producer
      BY PoolAssumption
    <3> QED BY <2>13, <2>15, <3>1 DEF TakenBy
  <2> QED BY <1>2, <2>16, <2>17, <2>18
<1>3. CASE at'[c] = "popTail" /\ UNCHANGED headTail
  <2>1. Behind(c)'
    BY <1>0, <1>3 DEF Behind, Order
  <2> QED BY <1>0, <1>3, <2>1, SearchSim DEF Searching
<1> QED BY <1>0, <1>2, <1>3

-----------------------------------------------------------------------------
(* Allocation, and the refinement *)

\* A new ring is empty and nobody's.
LEMMA AllocateSim ==
    ASSUME PoolIInv, PoolIInv', Order, NEW e \in Elt, e = chead + 1, chead' = e, First' = First,
           Only(Producer), Searching(at[Producer]), at'[Producer] = "push", headTail' = headTail,
           \A f \in Elt \ {e} : typ'[f] = typ[f] /\ val'[f] = val[f],
           ctail' >= ctail, CutOff'
    PROVE  Order' /\ Same
<1> USE Basics
<1>1. Spares(Producer)
  <2>1. ASSUME NEW f \in 1..chead
        PROVE  typ'[f] = typ[f] /\ val'[f] = val[f]
    <3>1. f \in Elt \ {e}
      BY RingOf
    <3> QED BY <3>1
  <2> QED BY <2>1 DEF Spares, Size
<1>2. \A f \in 1..chead : Values(f)' = Values(f)
  BY <1>1, ValuesKept
<1>3. Values(e)' = <<>>
  <2>1. Count(e)' = 0
    BY NoRing DEF Count
  <2>2. Values(e)' = [k \in 1..Count(e)' |-> Unboxed(val'[e][Slot(e, headTail[e][2] + k - 1)'])]
    BY DEF Values, Unboxed
  <2> QED BY <2>1, <2>2
<1>4. Deque' = Deque
  BY <1>2, <1>3, DequeGrow
<1>5. Searching(at'[Producer])
  BY DEF Searching
<1>6. AbsResult' = AbsResult
  BY <1>1, <1>5, ResultStep, ResultIs, ResultNext
<1>7. Order'
  <2>1. Passed'
    BY DEF Passed
  <2> QED BY <2>1, OrderKeeps
<1> QED BY <1>4, <1>6, <1>7 DEF Same

\* The first push makes the first ring.
LEMMA FirstPushSim ==
    ASSUME PoolIInv, PoolIInv', Order, NEW x \in Item, PushHead(x), chead = 0
    PROVE  Order' /\ Same
<1> USE Basics
<1>1. /\ at[Producer] = "idle" /\ at'[Producer] = "push" /\ Only(Producer)
      /\ chead' = 1 /\ ctail' = 1 /\ headTail' = headTail
      /\ \A f \in Elt \ {1} : typ'[f] = typ[f] /\ val'[f] = val[f]
  BY DEF PushHead, GoesTo, Types, Set, Only
<1>2. First' = First /\ ctail' >= ctail /\ CutOff'
  BY <1>1 DEF First, Links, CutOff
<1>3. PICK e \in Elt : e = 1 /\ e = chead + 1
  OBVIOUS
<1> QED BY <1>1, <1>2, <1>3, AllocateSim DEF Searching

\* pushHead makes the next ring.
LEMMA GrowSim ==
    ASSUME PoolIInv, PoolIInv', Order, Grow
    PROVE  Order' /\ Same
<1> USE Basics
<1>1. PICK e \in Elt : e = chead + 1
  BY DEF Grow
<1>2. /\ at[Producer] = "grow" /\ at'[Producer] = "push" /\ Only(Producer)
      /\ chead' = e /\ headTail' = headTail /\ ctail' = ctail
      /\ \A f \in Elt \ {e} : typ'[f] = typ[f] /\ val'[f] = val[f]
      /\ prev' = Set(prev, e, d[Producer])
  BY <1>1 DEF Grow, GoesTo, Types, Set, Only
<1>3. d[Producer] = chead /\ chead > 0
  BY <1>2 DEF ProducerKnows
<1>4. CutOff'
  <2>1. ASSUME NEW f \in 1..e, prev'[f] = 0
        PROVE  f <= ctail
    <3>1. prev'[f] = (IF f = e THEN chead ELSE prev[f])
      <4>1. f \in Elt
        OBVIOUS
      <4> QED BY <1>2, <1>3, <4>1 DEF Set, Types
    <3>2. f # e /\ prev[f] = 0 /\ f \in 1..chead
      BY <1>1, <1>3, <2>1, <3>1
    <3> QED BY <3>2 DEF Order, CutOff
  <2> QED BY <1>2, <2>1 DEF CutOff
<1>5. First' = First /\ ctail' >= ctail
  BY <1>2 DEF First
<1> QED BY <1>1, <1>2, <1>4, <1>5, AllocateSim DEF Searching

\* Initially.
LEMMA OrderInitially == PoolInit => Order
<1> SUFFICES ASSUME PoolInit
             PROVE  Order
  OBVIOUS
<1>1. chead = 0 /\ \A p \in Process : at[p] = "idle"
  BY DEF PoolInit, NilPtr
<1>2. Producer \in Process /\ Consumer \subseteq Process
  BY DEF Process
<1> QED BY <1>1, <1>2 DEF Order, CutOff, Passed, Behind

\* The initial state is an empty deque, and no call has found anything.
LEMMA SimInitially == PoolInit => Abs!Init
<1> SUFFICES ASSUME PoolInit
             PROVE  Abs!Init
  OBVIOUS
<1>1. PoolIInv
  BY PoolInitially
<1>2. chead = 0 /\ \A p \in Process : at[p] = "idle"
  BY DEF PoolInit, NilPtr
<1>3. Deque = <<>>
  BY <1>1, <1>2, DequeEmpty
<1>4. AbsResult = [p \in Process |-> Result(p)]
  BY DEF AbsResult, Result
<1>5. \A p \in Process : Result(p) = <<>>
  BY <1>2, ResultIs DEF Searching
<1>6. AbsResult = [p \in Process |-> <<>>]
  BY <1>4, <1>5
<1>7. AbsArg = <<>> /\ due = [c \in Consumer |-> <<>>]
  <2>1. at[Producer] = "idle"
    BY <1>2 DEF Process
  <2> QED BY <2>1 DEF AbsArg, PoolInit
<1> QED BY <1>3, <1>6, <1>7 DEF Abs!Init, Abs!Process, Process

\* Nothing changes.
LEMMA StutterSim ==
    ASSUME PoolIInv, PoolIInv', Order, UNCHANGED poolVars
    PROVE  Order' /\ Same
<1> USE Basics
<1>1. UNCHANGED <<chead, ctail, prev, headTail, typ, val, at, d, d2, ptrs, v>>
  BY DEF poolVars, chain, ring
<1>2. Only(Producer)
  BY <1>1 DEF Only
<1>3. Passed'
  BY <1>1 DEF Order, Passed, Count, Slot, Size, head, Boxed
<1>4. Order' /\ Deque' = Deque /\ Spares(Producer)
  BY <1>1, <1>2, <1>3, QuietSim
<1>5. Result(Producer)' = Result(Producer)
  BY <1>1 DEF Result, Slot, Size, head, tail
<1>6. AbsResult' = AbsResult
  BY <1>4, <1>5, ResultStep
<1> QED BY <1>4, <1>6 DEF Same

-----------------------------------------------------------------------------
(* What is due to a consumer, and the refinement *)

\* Where a consumer looks for a value.
Seeks == {"next", "popTail", "popTailCAS", "drained", "clearPrev"}

\* At most the whole deque is due to it; once it has found that its ring is the last one
\* at most what this ring holds, and nothing if c.tail has passed it.
DueOf(c) ==
    /\ (due[c] # <<>>) <=> (at[c] \in Seeks)
    /\ due[c] # <<>> =>
          /\ due[c] = <<due[c][1]>> /\ due[c][1] \in Nat /\ due[c][1] <= Len(Deque)
          /\ at[c] \in {"popTail", "popTailCAS"} /\ d2[c] = 0 =>
                /\ d[c] # ctail => due[c][1] = 0
                /\ \A e \in Elt : d[c] = e /\ ctail = e => due[c][1] <= Count(e)
Due == due \in [Consumer -> Seq(Nat)] /\ \A c \in Consumer : DueOf(c)

\* The deque is a sequence of items, also after a step.
DequeTyped == Deque \in Seq(Item) /\ Len(Deque) \in Nat
LEMMA DequeType == PoolIInv => DequeTyped
<1> SUFFICES ASSUME PoolIInv
             PROVE  Deque \in Seq(Item) /\ Len(Deque) \in Nat
  BY DEF DequeTyped
<1>1. PICK C : IsChain(C, Row, chead) /\ Deque = C[First]
  BY Content
<1>2. First \in 1..(chead + 1)
  BY Content
<1>3. Deque \in Seq(Item)
  BY <1>1, <1>2 DEF IsChain
<1> QED BY <1>3

LEMMA DequeTypeNext == PoolIInv' => DequeTyped'
BY DequeType, PTL

\* If the rings after the first are empty, the deque is what the first one holds.
LEMMA DequeFirst ==
    ASSUME PoolIInv, NEW e \in Elt, ctail = e, \A f \in 1..chead : f > e => Count(f) = 0
    PROVE  Len(Deque) = Count(e) /\ Count(e) \in Nat
<1>1. PICK C : IsChain(C, Row, chead) /\ Deque = C[First]
  BY Content
<1>2. /\ chead \in Nat /\ e \in 1..chead /\ First = e
  <2>1. ChainBounds /\ Elt = 1..MaxElt /\ MaxElt \in Nat
    BY Bounded, Basics
  <2> QED BY <2>1 DEF ChainBounds, First
<1>3. C[e] = Row[e] \o C[e + 1] /\ Row[e] = Values(e)
  BY <1>1, <1>2 DEF IsChain, Row
<1>4. \A f \in (e + 1)..chead : Row[f] = <<>>
  BY <1>2, NoValue DEF Row
<1>5. \A f \in (e + 1)..(chead + 1) : C[f] = <<>>
  <2>1. e + 1 \in 1..(chead + 1)
    BY <1>2
  <2> QED BY <1>1, <1>4, <2>1, ChainEmpty
<1>6. C[e + 1] = <<>>
  BY <1>2, <1>5
<1>7. Values(e) \in Seq(Item) /\ Len(Values(e)) = Count(e) /\ Count(e) \in Nat
  BY <1>2, ValuesType, RingOf
<1>8. Deque = Values(e)
  BY <1>1, <1>2, <1>3, <1>6, <1>7
<1> QED BY <1>7, <1>8

\* A step that changes nothing of what is due keeps this if it does for its process.
LEMMA DueKeeps ==
    ASSUME PoolIInv, PoolIInv', Due, NEW p \in Process, Only(p), due' = due,
           Len(Deque) <= Len(Deque)',
           \A e \in Elt : e = ctail => Count(e) = 0 \/ (ctail' = e /\ Count(e)' >= Count(e)),
           p \in Consumer => DueOf(p)'
    PROVE  Due'
<1> USE Basics
<1>1. ASSUME NEW c \in Consumer, c # p
      PROVE  DueOf(c)'
  <2>1. at'[c] = at[c] /\ d'[c] = d[c] /\ d2'[c] = d2[c] /\ due'[c] = due[c] /\ DueOf(c)
    BY <1>1 DEF Only, Due
  <2>2. Len(Deque) \in Nat /\ Len(Deque)' \in Nat
    BY DequeType, DequeTypeNext DEF DequeTyped
  <2>3. ASSUME at[c] \in {"popTail", "popTailCAS"}, d2[c] = 0
        PROVE  /\ d[c] # ctail' => due[c][1] = 0
               /\ \A e \in Elt : d[c] = e /\ ctail' = e => due[c][1] <= Count(e)'
    <3>0. /\ due[c] # <<>> /\ due[c][1] \in Nat
          /\ d[c] # ctail => due[c][1] = 0
          /\ \A e \in Elt : d[c] = e /\ ctail = e => due[c][1] <= Count(e)
      BY <2>1, <2>3 DEF DueOf, Seeks
    <3>1. \A e \in Elt : Count(e) \in Nat /\ Count(e)' \in Nat
      BY ValuesType, ValuesNext
    <3>2. d[c] \in Elt
      BY <2>3, RingOf DEF ConsumerKnows, PoolIInv
    <3>3. CASE d[c] # ctail
      BY <3>0, <3>1, <3>3
    <3>4. CASE d[c] = ctail
      <4>1. PICK e \in Elt : e = d[c] /\ e = ctail
        BY <3>2, <3>4
      <4>2. due[c][1] <= Count(e)
        BY <3>0, <4>1
      <4>3. Count(e) = 0 \/ (ctail' = e /\ Count(e)' >= Count(e))
        BY <4>1
      <4> QED BY <3>0, <3>1, <4>1, <4>2, <4>3
    <3> QED BY <3>3, <3>4
  <2> QED BY <2>1, <2>2, <2>3 DEF DueOf
<1>2. \A c \in Consumer : DueOf(c)'
  BY <1>1
<1> QED BY <1>2 DEF Due

\* What WorkDeque makes of a step.
Sim == [Abs!Next]_(Abs!vars)

\* A step of p that it does not see.
LEMMA SameStep ==
    ASSUME PoolIInv, PoolIInv', Due, NEW p \in Process, Only(p), due' = due, AbsArg' = AbsArg, Same,
           \A e \in Elt : e = ctail => Count(e) = 0 \/ (ctail' = e /\ Count(e)' >= Count(e)),
           p \in Consumer => DueOf(p)'
    PROVE  Due' /\ Sim
<1>1. Len(Deque) \in Nat /\ Len(Deque)' = Len(Deque)
  BY DequeType DEF DequeTyped, Same
<1>2. Len(Deque) <= Len(Deque)'
  BY <1>1
<1>3. Due'
  BY <1>2, DueKeeps
<1>4. UNCHANGED Abs!vars
  BY DEF Same, Abs!vars
<1> QED BY <1>3, <1>4 DEF Sim

\* What a ring holds if the indices stay.
LEMMA CountsKept ==
    ASSUME headTail' = headTail
    PROVE  \A e \in Elt : Count(e)' = Count(e)
  BY DEF Count

\* The same if only the locals of p change.
LEMMA LocalDue ==
    ASSUME PoolIInv, PoolIInv', Due, NEW p \in Process, Only(p), due' = due, AbsArg' = AbsArg, Same,
           UNCHANGED <<headTail, ctail>>, p \in Consumer => DueOf(p)'
    PROVE  Due' /\ Sim
<1>1. \A e \in Elt : Count(e) \in Nat /\ Count(e)' = Count(e)
  BY CountsKept, ValuesType
<1>2. \A e \in Elt : e = ctail => Count(e) = 0 \/ (ctail' = e /\ Count(e)' >= Count(e))
  BY <1>1
<1> QED BY <1>2, SameStep

\* What most steps of the producer leave alone.
LEMMA ProducerFrame ==
    ASSUME PoolIInv,
           \/ PushLoad \/ PushTyp \/ PushWrite \/ Grow
           \/ PopHead \/ PopHeadLoad \/ PopHeadRead \/ BackUp
    PROVE  /\ Only(Producer) /\ due' = due /\ AbsArg' = AbsArg /\ UNCHANGED <<headTail, ctail>>
<1> USE Basics
<1>1. CASE PushLoad
  BY <1>1 DEF PushLoad, Loaded, GoesTo, Types, Set, Only, chain, ring, AbsArg
<1>2. CASE PushTyp
  BY <1>2 DEF PushTyp, GoesTo, Types, Set, Only, chain, ring, AbsArg
<1>3. CASE PushWrite
  BY <1>3 DEF PushWrite, GoesTo, Types, Set, Only, chain, ring, AbsArg
<1>4. CASE Grow
  BY <1>4 DEF Grow, GoesTo, Types, Set, Only, chain, ring, AbsArg
<1>5. CASE PopHead
  BY <1>5 DEF PopHead, GoesTo, Types, Set, Only, chain, ring, AbsArg
<1>6. CASE PopHeadLoad
  BY <1>6 DEF PopHeadLoad, Loaded, GoesTo, Types, Set, Only, chain, ring, AbsArg
<1>7. CASE PopHeadRead
  BY <1>7 DEF PopHeadRead, GoesTo, Types, Set, Only, chain, ring, AbsArg
<1>8. CASE BackUp
  BY <1>8 DEF BackUp, GoesTo, Types, Set, Only, chain, ring, AbsArg
<1> QED BY <1>1, <1>2, <1>3, <1>4, <1>5, <1>6, <1>7, <1>8

\* What is being pushed, and the rest, while a consumer takes a step.
LEMMA ConsumerFrame ==
    ASSUME NEW c \in Consumer, PoolIInv, Only(c)
    PROVE  AbsArg' = AbsArg
<1>1. Producer \in Process \ {c}
  BY Basics
<1> QED BY <1>1 DEF Only, AbsArg

\* popHead reports that there is nothing.
LEMMA OwnerNone ==
    ASSUME PoolIInv, PoolIInv', Order, Due, PopHead \/ BackUp, Nothing(Producer), Deque = <<>>
    PROVE  Due' /\ Sim
<1>1. /\ Only(Producer) /\ due' = due /\ AbsArg' = AbsArg /\ UNCHANGED <<headTail, ctail>>
  BY ProducerFrame
<1>2. AbsArg = <<>>
  BY DEF PopHead, BackUp, AbsArg
<1>3. Abs!PopHead
  BY <1>1, <1>2 DEF Nothing, Learns, Abs!PopHead, Abs!Found
<1>4. \A e \in Elt : Count(e) \in Nat /\ Count(e)' = Count(e)
  BY <1>1, CountsKept, ValuesType
<1>5. \A e \in Elt : e = ctail => Count(e) = 0 \/ (ctail' = e /\ Count(e)' >= Count(e))
  BY <1>1, <1>4
<1>6. Len(Deque) <= Len(Deque)'
  BY DequeType DEF DequeTyped, Nothing
<1>7. Producer \in Process /\ Producer \notin Consumer
  BY Basics
<1>8. Due'
  BY <1>1, <1>5, <1>6, <1>7, DueKeeps
<1> QED BY <1>3, <1>8 DEF Sim, Abs!Next

\* A call of any process returns.
LEMMA ReturnDue ==
    ASSUME PoolIInv, PoolIInv', Due, NEW p \in Process, PoolReturn(p), Returned(p)
    PROVE  Due' /\ Sim
<1> USE Basics
<1>1. /\ at[p] \in {"done", "none"} /\ at'[p] = "idle" /\ Only(p)
      /\ UNCHANGED <<headTail, ctail, due>>
  BY DEF PoolReturn, GoesTo, Types, Set, Only, chain, ring
<1>2. AbsArg' = AbsArg
  <2>1. CASE p = Producer
    BY <1>1, <2>1 DEF AbsArg
  <2>2. CASE p \in Consumer
    BY <1>1, <2>2, ConsumerFrame
  <2> QED BY <2>1, <2>2
<1>3. Abs!Return(p)
  BY <1>1, <1>2 DEF Returned, Abs!Return
<1>4. \A e \in Elt : Count(e) \in Nat /\ Count(e)' = Count(e)
  BY <1>1, CountsKept, ValuesType
<1>5. \A e \in Elt : e = ctail => Count(e) = 0 \/ (ctail' = e /\ Count(e)' >= Count(e))
  BY <1>1, <1>4
<1>6. Len(Deque) <= Len(Deque)'
  BY DequeType DEF DequeTyped, Returned
<1>7. p \in Consumer => DueOf(p)'
  BY <1>1 DEF Due, DueOf, Seeks
<1>8. Due'
  BY <1>1, <1>5, <1>6, <1>7, DueKeeps
<1> QED BY <1>3, <1>8 DEF Sim, Abs!Next, Abs!Process

\* pushHead is called.
LEMMA PushHeadDue ==
    ASSUME PoolIInv, PoolIInv', Order, Due, NEW x \in Item, PushHead(x)
    PROVE  Due' /\ Sim
<1> USE Basics
<1>1. /\ at[Producer] = "idle" /\ at'[Producer] = "push" /\ v'[Producer] = x /\ Only(Producer)
      /\ UNCHANGED <<headTail, due>> /\ (ctail # 0 => ctail' = ctail)
  BY DEF PushHead, GoesTo, Types, Set, Only, chain, Links
<1>2. Same
  BY PushHeadSim, FirstPushSim
<1>3. AbsArg = <<>> /\ AbsArg' = <<x>>
  BY <1>1 DEF AbsArg
<1>4. AbsResult[Producer] = <<>>
  BY <1>1 DEF AbsResult
<1>5. Abs!PushHead(x)
  BY <1>1, <1>2, <1>3, <1>4 DEF Same, Abs!PushHead
<1>6. \A e \in Elt : Count(e) \in Nat /\ Count(e)' = Count(e)
  BY <1>1, CountsKept, ValuesType
<1>7. \A e \in Elt : e = ctail => Count(e) = 0 \/ (ctail' = e /\ Count(e)' >= Count(e))
  BY <1>1, <1>6
<1>8. Len(Deque) <= Len(Deque)'
  BY <1>2, DequeType DEF DequeTyped, Same
<1>9. Due'
  BY <1>1, <1>7, <1>8, DueKeeps
<1> QED BY <1>5, <1>9 DEF Sim, Abs!Next

\* pushHead publishes its argument.
LEMMA PushAddDue ==
    ASSUME PoolIInv, PoolIInv', Order, Due, PushAdd
    PROVE  Due' /\ Sim
<1> USE Basics
<1>1. /\ at[Producer] = "pushAdd" /\ at'[Producer] = "idle" /\ Only(Producer)
      /\ headTail' = [headTail EXCEPT ![d[Producer]][1] = AddOne(@)]
      /\ UNCHANGED <<ctail, due>>
  BY DEF PushAdd, GoesTo, Types, Set, Only, chain
<1>2. Pushed(v[Producer]) /\ v[Producer] \in Item
  BY <1>1, PushAddSim DEF ProducerKnows
<1>3. AbsArg = <<v[Producer]>> /\ AbsArg' = <<>>
  BY <1>1 DEF AbsArg
<1>4. Abs!Push
  BY <1>1, <1>2, <1>3 DEF Pushed, Abs!Push
<1>5. Len(Deque) <= Len(Deque)'
  BY <1>2, DequeType DEF DequeTyped, Pushed
<1>6. ASSUME NEW e \in Elt
      PROVE  Count(e)' >= Count(e)
  <2>1. Count(e) \in Nat /\ Count(e)' \in Nat
    BY ValuesType, ValuesNext
  <2>2. CASE e # d[Producer]
    <3>1. headTail'[e] = headTail[e]
      BY <1>1, <2>2 DEF Types
    <3>2. Count(e)' = Count(e)
      BY <3>1 DEF Count
    <3> QED BY <2>1, <3>2
  <2>3. CASE e = d[Producer]
    <3>0. PushAdd /\ e = chead /\ e \in 1..chead /\ Count(e) < Size(e)
      BY <1>1, <2>3 DEF ProducerKnows
    <3>1. PICK h \in Index, t \in Index : headTail[e] = <<h, t>> /\ h = headTail[e][1] /\ t = headTail[e][2]
      BY <3>0, RingOf
    <3>2. PICK h1 \in Index : h1 = AddOne(h)
      BY NextIndex
    <3>3. Redone(e, h1, t)
      <4>1. headTail' = [headTail EXCEPT ![e] = [headTail[e] EXCEPT ![1] = h1]]
        BY <1>1, <2>3, <3>1, <3>2
      <4>2. headTail[e] \in Index \X Index
        BY <3>1
      <4>3. [headTail[e] EXCEPT ![1] = h1] = <<h1, t>>
        BY <3>1, <4>2, PairExcept
      <4> QED BY <4>1, <4>3 DEF Redone
    <3>4. Count(e)' = Ahead(h1, t)
      BY <3>0, <3>3, WriteHeadTail
    <3>5. Count(e) = Ahead(h, t) /\ RingSize(Size(e))
      BY <3>0, <3>1, RangeOf, RingOf
    <3>6. Ahead(h1, t) = Ahead(h, t) + 1
      BY <3>0, <3>2, <3>5, RingPush
    <3> QED BY <2>1, <3>4, <3>5, <3>6
  <2> QED BY <2>2, <2>3
<1>7. \A e \in Elt : e = ctail => Count(e) = 0 \/ (ctail' = e /\ Count(e)' >= Count(e))
  BY <1>1, <1>6
<1>8. Due'
  BY <1>1, <1>5, <1>7, DueKeeps
<1> QED BY <1>4, <1>8 DEF Sim, Abs!Next

\* The swap of popHead.
LEMMA PopHeadCASDue ==
    ASSUME PoolIInv, PoolIInv', Order, Due, PopHeadCAS
    PROVE  Due' /\ Sim
<1> USE Basics
<1>1. /\ at[Producer] = "popHeadCAS" /\ Only(Producer) /\ UNCHANGED <<ctail, d>>
      /\ at'[Producer] \in {"popHead", "popHeadRead"}
      /\ at'[Producer] = "popHeadRead" => due' = DueButLast
      /\ at'[Producer] = "popHead" => UNCHANGED <<headTail, due>>
  BY DEF PopHeadCAS, GoesTo, Types, Set, Only, chain
<1>2. AbsArg = <<>> /\ AbsArg' = <<>>
  BY <1>1 DEF AbsArg
<1>3. CASE at'[Producer] = "popHead" /\ Same
  BY <1>1, <1>2, <1>3, LocalDue
<1>4. CASE at'[Producer] = "popHeadRead" /\ TakenBy(Producer) /\ Shrunk(d[Producer]) /\ d[Producer] >= ctail
  <2>1. PICK x \in Item : Deque' \in Seq(Item) /\ Learns(Producer, <<x>>) /\ Deque = Append(Deque', x)
    BY <1>4 DEF TakenBy
  <2>2. /\ Deque # <<>> /\ Deque[Len(Deque)] = x /\ SubSeq(Deque, 1, Len(Deque) - 1) = Deque'
    BY <2>1, TakenApart
  <2>3. Len(Deque) \in Nat /\ Len(Deque)' \in Nat /\ Len(Deque) = Len(Deque)' + 1
    BY <2>1
  <2>4. Abs!PopHead
    BY <1>1, <1>2, <1>4, <2>1, <2>2 DEF Learns, Abs!PopHead, Abs!Found, DueButLast
  <2>5. ASSUME NEW c \in Consumer
        PROVE  DueOf(c)' /\ due'[c] \in Seq(Nat)
    <3>1. at'[c] = at[c] /\ d'[c] = d[c] /\ d2'[c] = d2[c] /\ DueOf(c) /\ due[c] \in Seq(Nat)
      BY <1>1 DEF Only, Due
    <3>2. due'[c] = IF due[c] = <<Len(Deque)>> THEN <<Len(Deque) - 1>> ELSE due[c]
      BY <1>1, <1>4 DEF DueButLast
    <3>3. CASE due[c] = <<>>
      BY <3>1, <3>2, <3>3 DEF DueOf
    <3>4. CASE due[c] # <<>>
      <4>1. PICK n \in Nat : due[c] = <<n>> /\ n = due[c][1] /\ n <= Len(Deque)
        BY <3>1, <3>4 DEF DueOf
      <4>2. PICK m \in Nat : due'[c] = <<m>> /\ m <= n /\ m <= Len(Deque)'
        BY <2>3, <3>2, <4>1
      <4>3. due'[c] = <<due'[c][1]>> /\ due'[c][1] = m /\ due'[c] # <<>> /\ due'[c] \in Seq(Nat)
        BY <4>2
      <4>4. ASSUME at[c] \in {"popTail", "popTailCAS"}, d2[c] = 0
            PROVE  /\ d[c] # ctail => m = 0
                   /\ \A e \in Elt : d[c] = e /\ ctail = e => m <= Count(e)'
        <5>1. /\ d[c] # ctail => n = 0
              /\ \A e \in Elt : d[c] = e /\ ctail = e => n <= Count(e)
          BY <3>1, <3>4, <4>1, <4>4 DEF DueOf
        <5>2. ASSUME NEW e \in Elt, d[c] = e, ctail = e
              PROVE  m <= Count(e)'
          <6>1. Count(e) \in Nat /\ Count(e)' \in Nat /\ n <= Count(e)
            BY <5>1, <5>2, ValuesType, ValuesNext
          <6>2. CASE d[Producer] # e
            BY <1>4, <4>2, <6>1, <6>2 DEF Shrunk
          <6>3. CASE d[Producer] = e
            <7>1. \A f \in 1..chead : f > e => Count(f) = 0
              BY <1>1, <6>3, RingOf DEF Order, Passed
            <7>2. Len(Deque) = Count(e)
              BY <5>2, <7>1, DequeFirst
            <7>3. Count(e)' + 1 = Count(e)
              <8>1. Count(d[Producer]) = Count(e) /\ Count(d[Producer])' = Count(e)'
                BY <1>1, <6>3 DEF Count
              <8> QED BY <1>4, <8>1 DEF Shrunk
            <7> QED BY <2>3, <4>2, <6>1, <7>2, <7>3
          <6> QED BY <6>2, <6>3
        <5> QED BY <4>2, <5>1, <5>2
      <4> QED BY <1>1, <3>1, <3>4, <4>2, <4>3, <4>4 DEF DueOf
    <3> QED BY <3>3, <3>4
  <2>6. Due'
    <3>1. due' = [c \in Consumer |-> due'[c]]
      BY <1>1, <1>4 DEF DueButLast
    <3> QED BY <2>5, <3>1 DEF Due
  <2> QED BY <2>4, <2>6 DEF Sim, Abs!Next
<1> QED BY <1>3, <1>4, PopHeadCASSim

\* popTail is called.
LEMMA PopTailDue ==
    ASSUME PoolIInv, PoolIInv', Order, Due, NEW c \in Consumer, PopTail(c)
    PROVE  Due' /\ Sim
<1> USE Basics
<1>1. /\ at[c] = "idle" /\ at'[c] = (IF ctail = 0 THEN "none" ELSE "next") /\ Only(c)
      /\ UNCHANGED <<ctail, headTail>>
      /\ due' = IF ctail = 0 THEN due ELSE [due EXCEPT ![c] = <<Len(Deque)>>]
  BY DEF PopTail, GoesTo, Types, Set, Only, chain, ring
<1>2. AbsArg' = AbsArg /\ due[c] = <<>> /\ due \in [Consumer -> Seq(Nat)]
  BY <1>1, ConsumerFrame DEF Due, DueOf, Seeks
<1>3. \A e \in Elt : Count(e) \in Nat /\ Count(e)' = Count(e)
  BY <1>1, CountsKept, ValuesType
<1>4. AbsResult[c] = <<>>
  BY <1>1 DEF AbsResult
<1>5. Len(Deque) \in Nat
  BY DequeType DEF DequeTyped
<1>6. CASE ctail = 0
  <2>1. Nothing(c) /\ Deque = <<>>
    BY <1>6, PopTailSim
  <2>2. Abs!Seek(c)
    BY <1>1, <1>2, <1>6, <2>1 DEF Nothing, Learns, Abs!Seek, Abs!Found
  <2>3. \A e \in Elt : e # ctail
    BY <1>6
  <2>4. Len(Deque) <= Len(Deque)'
    BY <1>5, <2>1 DEF Nothing
  <2>5. DueOf(c)'
    BY <1>1, <1>2, <1>6 DEF DueOf, Seeks
  <2>6. Due'
    BY <1>1, <1>6, <2>3, <2>4, <2>5, DueKeeps
  <2> QED BY <2>2, <2>6 DEF Sim, Abs!Next
<1>7. CASE ctail # 0
  <2>1. Same
    BY <1>7, PopTailSim
  <2>2. Abs!Seek(c)
    BY <1>1, <1>2, <1>4, <1>7, <2>1 DEF Same, Abs!Seek
  <2>3. ASSUME NEW b \in Consumer, b # c
        PROVE  DueOf(b)'
    <3>1. at'[b] = at[b] /\ d'[b] = d[b] /\ d2'[b] = d2[b] /\ due'[b] = due[b] /\ DueOf(b)
      BY <1>1, <1>2, <1>7, <2>3 DEF Only, Due
    <3>2. Len(Deque)' = Len(Deque) /\ ctail' = ctail
      BY <1>1, <2>1 DEF Same
    <3> QED BY <1>3, <3>1, <3>2 DEF DueOf
  <2>4. DueOf(c)'
    <3>1. due'[c] = <<Len(Deque)>> /\ at'[c] = "next" /\ Len(Deque)' = Len(Deque)
      BY <1>1, <1>2, <1>7, <2>1 DEF Same
    <3>2. due'[c] # <<>> /\ due'[c] = <<due'[c][1]>> /\ due'[c][1] = Len(Deque)
      BY <3>1
    <3> QED BY <1>5, <3>1, <3>2 DEF DueOf, Seeks
  <2>5. due' \in [Consumer -> Seq(Nat)]
    BY <1>1, <1>2, <1>5, <1>7
  <2> QED BY <2>2, <2>3, <2>4, <2>5 DEF Due, Sim, Abs!Next
<1> QED BY <1>6, <1>7

\* The load of next: if there is none, c is at the only ring that holds anything.
LEMMA NextLoadDue ==
    ASSUME PoolIInv, PoolIInv', Order, Due, NEW c \in Consumer, NextLoad(c)
    PROVE  Due' /\ Sim
<1> USE Basics
<1>1. /\ at[c] = "next" /\ at'[c] = "popTail" /\ d'[c] = d[c] /\ d2'[c] = next[d[c]] /\ Only(c)
      /\ UNCHANGED <<ctail, headTail, due>>
  BY DEF NextLoad, GoesTo, Types, Set, Only, chain, ring
<1>2. AbsArg' = AbsArg /\ Same
  BY <1>1, ConsumerFrame, NextLoadSim
<1>3. PICK n \in Nat : due[c] = <<n>> /\ n = due[c][1] /\ n <= Len(Deque) /\ due[c] # <<>>
  BY <1>1 DEF Due, DueOf, Seeks
<1>4. Len(Deque)' = Len(Deque)
  BY <1>2 DEF Same
<1>5. \A e \in Elt : Count(e) \in Nat /\ Count(e)' = Count(e)
  BY <1>1, CountsKept, ValuesType
<1>6. ASSUME d2'[c] = 0
      PROVE  d[c] = ctail /\ \A e \in Elt : d[c] = e /\ ctail = e => n <= Count(e)
  <2>1. PICK e \in Elt : e = d[c] /\ e <= ctail /\ e \in 1..chead
    BY <1>1, RingOf DEF ConsumerKnows, PoolIInv, Order, Behind
  <2>2. ChainBounds
    BY Bounded
  <2>3. e = chead /\ ctail = e
    <3>1. next[e] = 0 /\ next[e] = (IF e < chead THEN e + 1 ELSE 0)
      BY <1>1, <1>6, <2>1 DEF Links
    <3>2. chead \in Nat /\ ctail \in 0..chead /\ e \in 1..chead
      BY <2>1, <2>2 DEF ChainBounds
    <3> QED BY <2>1, <3>1, <3>2
  <2>4. Len(Deque) = Count(e)
    BY <2>2, <2>3, DequeFirst DEF ChainBounds
  <2> QED BY <1>3, <2>1, <2>3, <2>4
<1>7. DueOf(c)'
  BY <1>1, <1>3, <1>4, <1>5, <1>6 DEF DueOf, Seeks
<1> QED BY <1>1, <1>2, <1>7, LocalDue

\* popTail finds its ring empty or not.
LEMMA PopTailLoadDue ==
    ASSUME PoolIInv, PoolIInv', Order, Due, NEW c \in Consumer, PopTailLoad(c)
    PROVE  Due' /\ Sim
<1> USE Basics
<1>1. /\ at[c] = "popTail" /\ d'[c] = d[c] /\ d2'[c] = d2[c] /\ Only(c)
      /\ at'[c] = (IF ~IsEmpty(headTail[d[c]]) THEN "popTailCAS"
                   ELSE IF d2[c] = 0 THEN "none" ELSE "drained")
      /\ due' = IF IsEmpty(headTail[d[c]]) /\ d2[c] = 0 THEN [due EXCEPT ![c] = <<>>] ELSE due
      /\ UNCHANGED <<ctail, headTail>>
  BY DEF PopTailLoad, Loaded, GoesTo, Types, Set, Only, chain, ring
<1>2. AbsArg' = AbsArg
  BY <1>1, ConsumerFrame
<1>3. \A e \in Elt : Count(e) \in Nat /\ Count(e)' = Count(e)
  BY <1>1, CountsKept, ValuesType
<1>4. due \in [Consumer -> Seq(Nat)] /\ DueOf(c)
  BY DEF Due
<1>5. PICK n \in Nat :
        /\ due[c] = <<n>> /\ n = due[c][1] /\ n <= Len(Deque) /\ due[c] # <<>>
        /\ d2[c] = 0 => /\ d[c] # ctail => n = 0
                        /\ \A e \in Elt : d[c] = e /\ ctail = e => n <= Count(e)
  BY <1>1, <1>4 DEF DueOf, Seeks
<1>6. PICK e \in Elt : e = d[c] /\ e \in 1..chead
  BY <1>1, RingOf DEF ConsumerKnows, PoolIInv
<1>7. CASE IsEmpty(headTail[d[c]]) /\ d2[c] = 0
  <2>1. at'[c] = "none" /\ due' = [due EXCEPT ![c] = <<>>] /\ Nothing(c)
    BY <1>1, <1>7, PopTailLoadSim
  <2>2. Count(e) = 0
    BY <1>6, <1>7, FullAndEmpty
  <2>3. due[c] = <<0>>
    BY <1>5, <1>6, <1>7, <2>2
  <2>4. Abs!PopTail(c)
    BY <1>2, <1>5, <2>1, <2>3 DEF Nothing, Learns, Abs!PopTail, Abs!Found
  <2>5. ASSUME NEW b \in Consumer, b # c
        PROVE  DueOf(b)'
    <3>1. at'[b] = at[b] /\ d'[b] = d[b] /\ d2'[b] = d2[b] /\ due'[b] = due[b] /\ DueOf(b)
      BY <1>1, <1>4, <2>1, <2>5 DEF Only, Due
    <3>2. Len(Deque)' = Len(Deque) /\ ctail' = ctail
      BY <1>1, <2>1 DEF Nothing
    <3> QED BY <1>3, <3>1, <3>2 DEF DueOf
  <2>6. due'[c] = <<>> /\ due' \in [Consumer -> Seq(Nat)]
    BY <1>4, <2>1
  <2>7. DueOf(c)'
    BY <2>1, <2>6 DEF DueOf, Seeks
  <2> QED BY <2>4, <2>5, <2>6, <2>7 DEF Due, Sim, Abs!Next
<1>8. CASE ~(IsEmpty(headTail[d[c]]) /\ d2[c] = 0)
  <2>1. at'[c] \in {"popTailCAS", "drained"} /\ due' = due /\ Same
    BY <1>1, <1>8, PopTailLoadSim
  <2>2. Len(Deque)' = Len(Deque)
    BY <2>1 DEF Same
  <2>3. DueOf(c)'
    BY <1>1, <1>3, <1>5, <2>1, <2>2 DEF DueOf, Seeks
  <2> QED BY <1>1, <1>2, <2>1, <2>3, LocalDue
<1> QED BY <1>7, <1>8

\* The swap of popTail.
LEMMA PopTailCASDue ==
    ASSUME PoolIInv, PoolIInv', Order, Due, NEW c \in Consumer, PopTailCAS(c)
    PROVE  Due' /\ Sim
<1> USE Basics
<1>1. /\ at[c] = "popTailCAS" /\ Only(c) /\ UNCHANGED ctail /\ d'[c] = d[c]
      /\ at'[c] \in {"popTail", "popTailRead"}
      /\ at'[c] = "popTailRead" => due' = DueButFirst(c)
      /\ at'[c] = "popTail" => UNCHANGED <<headTail, due, d2>>
  BY DEF PopTailCAS, GoesTo, Types, Set, Only, chain
<1>2. AbsArg' = AbsArg
  BY <1>1, ConsumerFrame
<1>3. CASE at'[c] = "popTail" /\ Same
  <2>1. UNCHANGED <<headTail, due, d2>>
    BY <1>1, <1>3
  <2>2. \A e \in Elt : Count(e)' = Count(e)
    BY <2>1, CountsKept
  <2>3. Len(Deque)' = Len(Deque) /\ DueOf(c)
    BY <1>3 DEF Same, Due
  <2>4. DueOf(c)'
    BY <1>1, <1>3, <2>1, <2>2, <2>3 DEF DueOf, Seeks
  <2> QED BY <1>1, <1>2, <1>3, <2>1, <2>4, LocalDue
<1>4. CASE at'[c] = "popTailRead" /\ TakenBy(c) /\ Shrunk(ctail)
  <2>1. PICK x \in Item : Deque' \in Seq(Item) /\ Learns(c, <<x>>) /\ Deque = <<x>> \o Deque'
    BY <1>4 DEF TakenBy
  <2>2. Deque # <<>> /\ Head(Deque) = x /\ Tail(Deque) = Deque'
    BY <2>1, TakenApart
  <2>3. Len(Deque) \in Nat /\ Len(Deque)' \in Nat /\ Len(Deque) = Len(Deque)' + 1
    BY <2>1
  <2>4. due[c] # <<>> /\ due' = DueButFirst(c)
    BY <1>1, <1>4 DEF Due, DueOf, Seeks
  <2>5. Abs!PopTail(c)
    BY <1>2, <2>1, <2>2, <2>4 DEF Learns, Abs!PopTail, Abs!Found, DueButFirst
  <2>6. ASSUME NEW b \in Consumer, b # c
        PROVE  DueOf(b)' /\ due'[b] \in Seq(Nat)
    <3>1. at'[b] = at[b] /\ d'[b] = d[b] /\ d2'[b] = d2[b] /\ DueOf(b) /\ due[b] \in Seq(Nat)
      BY <1>1, <2>6 DEF Only, Due
    <3>2. due'[b] = IF due[b] \in {<<>>, <<0>>} THEN due[b] ELSE <<due[b][1] - 1>>
      BY <2>4, <2>6 DEF DueButFirst
    <3>3. CASE due[b] = <<>>
      BY <3>1, <3>2, <3>3 DEF DueOf
    <3>4. CASE due[b] # <<>>
      <4>1. PICK n \in Nat : due[b] = <<n>> /\ n = due[b][1] /\ n <= Len(Deque)
        BY <3>1, <3>4 DEF DueOf
      <4>2. PICK m \in Nat : due'[b] = <<m>> /\ (IF n = 0 THEN m = 0 ELSE m = n - 1)
        BY <3>2, <4>1
      <4>3. due'[b] = <<due'[b][1]>> /\ due'[b][1] = m /\ due'[b] # <<>> /\ due'[b] \in Seq(Nat)
        BY <4>2
      <4>4. m <= Len(Deque)'
        BY <2>3, <4>1, <4>2
      <4>5. ASSUME at[b] \in {"popTail", "popTailCAS"}, d2[b] = 0
            PROVE  /\ d[b] # ctail => m = 0
                   /\ \A e \in Elt : d[b] = e /\ ctail = e => m <= Count(e)'
        <5>1. /\ d[b] # ctail => n = 0
              /\ \A e \in Elt : d[b] = e /\ ctail = e => n <= Count(e)
          BY <3>1, <3>4, <4>1, <4>5 DEF DueOf
        <5>2. ASSUME NEW e \in Elt, d[b] = e, ctail = e
              PROVE  m <= Count(e)'
          <6>1. Count(e) \in Nat /\ Count(e)' \in Nat /\ n <= Count(e)
            BY <5>1, <5>2, ValuesType, ValuesNext
          <6>2. Count(e)' + 1 = Count(e)
            <7>1. Count(ctail) = Count(e) /\ Count(ctail)' = Count(e)'
              BY <1>1, <5>2 DEF Count
            <7> QED BY <1>4, <7>1 DEF Shrunk
          <6> QED BY <4>2, <6>1, <6>2
        <5> QED BY <4>2, <5>1, <5>2
      <4> QED BY <1>1, <3>1, <3>4, <4>3, <4>4, <4>5 DEF DueOf
    <3> QED BY <3>3, <3>4
  <2>7. due'[c] = <<>> /\ DueOf(c)'
    <3>1. due'[c] = <<>>
      BY <2>4 DEF DueButFirst
    <3> QED BY <1>4, <3>1 DEF DueOf, Seeks
  <2>8. due' \in [Consumer -> Seq(Nat)]
    <3>1. due' = [b \in Consumer |-> due'[b]]
      BY <2>4 DEF DueButFirst
    <3>2. <<>> \in Seq(Nat)
      OBVIOUS
    <3>3. \A b \in Consumer : due'[b] \in Seq(Nat)
      BY <2>6, <2>7, <3>2
    <3> QED BY <3>1, <3>3
  <2> QED BY <2>5, <2>6, <2>7, <2>8 DEF Due, Sim, Abs!Next
<1> QED BY <1>3, <1>4, PopTailCASSim

\* A consumer that has its value, or moves on to the next ring.
LEMMA ConsumerDue ==
    ASSUME PoolIInv, PoolIInv', Order, Due, NEW c \in Consumer,
           PopTailRead(c) \/ ClearVal(c) \/ ClearTyp(c) \/ Drained(c) \/ ClearPrev(c)
    PROVE  Due' /\ Sim
<1> USE Basics
<1>1. Same
  BY PopTailReadSim, ClearValSim, ClearTypSim, DrainedSim, ClearPrevSim
<1>2. Only(c) /\ UNCHANGED <<headTail, due>>
  <2>1. CASE PopTailRead(c)
    BY <2>1 DEF PopTailRead, GoesTo, Types, Set, Only, ring
  <2>2. CASE ClearVal(c)
    BY <2>2 DEF ClearVal, GoesTo, Types, Set, Only
  <2>3. CASE ClearTyp(c)
    BY <2>3 DEF ClearTyp, GoesTo, Types, Set, Only
  <2>4. CASE Drained(c)
    BY <2>4 DEF Drained, GoesTo, Types, Set, Only, ring
  <2>5. CASE ClearPrev(c)
    BY <2>5 DEF ClearPrev, GoesTo, Types, Set, Only, ring
  <2> QED BY <2>1, <2>2, <2>3, <2>4, <2>5
<1>3. /\ at[c] \in Seeks <=> at'[c] \in Seeks
      /\ at'[c] \notin {"popTail", "popTailCAS"}
      /\ at[c] \notin {"popTail", "popTailCAS"}
  BY DEF PopTailRead, ClearVal, ClearTyp, Drained, ClearPrev, GoesTo, Types, Seeks
<1>4. Len(Deque)' = Len(Deque) /\ AbsArg' = AbsArg /\ DueOf(c)
  BY <1>1, <1>2, ConsumerFrame DEF Same, Due
<1>5. DueOf(c)'
  BY <1>2, <1>3, <1>4 DEF DueOf
<1>6. \A e \in Elt : Count(e) \in Nat /\ Count(e)' = Count(e)
  BY <1>2, CountsKept, ValuesType
<1>7. \A e \in Elt : e = ctail => Count(e) = 0 \/ (ctail' = e /\ Count(e)' >= Count(e))
  <2>1. CASE ctail' = ctail
    BY <1>6, <2>1
  <2>2. CASE ctail' # ctail
    <3>1. at[c] = "drained" /\ ctail = d[c]
      BY <2>2 DEF PopTailRead, ClearVal, ClearTyp, Drained, ClearPrev, chain
    <3>2. Count(d[c]) = 0
      BY <3>1 DEF ConsumerKnows, PoolIInv
    <3> QED BY <3>1, <3>2
  <2> QED BY <2>1, <2>2
<1> QED BY <1>1, <1>2, <1>4, <1>5, <1>7, SameStep

\* The other steps of the producer.
LEMMA ProducerDue ==
    ASSUME PoolIInv, PoolIInv', Order, Due,
           \/ PushLoad \/ PushTyp \/ PushWrite \/ Grow
           \/ PopHead \/ PopHeadLoad \/ PopHeadRead \/ BackUp
    PROVE  Order' /\ Due' /\ Sim
<1>1. /\ Only(Producer) /\ due' = due /\ AbsArg' = AbsArg /\ UNCHANGED <<headTail, ctail>>
  BY ProducerFrame
<1>2. Producer \in Process /\ Producer \notin Consumer
  BY Basics
<1>3. Same => Due' /\ Sim
  BY <1>1, <1>2, LocalDue
<1>4. CASE PushLoad \/ PushTyp \/ PushWrite \/ Grow \/ PopHeadLoad \/ PopHeadRead
  BY <1>3, <1>4, PushLoadSim, PushTypSim, PushWriteSim, GrowSim, PopHeadLoadSim, PopHeadReadSim
<1>5. CASE PopHead \/ BackUp
  BY <1>3, <1>5, PopHeadSim, BackUpSim, OwnerNone
<1> QED BY <1>4, <1>5

\* Initially nothing is due.
LEMMA DueInitially == PoolInit => Due
<1> SUFFICES ASSUME PoolInit
             PROVE  Due
  OBVIOUS
<1>1. due = [c \in Consumer |-> <<>>] /\ \A c \in Consumer : at[c] = "idle"
  BY DEF PoolInit, Process
<1> QED BY <1>1 DEF Due, DueOf, Seeks

\* Every step is a step of the deque or none.
LEMMA StepsSim ==
    PoolIInv /\ PoolIInv' /\ Order /\ Due /\ [PoolNext]_poolVars => Order' /\ Due' /\ Sim
<1> SUFFICES ASSUME PoolIInv, PoolIInv', Order, Due, [PoolNext]_poolVars
             PROVE  Order' /\ Due' /\ Sim
  OBVIOUS
<1>1. ASSUME NEW x \in Item, PushHead(x)
      PROVE  Order' /\ Due' /\ Sim
  BY <1>1, PushHeadSim, FirstPushSim, PushHeadDue
<1>2. CASE PopHead
  BY <1>2, ProducerDue
<1>3. CASE ProducerStep
  BY <1>3, ProducerDue, PushAddSim, PushAddDue, PopHeadCASSim, PopHeadCASDue DEF ProducerStep
<1>4. ASSUME NEW c \in Consumer, PopTail(c) \/ ConsumerStep(c)
      PROVE  Order' /\ Due' /\ Sim
  <2>1. Order'
    BY <1>4, PopTailSim, NextLoadSim, PopTailLoadSim, PopTailCASSim, PopTailReadSim,
       ClearValSim, ClearTypSim, DrainedSim, ClearPrevSim DEF ConsumerStep
  <2>2. Due' /\ Sim
    BY <1>4, PopTailDue, NextLoadDue, PopTailLoadDue, PopTailCASDue, ConsumerDue DEF ConsumerStep
  <2> QED BY <2>1, <2>2
<1>5. ASSUME NEW p \in Process, PoolReturn(p)
      PROVE  Order' /\ Due' /\ Sim
  BY <1>5, ReturnSim, ReturnDue
<1>6. CASE UNCHANGED poolVars
  <2>1. Order' /\ Same
    BY <1>6, StutterSim
  <2>2. Only(Producer) /\ UNCHANGED <<headTail, ctail, due>> /\ AbsArg' = AbsArg
    BY <1>6 DEF poolVars, chain, ring, Only, AbsArg
  <2>3. Producer \in Process /\ Producer \notin Consumer
    BY Basics
  <2> QED BY <2>1, <2>2, <2>3, LocalDue
<1> QED BY <1>1, <1>2, <1>3, <1>4, <1>5, <1>6 DEF PoolNext

\* A poolChain is a deque with stealing (sync/poolqueue.go), whatever the interleaving of
\* pushHead, popHead and popTail and however the indices wrap: every pop returns what
\* pushHead was called with, once and in order.  popHead reports that there is nothing
\* only of an empty chain; popTail only when every value that was there as it was called
\* has gone, although it may miss newer ones.
THEOREM PoolIsDeque == PoolSpec => ImplementsDeque
<1>1. PoolSpec => [](PoolIInv /\ Order /\ Due)
  <2>1. PoolInit => PoolIInv /\ Order /\ Due
    BY PoolInitially, OrderInitially, DueInitially
  <2>2. PoolIInv /\ Order /\ Due /\ [PoolNext]_poolVars => (PoolIInv /\ Order /\ Due)'
    BY PoolSteps, StepsSim
  <2> QED BY <2>1, <2>2, PTL DEF PoolSpec
<1>2. PoolIInv /\ PoolIInv' /\ Order /\ Due /\ [PoolNext]_poolVars => [Abs!Next]_(Abs!vars)
  BY StepsSim DEF Sim
<1> QED BY <1>1, <1>2, SimInitially, PTL DEF PoolSpec, Abs!Spec, ImplementsDeque
=============================================================================
