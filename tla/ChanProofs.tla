----------------------------- MODULE ChanProofs -----------------------------
(***************************************************************************)
(* What holds of Chan for every set of goroutines, any channels, capacities *)
(* and programs of well-formed calls: ChanInv, NobodyWaitsInVain,           *)
(* DefaultJustified, LocksSafe, and that Chan implements Channel.           *)
(*                                                                         *)
(* The inductive invariant IInv says more than these: which kind of call    *)
(* can be where (ControlInv); which locks a goroutine holds, and that those *)
(* it has still to take are above them (LockInv); that a wakeup under way   *)
(* is the only one for its goroutine, which is parked, and agrees with      *)
(* selectDone, elem, param and success (WakeInv); that a queue holds sudogs *)
(* of pending cases, each once (SudogInv); that a live waiter on one side   *)
(* leaves nothing to take on the other, also while a select is between its  *)
(* passes with the locks held (WaitInv); and what a call with a default has *)
(* seen at each of its tests (MissInv).                                     *)
(*                                                                         *)
(* The module has four parts: facts about queues and the ring; one lemma    *)
(* per action for the invariant; the theorems that follow from it; and, for *)
(* the refinement, the queue of values that a ring stands for, the steps of *)
(* Channel seen from here, and one lemma per action again.                  *)
(***************************************************************************)
EXTENDS Chan, FiniteSetTheorems, TLAPS, WellFoundedInduction, SequenceTheorems

-----------------------------------------------------------------------------
(* Queues that gain or lose an entry *)

\* The members of a queue.
Members(q) == {q[i] : i \in DOMAIN q}

\* Nobody is in the queue twice.
Distinct(q) == \A i, j \in DOMAIN q : q[i] = q[j] => i = j

\* The members of a queue of S are in S.
LEMMA MembersIn ==
    ASSUME NEW S, NEW q \in Seq(S)
    PROVE  Members(q) \subseteq S
  BY DEF Members

\* A newcomer at the end.
LEMMA AppendAdds ==
    ASSUME NEW S, NEW q \in Seq(S), NEW x \in S, x \notin Members(q), Distinct(q)
    PROVE  /\ Append(q, x) \in Seq(S) /\ Append(q, x) # <<>>
           /\ Members(Append(q, x)) = Members(q) \cup {x}
           /\ Distinct(Append(q, x))
<1> DEFINE r == Append(q, x)
<1>1. /\ r \in Seq(S) /\ r # <<>> /\ Len(q) \in Nat /\ DOMAIN q = 1..Len(q)
      /\ DOMAIN r = 1..(Len(q) + 1) /\ r[Len(q) + 1] = x
      /\ \A i \in 1..Len(q) : r[i] = q[i]
  OBVIOUS
<1>2. \A i \in 1..(Len(q) + 1) : i \in 1..Len(q) \/ i = Len(q) + 1
  BY <1>1
<1>3. \A i \in 1..Len(q) : i \in DOMAIN r
  BY <1>1
<1>4. Len(q) + 1 \in DOMAIN r
  BY <1>1
<1> HIDE DEF r
<1>5. Members(r) = Members(q) \cup {x}
  BY <1>1, <1>2, <1>3, <1>4 DEF Members
<1>6. Distinct(r)
  BY <1>1, <1>2 DEF Distinct, Members
<1> QED BY <1>1, <1>5, <1>6 DEF r

\* A newcomer at the head.
LEMMA PrependAdds ==
    ASSUME NEW S, NEW q \in Seq(S), NEW x \in S, x \notin Members(q), Distinct(q)
    PROVE  /\ <<x>> \o q \in Seq(S) /\ <<x>> \o q # <<>>
           /\ Members(<<x>> \o q) = Members(q) \cup {x}
           /\ Distinct(<<x>> \o q)
<1> DEFINE r == <<x>> \o q
<1>1. /\ r \in Seq(S) /\ r # <<>> /\ Len(q) \in Nat /\ DOMAIN q = 1..Len(q)
      /\ DOMAIN r = 1..(Len(q) + 1) /\ r[1] = x
  OBVIOUS
<1>2. \A i \in 2..(Len(q) + 1) : r[i] = q[i - 1]
  OBVIOUS
<1> HIDE DEF r
<1>3. \A i \in DOMAIN r : i = 1 \/ (i \in 2..(Len(q) + 1) /\ i - 1 \in DOMAIN q)
  BY <1>1
<1>4. \A i \in DOMAIN q : i + 1 \in DOMAIN r /\ i + 1 \in 2..(Len(q) + 1) /\ (i + 1) - 1 = i
  BY <1>1
<1>5. Members(r) = Members(q) \cup {x}
  <2>1. \A y : y \in Members(r) => y \in Members(q) \cup {x}
    BY <1>1, <1>2, <1>3 DEF Members
  <2>2. \A i \in DOMAIN q : r[i + 1] = q[i]
    BY <1>2, <1>4
  <2>3. x \in Members(r)
    BY <1>1 DEF Members
  <2>4. \A y \in Members(q) : y \in Members(r)
    BY <1>4, <2>2 DEF Members
  <2> QED BY <2>1, <2>3, <2>4
<1>6. Distinct(r)
  <2> SUFFICES ASSUME NEW i \in DOMAIN r, NEW j \in DOMAIN r, r[i] = r[j]
               PROVE  i = j
    BY DEF Distinct
  <2>1. \A k \in 2..(Len(q) + 1) : k - 1 \in DOMAIN q => r[k] # x
    BY <1>2 DEF Members
  <2>2. CASE i = 1 \/ j = 1
    BY <1>1, <1>3, <2>1, <2>2
  <2>3. CASE i # 1 /\ j # 1
    <3>1. i - 1 \in DOMAIN q /\ j - 1 \in DOMAIN q /\ q[i - 1] = q[j - 1]
      BY <1>2, <1>3, <2>3
    <3>2. i - 1 = j - 1
      BY <3>1 DEF Distinct
    <3> QED BY <1>1, <3>2
  <2> QED BY <2>2, <2>3
<1> QED BY <1>1, <1>5, <1>6 DEF r

\* The first one leaves.
LEMMA TailRemoves ==
    ASSUME NEW S, NEW q \in Seq(S), q # <<>>, Distinct(q)
    PROVE  /\ Tail(q) \in Seq(S)
           /\ Head(q) \in S /\ Head(q) \in Members(q) /\ Head(q) \notin Members(Tail(q))
           /\ Members(Tail(q)) = Members(q) \ {Head(q)}
           /\ Distinct(Tail(q))
<1> DEFINE r == Tail(q)
<1>1. /\ r \in Seq(S) /\ Len(q) \in Nat /\ Len(q) >= 1 /\ DOMAIN q = 1..Len(q)
      /\ DOMAIN r = 1..(Len(q) - 1) /\ Head(q) = q[1] /\ Head(q) \in S
      /\ \A i \in 1..(Len(q) - 1) : r[i] = q[i + 1]
  OBVIOUS
<1> HIDE DEF r
<1>2. \A i \in 1..(Len(q) - 1) : i + 1 \in DOMAIN q /\ i + 1 # 1
  BY <1>1
<1>3. 1 \in DOMAIN q
  BY <1>1
<1>4. \A x : x \in Members(r) => x \in Members(q) \ {q[1]}
  <2> SUFFICES ASSUME NEW i \in 1..(Len(q) - 1)  PROVE r[i] \in Members(q) \ {q[1]}
    BY <1>1 DEF Members
  <2> QED BY <1>1, <1>2, <1>3 DEF Members, Distinct
<1>5. \A x : x \in Members(q) \ {q[1]} => x \in Members(r)
  <2> SUFFICES ASSUME NEW i \in 1..Len(q), q[i] # q[1]  PROVE q[i] \in Members(r)
    BY <1>1 DEF Members
  <2>1. i - 1 \in 1..(Len(q) - 1) /\ (i - 1) + 1 = i
    BY <1>1
  <2>2. r[i - 1] = q[i]
    BY <1>1, <2>1
  <2> QED BY <1>1, <2>1, <2>2 DEF Members
<1>6. Distinct(r)
  <2> SUFFICES ASSUME NEW i \in 1..(Len(q) - 1), NEW j \in 1..(Len(q) - 1), r[i] = r[j]
               PROVE  i = j
    BY <1>1 DEF Distinct
  <2>1. i + 1 = j + 1
    BY <1>1, <1>2 DEF Distinct
  <2> QED BY <1>1, <2>1
<1> QED BY <1>1, <1>3, <1>4, <1>5, <1>6 DEF r, Members

-----------------------------------------------------------------------------
(* Numbers and queues *)

\* A nonempty set of numbers has a lowest one.
LEMMA LowestIs ==
    ASSUME NEW S \in SUBSET Nat, S # {}
    PROVE  Lowest(S) \in S /\ \A y \in S : Lowest(S) <= y
<1> DEFINE R == OpToRel(<, Nat)
<1>1. IsWellFoundedOn(R, Nat)
  BY NatLessThanWellFounded
<1>2. PICK x \in S : \A y \in S : ~(<<y, x>> \in R)
  <2> HIDE DEF R
  <2> QED BY <1>1, WFMin
<1>3. \A y \in S : ~(y < x)
  BY <1>2 DEF OpToRel
<1>4. \A y \in S : x <= y
  BY <1>3
<1> QED BY <1>4 DEF Lowest

\* A set of numbers below a bound has a highest one.
LEMMA HighestIs ==
    ASSUME NEW n \in Nat, NEW S \in SUBSET (0..n), S # {}
    PROVE  \E x \in S : \A y \in S : y <= x
<1> DEFINE T == {n - y : y \in S}
<1>1. T \in SUBSET Nat /\ T # {}
  <2>1. \A y \in S : n - y \in Nat
    OBVIOUS
  <2> QED BY <2>1
<1>2. PICK t \in T : \A u \in T : t <= u
  <2> HIDE DEF T
  <2> QED BY <1>1, LowestIs
<1>3. PICK x \in S : t = n - x
  OBVIOUS
<1>4. \A y \in S : n - x <= n - y
  BY <1>2, <1>3
<1> QED BY <1>4

\* What is left of a queue.
LEMMA SuffixFacts ==
    ASSUME NEW S, NEW q \in Seq(S), NEW k \in DOMAIN q, Distinct(q)
    PROVE  LET r == SubSeq(q, k + 1, Len(q))
           IN  /\ r \in Seq(S)
               /\ Distinct(r)
               /\ Members(r) = {q[j] : j \in (k + 1)..Len(q)}
<1> DEFINE r == SubSeq(q, k + 1, Len(q))
<1>1. /\ Len(q) \in Nat /\ DOMAIN q = 1..Len(q) /\ k \in 1..Len(q)
      /\ r \in Seq(S) /\ DOMAIN r = 1..(Len(q) - k)
  OBVIOUS
<1>2. \A j \in 1..(Len(q) - k) : r[j] = q[k + j]
  BY <1>1
<1> HIDE DEF r
<1>3. \A j \in (k + 1)..Len(q) : j - k \in 1..(Len(q) - k) /\ k + (j - k) = j
  BY <1>1
<1>4. \A j \in 1..(Len(q) - k) : k + j \in (k + 1)..Len(q) /\ k + j \in DOMAIN q
  BY <1>1
<1>5. Members(r) = {q[j] : j \in (k + 1)..Len(q)}
  <2>1. \A y \in Members(r) : y \in {q[j] : j \in (k + 1)..Len(q)}
    BY <1>1, <1>2, <1>4 DEF Members
  <2>2. \A j \in (k + 1)..Len(q) : r[j - k] = q[j]
    BY <1>2, <1>3
  <2>3. \A j \in (k + 1)..Len(q) : q[j] \in Members(r)
    BY <1>1, <1>3, <2>2 DEF Members
  <2> QED BY <2>1, <2>3
<1>6. Distinct(r)
  <2> SUFFICES ASSUME NEW i \in 1..(Len(q) - k), NEW j \in 1..(Len(q) - k), r[i] = r[j]
               PROVE  i = j
    BY <1>1 DEF Distinct
  <2>1. k + i = k + j
    BY <1>2, <1>4 DEF Distinct
  <2> QED BY <1>1, <2>1
<1> QED BY <1>1, <1>5, <1>6 DEF r

\* waitq.dequeue: it finds a live sudog if there is one and loses no other.
LEMMA RestFacts ==
    ASSUME NEW S, NEW q \in Seq(S), Distinct(q)
    PROVE  /\ Rest(q) \in Seq(S)
           /\ Distinct(Rest(q))
           /\ Members(Rest(q)) \subseteq Members(q)
           /\ HasWaiter(q) <=> \E e \in Members(q) : Live(e)
           /\ HasWaiter(q) => /\ Dequeued(q) \in Members(q)
                              /\ Live(Dequeued(q))
                              /\ Dequeued(q) \notin Members(Rest(q))
           /\ ~HasWaiter(q) => Rest(q) = <<>>
           /\ \A e \in Members(q) : Live(e) => e \in Members(Rest(q)) \/ e = Dequeued(q)
<1>0. /\ Len(q) \in Nat /\ DOMAIN q = 1..Len(q)
      /\ LiveIn(q) \subseteq DOMAIN q /\ LiveIn(q) \in SUBSET Nat
      /\ \A k \in DOMAIN q : k \in LiveIn(q) <=> Live(q[k])
  BY DEF LiveIn
<1>1. HasWaiter(q) <=> \E e \in Members(q) : Live(e)
  BY <1>0 DEF HasWaiter, Members
<1>2. CASE ~HasWaiter(q)
  <2>1. Rest(q) = <<>>
    BY <1>2 DEF Rest
  <2>2. <<>> \in Seq(S) /\ DOMAIN <<>> = {}
    OBVIOUS
  <2>3. Members(<<>>) = {} /\ Distinct(<<>>)
    BY <2>2 DEF Members, Distinct
  <2> QED BY <1>1, <1>2, <2>1, <2>2, <2>3
<1>3. CASE HasWaiter(q)
  <2> DEFINE k == First(q)
  <2>1. k \in LiveIn(q) /\ \A l \in LiveIn(q) : k <= l
    BY <1>0, <1>3, LowestIs DEF HasWaiter, First
  <2>2. k \in DOMAIN q /\ Live(q[k]) /\ Dequeued(q) = q[k]
    BY <1>0, <2>1 DEF Dequeued
  <2>3. Rest(q) = SubSeq(q, k + 1, Len(q))
    BY <1>3 DEF Rest
  <2> HIDE DEF k
  <2>4. /\ Rest(q) \in Seq(S) /\ Distinct(Rest(q))
        /\ Members(Rest(q)) = {q[j] : j \in (k + 1)..Len(q)}
    BY <2>2, <2>3, SuffixFacts
  <2>5. Members(Rest(q)) \subseteq Members(q)
    <3>1. \A j \in (k + 1)..Len(q) : j \in DOMAIN q
      BY <1>0, <2>2
    <3> QED BY <2>4, <3>1 DEF Members
  <2>6. q[k] \notin Members(Rest(q))
    BY <1>0, <2>2, <2>4 DEF Distinct
  <2>7. ASSUME NEW l \in DOMAIN q, Live(q[l])
        PROVE  q[l] \in Members(Rest(q)) \/ l = k
    <3>1. k <= l
      BY <1>0, <2>1, <2>7
    <3> QED BY <1>0, <2>2, <2>4, <3>1
  <2>8. \A e \in Members(q) : Live(e) => e \in Members(Rest(q)) \/ e = q[k]
    BY <2>7 DEF Members
  <2> QED BY <1>1, <1>3, <2>2, <2>4, <2>5, <2>6, <2>8 DEF Members
<1> QED BY <1>2, <1>3

\* waitq.dequeueSudoG: one sudog leaves.
LEMMA RemoveFacts ==
    ASSUME NEW S, NEW q \in Seq(S), NEW k \in DOMAIN q, Distinct(q)
    PROVE  /\ dequeueSudoG(q, k) \in Seq(S)
           /\ Distinct(dequeueSudoG(q, k))
           /\ Members(dequeueSudoG(q, k)) = Members(q) \ {q[k]}
<1> DEFINE r == dequeueSudoG(q, k)
<1> DEFINE a == SubSeq(q, 1, k - 1)
<1> DEFINE b == SubSeq(q, k + 1, Len(q))
<1>1. /\ Len(q) \in Nat /\ DOMAIN q = 1..Len(q) /\ k \in 1..Len(q)
      /\ a \in Seq(S) /\ b \in Seq(S) /\ Len(a) = k - 1 /\ Len(b) = Len(q) - k
      /\ r = a \o b
  BY DEF dequeueSudoG
<1>2. /\ \A j \in 1..(k - 1) : a[j] = q[j]
      /\ \A j \in 1..(Len(q) - k) : b[j] = q[k + j]
  <2>1. ASSUME NEW j \in 1..(k - 1)
        PROVE  a[j] = q[j]
    BY <1>1
  <2>2. ASSUME NEW j \in 1..(Len(q) - k)
        PROVE  b[j] = q[k + j]
    BY <1>1, SMTT(30)
  <2> QED BY <2>1, <2>2
<1> HIDE DEF r, a, b
<1>3. r \in Seq(S) /\ Len(r) = Len(q) - 1 /\ DOMAIN r = 1..(Len(q) - 1)
  <2>1. r \in Seq(S) /\ Len(r) = Len(a) + Len(b)
    BY <1>1, ConcatProperties
  <2>2. \A n \in Nat : \A m \in 1..n : (m - 1) + (n - m) = n - 1
    OBVIOUS
  <2>3. (k - 1) + (Len(q) - k) = Len(q) - 1
    BY <1>1, <2>2
  <2>4. Len(r) = Len(q) - 1
    BY <1>1, <2>1, <2>3
  <2>5. r \in Seq(S) => DOMAIN r = 1..Len(r)
    OBVIOUS
  <2> QED BY <2>1, <2>4, <2>5
<1>4. \A j \in 1..(Len(q) - 1) : r[j] = IF j < k THEN a[j] ELSE b[j - (k - 1)]
  BY <1>1
<1>5. \A j \in 1..(Len(q) - 1) : r[j] = IF j < k THEN q[j] ELSE q[j + 1]
  <2> SUFFICES ASSUME NEW j \in 1..(Len(q) - 1)
               PROVE  r[j] = IF j < k THEN q[j] ELSE q[j + 1]
    OBVIOUS
  <2>1. CASE j < k
    BY <1>1, <1>2, <1>4, <2>1
  <2>2. CASE ~(j < k)
    <3>1. j - (k - 1) \in 1..(Len(q) - k) /\ k + (j - (k - 1)) = j + 1
      BY <1>1, <2>2
    <3> QED BY <1>2, <1>4, <2>2, <3>1
  <2> QED BY <2>1, <2>2
<1>6. ASSUME NEW j \in 1..(Len(q) - 1)
      PROVE  \E l \in DOMAIN q : l # k /\ r[j] = q[l] /\ l = IF j < k THEN j ELSE j + 1
  <2>1. CASE j < k
    BY <1>1, <1>5, <2>1
  <2>2. CASE ~(j < k)
    <3>1. j + 1 \in DOMAIN q /\ j + 1 # k
      BY <1>1, <2>2
    <3> QED BY <1>5, <2>2, <3>1
  <2> QED BY <2>1, <2>2
<1>7. ASSUME NEW l \in DOMAIN q, l # k
      PROVE  q[l] \in Members(r)
  <2>1. CASE l < k
    <3>1. l \in 1..(Len(q) - 1)
      BY <1>1, <2>1
    <3> QED BY <1>3, <1>5, <2>1, <3>1 DEF Members
  <2>2. CASE ~(l < k)
    <3>1. l - 1 \in 1..(Len(q) - 1) /\ ~(l - 1 < k) /\ (l - 1) + 1 = l
      BY <1>1, <1>7, <2>2
    <3>2. r[l - 1] = q[l]
      BY <1>5, <3>1
    <3> QED BY <1>3, <3>1, <3>2 DEF Members
  <2> QED BY <2>1, <2>2
<1>8. Members(r) = Members(q) \ {q[k]}
  <2>1. \A y \in Members(r) : y \in Members(q) /\ y # q[k]
    BY <1>3, <1>6 DEF Members, Distinct
  <2>2. \A y \in Members(q) : y # q[k] => y \in Members(r)
    BY <1>7 DEF Members
  <2> QED BY <2>1, <2>2
<1>9. Distinct(r)
  <2> SUFFICES ASSUME NEW i \in 1..(Len(q) - 1), NEW j \in 1..(Len(q) - 1), r[i] = r[j]
               PROVE  i = j
    BY <1>3 DEF Distinct
  <2>1. (IF i < k THEN i ELSE i + 1) = (IF j < k THEN j ELSE j + 1)
    BY <1>6 DEF Distinct
  <2> QED BY <1>1, <2>1
<1> QED BY <1>3, <1>8, <1>9 DEF r

-----------------------------------------------------------------------------
(* The ring *)

\* The slot that is y places after x in a ring of n, and the next one.
Slot(n, x, y) == (x + y) % n
After(n, x) == IF x + 1 = n THEN 0 ELSE x + 1

\* Indices wrap around once.
LEMMA SlotIs ==
    ASSUME NEW n \in Nat \ {0}, NEW x \in 0..n-1, NEW y \in 0..n
    PROVE  Slot(n, x, y) = (IF x + y < n THEN x + y ELSE x + y - n) /\ Slot(n, x, y) \in 0..n-1
<1>1. (x + y) % n = IF x + y < n THEN x + y ELSE x + y - n
  OBVIOUS
<1>2. Slot(n, x, y) = IF x + y < n THEN x + y ELSE x + y - n
  BY <1>1 DEF Slot
<1> QED BY <1>2

\* A ring of n slots with q values from r on, and its end at s.
Ring(b, n, q, r, s) ==
    /\ s = Slot(n, r, q)
    /\ \A k \in 0..n-1 : (b[Slot(n, r, k)] # Zero) <=> (k < q)

\* b1 is b with v at place k.
Put(b1, b, n, k, v) ==
    /\ b1 \in [0..n-1 -> Value \cup {Zero}]
    /\ b1[k] = v
    /\ \A j \in 0..n-1 : j # k => b1[j] = b[j]

\* A value goes in at the end.
LEMMA RingPush ==
    ASSUME NEW n \in Nat \ {0}, NEW b \in [0..n-1 -> Value \cup {Zero}], NEW q \in 0..n-1, NEW r \in 0..n-1,
           NEW s, Ring(b, n, q, r, s), NEW v, v # Zero, NEW b1, Put(b1, b, n, s, v)
    PROVE  Ring(b1, n, q + 1, r, After(n, s)) /\ After(n, s) \in 0..n-1
<1>0. q \in 0..n /\ q + 1 \in 0..n
  OBVIOUS
<1>1. s = Slot(n, r, q) /\ s = (IF r + q < n THEN r + q ELSE r + q - n) /\ s \in 0..n-1
  BY <1>0, SlotIs DEF Ring
<1>2. Slot(n, r, q + 1) = (IF r + (q + 1) < n THEN r + (q + 1) ELSE r + (q + 1) - n)
  BY <1>0, SlotIs
<1>3. After(n, s) = Slot(n, r, q + 1) /\ After(n, s) \in 0..n-1
  BY <1>1, <1>2 DEF After
<1>4. ASSUME NEW k \in 0..n-1
      PROVE  (b1[Slot(n, r, k)] # Zero) <=> (k < q + 1)
  <2>1. k \in 0..n
    OBVIOUS
  <2>2. Slot(n, r, k) = (IF r + k < n THEN r + k ELSE r + k - n) /\ Slot(n, r, k) \in 0..n-1
    BY <2>1, SlotIs
  <2>3. CASE k = q
    <3>1. b1[Slot(n, r, k)] = v
      BY <1>1, <2>3 DEF Put
    <3> QED BY <2>3, <3>1
  <2>4. CASE k # q
    <3>1. Slot(n, r, k) # s
      BY <1>1, <2>2, <2>4
    <3>2. b1[Slot(n, r, k)] = b[Slot(n, r, k)]
      BY <2>2, <3>1 DEF Put
    <3>3. (k < q) <=> (k < q + 1)
      BY <2>4
    <3> QED BY <3>2, <3>3 DEF Ring
  <2> QED BY <2>3, <2>4
<1> QED BY <1>3, <1>4 DEF Ring

\* The oldest value goes out, and its slot is cleared.
LEMMA RingPop ==
    ASSUME NEW n \in Nat \ {0}, NEW b \in [0..n-1 -> Value \cup {Zero}], NEW q \in 1..n, NEW r \in 0..n-1,
           NEW s, Ring(b, n, q, r, s), NEW b1, Put(b1, b, n, r, Zero)
    PROVE  Ring(b1, n, q - 1, After(n, r), s) /\ After(n, r) \in 0..n-1
<1> DEFINE r1 == After(n, r)
<1>0. q \in 0..n /\ q - 1 \in 0..n
  OBVIOUS
<1>1. r1 \in 0..n-1 /\ r1 = (IF r + 1 = n THEN 0 ELSE r + 1)
  BY DEF After
<1> HIDE DEF r1
<1>2. s = Slot(n, r1, q - 1)
  <2>1. /\ Slot(n, r1, q - 1) = (IF r1 + (q - 1) < n THEN r1 + (q - 1) ELSE r1 + (q - 1) - n)
        /\ Slot(n, r, q) = (IF r + q < n THEN r + q ELSE r + q - n)
    BY <1>0, <1>1, SlotIs
  <2>2. Slot(n, r1, q - 1) = Slot(n, r, q)
    BY <1>1, <2>1
  <2> QED BY <2>2 DEF Ring
<1>3. ASSUME NEW k \in 0..n-1
      PROVE  (b1[Slot(n, r1, k)] # Zero) <=> (k < q - 1)
  <2>1. k \in 0..n
    OBVIOUS
  <2>2. Slot(n, r1, k) = (IF r1 + k < n THEN r1 + k ELSE r1 + k - n) /\ Slot(n, r1, k) \in 0..n-1
    BY <1>1, <2>1, SlotIs
  <2>3. CASE k = n - 1
    <3>1. Slot(n, r1, k) = r
      BY <1>1, <2>2, <2>3
    <3>2. ~(k < q - 1)
      BY <2>3
    <3> QED BY <3>1, <3>2 DEF Put
  <2>4. CASE k # n - 1
    <3>1. k + 1 \in 0..n-1 /\ k + 1 \in 0..n
      BY <2>4
    <3>2. Slot(n, r, k + 1) = (IF r + (k + 1) < n THEN r + (k + 1) ELSE r + (k + 1) - n)
      BY <3>1, SlotIs
    <3>3. Slot(n, r1, k) = Slot(n, r, k + 1) /\ Slot(n, r1, k) # r
      BY <1>1, <2>2, <2>4, <3>2
    <3>4. b1[Slot(n, r1, k)] = b[Slot(n, r, k + 1)]
      BY <2>2, <3>3 DEF Put
    <3>5. (b[Slot(n, r, k + 1)] # Zero) <=> (k + 1 < q)
      BY <3>1 DEF Ring
    <3>6. (k + 1 < q) <=> (k < q - 1)
      OBVIOUS
    <3> QED BY <3>4, <3>5, <3>6
  <2> QED BY <2>3, <2>4
<1> QED BY <1>1, <1>2, <1>3 DEF Ring, r1

\* In a full ring the oldest value makes room for another.
LEMMA RingSwap ==
    ASSUME NEW n \in Nat \ {0}, NEW b \in [0..n-1 -> Value \cup {Zero}], NEW r \in 0..n-1,
           NEW s, Ring(b, n, n, r, s), NEW v, v # Zero, NEW b1, Put(b1, b, n, r, v)
    PROVE  Ring(b1, n, n, After(n, r), After(n, r)) /\ After(n, r) \in 0..n-1
<1> DEFINE r1 == After(n, r)
<1>1. r1 \in 0..n-1 /\ n \in 0..n
  BY DEF After
<1> HIDE DEF r1
<1>2. r1 = Slot(n, r1, n)
  <2>1. Slot(n, r1, n) = IF r1 + n < n THEN r1 + n ELSE r1 + n - n
    BY <1>1, SlotIs
  <2> QED BY <1>1, <2>1
<1>3. ASSUME NEW j \in 0..n-1
      PROVE  b[j] # Zero
  <2>1. CASE j >= r
    <3>1. j - r \in 0..n-1 /\ j - r \in 0..n /\ r + (j - r) = j /\ j < n
      BY <2>1
    <3>2. Slot(n, r, j - r) = j
      BY <3>1, SlotIs
    <3> QED BY <3>1, <3>2 DEF Ring
  <2>2. CASE j < r
    <3>1. j + n - r \in 0..n-1 /\ j + n - r \in 0..n /\ r + (j + n - r) = j + n
          /\ ~(j + n < n) /\ j + n - n = j
      BY <2>2
    <3>2. Slot(n, r, j + n - r) = j
      BY <3>1, SlotIs
    <3> QED BY <3>1, <3>2 DEF Ring
  <2> QED BY <2>1, <2>2
<1>4. ASSUME NEW k \in 0..n-1
      PROVE  (b1[Slot(n, r1, k)] # Zero) /\ k < n
  <2>1. k \in 0..n /\ k < n
    OBVIOUS
  <2>2. Slot(n, r1, k) \in 0..n-1
    BY <1>1, <2>1, SlotIs
  <2> QED BY <1>3, <2>1, <2>2 DEF Put
<1> QED BY <1>1, <1>2, <1>4 DEF Ring, r1

-----------------------------------------------------------------------------
(* The inductive invariant *)

\* The wakeups that w owes, and whether somebody owes one to g.
Wakes(w) == Members(wake[w])
HasWake(g) == \E w \in Goroutine : \E e \in Wakes(w) : e.g = g

\* Places of a call: it has been woken; it holds all its locks.
Woken == {"awake", "relock", "pass3"}
HoldsAll == {"pass1", "pass2", "pass3"}

\* Which calls can be where.
ControlOf(g) ==
    /\ (pc[g] = "idle") <=> (op[g] = NoOp)
    /\ pc[g] # "throw"
    /\ pc[g] \in {"fast", "full", "open", "again", "lock"} => op[g].kind = "chan"
    /\ pc[g] \in {"fast", "full", "open", "again"} => ~op[g].block
    /\ pc[g] = "pass2" => op[g].block
    /\ pc[g] = "full" => Case(g, 1).dir = "send"
    /\ pc[g] \in {"open", "again"} => Case(g, 1).dir = "recv"
    /\ pc[g] \in {"again", "closing"} => closed[Case(g, 1).c] = 1
    /\ pc[g] \in {"close", "closing"} => op[g].kind = "close"
    /\ pc[g] \in HoldsAll \cup {"sellock", "relock"} => op[g].kind = "select"
    /\ pc[g] \in {"parked", "awake"} => op[g].kind \in {"chan", "select"}
    /\ wake[g] # <<>> => pc[g] \in {"ready", "closing"}
    /\ pc[g] = "ready" => wake[g] # <<>>
    /\ pc[g] \in {"ready", "closing"} => ret[g].casi > 0
    /\ pc[g] = "return" => ret[g].casi >= 0
ControlInv == \A g \in Goroutine : ControlOf(g)

\* Which locks g holds, and that it waits only for higher ones.
LockOf(g) ==
    /\ (todo[g] # {}) <=> (pc[g] \in {"sellock", "relock"})
    /\ todo[g] # {} => todo[g] \subseteq Channels(g)
    /\ parking[g] # {} => /\ pc[g] \in {"parked", "awake", "relock"}
                          /\ op[g].kind = "select"
                          /\ parking[g] \subseteq Channels(g)
    /\ pc[g] = "relock" => parking[g] \subseteq todo[g]
    /\ pc[g] \in HoldsAll => \A c \in Channels(g) : lock[c] = g
    /\ pc[g] \in {"sellock", "relock"} =>
          \A c \in Channels(g) \ todo[g] : lock[c] = g /\ \A d \in todo[g] : c < d
    /\ pc[g] = "closing" => lock[Case(g, 1).c] = g
    /\ \A c \in parking[g] : lock[c] = g
    /\ \A c \in ChanAddr : lock[c] = g =>
          \/ pc[g] \in HoldsAll /\ c \in Channels(g)
          \/ pc[g] \in {"sellock", "relock"} /\ c \in Channels(g) \ todo[g]
          \/ pc[g] = "closing" /\ c = Case(g, 1).c
          \/ c \in parking[g]
LockInv == \A g \in Goroutine : LockOf(g)

\* A wakeup finds its goroutine parked, and there is one per goroutine.
OneWake ==
    /\ \A v \in Goroutine : Distinct(wake[v])
    /\ \A v, w \in Goroutine : \A e \in Wakes(v), f \in Wakes(w) :
          e.g = f.g => v = w /\ e = f
    /\ \A v \in Goroutine : \A e \in Wakes(v) :
          /\ pc[e.g] = "parked"
          /\ e.casi \in Cases(e.g)
          /\ ~e.ok => closed[Case(e.g, e.casi).c] = 1

\* What a woken goroutine knows, and what shows that it is to be woken.
SignalOf(g) ==
    /\ pc[g] \in Woken => /\ param[g] \in Cases(g)
                          /\ ~success[g] => closed[Case(g, param[g]).c] = 1
    /\ (selectDone[g] = 1) <=> /\ op[g] # NoOp
                               /\ op[g].kind = "select"
                               /\ HasWake(g) \/ pc[g] \in Woken
    /\ elem[g] # Zero => pc[g] \in Woken \cup {"return"} \/ HasWake(g)
WakeInv == OneWake /\ \A g \in Goroutine : SignalOf(g)

\* A sudog in a queue belongs to a case that waits or was not chosen.
SudogOf(e, d, c) ==
    /\ pc[e.g] \in {"pass2", "parked"} \cup Woken
    /\ e.casi \in Cases(e.g)
    /\ Case(e.g, e.casi).c = c
    /\ Case(e.g, e.casi).dir = d
    /\ op[e.g].kind = "chan" => pc[e.g] = "parked" /\ ~HasWake(e.g)
    /\ pc[e.g] \in Woken => e.casi # param[e.g]
    /\ \A w \in Goroutine : \A f \in Wakes(w) : f.g = e.g => f.casi # e.casi
SudogInv ==
    /\ \A d \in Dir, c \in ChanAddr :
          Distinct(waitq[d][c]) /\ \A e \in Members(waitq[d][c]) : SudogOf(e, d, c)
    /\ \A g \in Goroutine : pc[g] = "parked" =>
          HasWake(g) \/ \A i \in Cases(g) : Sudog(g, i) \in Members(waitq[Case(g, i).dir][Case(g, i).c])

\* Nobody waits for what is there, whoever holds the lock of the channel; only
\* the closing goroutine may still find waiters on a closed channel.
WaitOf(c) ==
    /\ \A e \in Members(waitq["recv"][c]) : Live(e) =>
          /\ qcount[c] = 0
          /\ \A f \in Members(waitq["send"][c]) : Live(f) => e.g = f.g
    /\ \A e \in Members(waitq["send"][c]) : Live(e) => qcount[c] = Cap[c]
    /\ closed[c] = 1 => \/ \A d \in Dir : Members(waitq[d][c]) = {}
                        \/ \E g \in Goroutine : pc[g] = "closing" /\ c = Case(g, 1).c

\* None of the cases that g is about to queue a sudog for could proceed.
Pass2Of(g) ==
    pc[g] = "pass2" => \A i \in Cases(g) :
        /\ closed[Case(g, i).c] = 0
        /\ \A e \in Members(waitq[Other(Case(g, i).dir)][Case(g, i).c]) : e.g = g
        /\ Case(g, i).dir = "send" => qcount[Case(g, i).c] = Cap[Case(g, i).c]
        /\ Case(g, i).dir = "recv" => qcount[Case(g, i).c] = 0
WaitInv == (\A c \in ChanAddr : WaitOf(c)) /\ (\A g \in Goroutine : Pass2Of(g))

\* What a call that took no lock has seen.
MissOf(g) ==
    /\ Blocked(g) => missed[g]
    /\ pc[g] = "open" => missed[g] \/ closed[Case(g, 1).c] = 1
    /\ pc[g] = "full" => opened[g]
    /\ Defaulted(g) => missed[g] \/ (SendAlone(g) /\ opened[g] /\ closed[Case(g, 1).c] = 1)
MissInv == \A g \in Goroutine : MissOf(g)

IInv ==
    /\ TypeOK
    /\ ControlInv
    /\ LockInv
    /\ WakeInv
    /\ SudogInv
    /\ WaitInv
    /\ RingExact
    /\ MissInv

-----------------------------------------------------------------------------
(* Calls, sudogs and locks *)

\* The shape of a call.
LEMMA OpFacts ==
    ASSUME NEW g \in Goroutine, NEW o \in Program[g]
    PROVE  /\ o # NoOp
           /\ o.kind \in {"chan", "select", "close"}
           /\ o.block \in BOOLEAN
           /\ 1 \in DOMAIN o.cases
           /\ DOMAIN o.cases \subseteq Nat \ {0}
           /\ o.kind # "select" => DOMAIN o.cases = {1}
           /\ \A i \in DOMAIN o.cases :
                 /\ o.cases[i].c \in ChanAddr
                 /\ o.cases[i].v \in Value \cup {Zero}
                 /\ o.kind = "close" => o.cases[i].dir = "close"
                 /\ o.kind # "close" => o.cases[i].dir \in Dir
                 /\ (o.cases[i].dir = "send") <=> (o.cases[i].v \in Value)
<1>1. WellFormed(o) /\ o # NoOp
  BY ChanAssumption
<1>2. o \in OpType /\ o.cases # <<>> /\ (o.kind # "select" => Len(o.cases) = 1)
  BY <1>1 DEF WellFormed
<1>3. /\ o.kind \in {"chan", "select", "close"} /\ o.block \in BOOLEAN
      /\ o.cases \in Seq(CaseType)
  BY <1>2 DEF OpType
<1>4. /\ Len(o.cases) \in Nat /\ DOMAIN o.cases = 1..Len(o.cases)
      /\ \A i \in DOMAIN o.cases : o.cases[i] \in CaseType
      /\ Len(o.cases) # 0
  BY <1>2, <1>3
<1>5. 1 \in DOMAIN o.cases /\ DOMAIN o.cases \subseteq Nat \ {0}
  BY <1>4
<1>6. o.kind # "select" => DOMAIN o.cases = {1}
  BY <1>2, <1>4
<1>7. ASSUME NEW i \in DOMAIN o.cases
      PROVE  /\ o.cases[i].c \in ChanAddr
             /\ o.cases[i].v \in Value \cup {Zero}
             /\ o.kind = "close" => o.cases[i].dir = "close"
             /\ o.kind # "close" => o.cases[i].dir \in Dir
             /\ (o.cases[i].dir = "send") <=> (o.cases[i].v \in Value)
  BY <1>1, <1>4 DEF WellFormed, CaseType, Dir
<1> QED BY <1>1, <1>3, <1>5, <1>6, <1>7

\* The call of a goroutine.
LEMMA CallFacts ==
    ASSUME TypeOK, NEW g \in Goroutine, op[g] # NoOp
    PROVE  /\ op[g] \in Program[g]
           /\ op[g].kind \in {"chan", "select", "close"}
           /\ op[g].block \in BOOLEAN
           /\ 1 \in Cases(g)
           /\ Cases(g) \subseteq Nat \ {0}
           /\ op[g].kind # "select" => Cases(g) = {1}
           /\ Channels(g) \subseteq ChanAddr /\ Channels(g) \subseteq Nat
           /\ Case(g, 1).c \in Channels(g)
           /\ \A i \in Cases(g) :
                 /\ Case(g, i).c \in ChanAddr /\ Case(g, i).c \in Channels(g)
                 /\ Case(g, i).v \in Value \cup {Zero}
                 /\ op[g].kind = "close" => Case(g, i).dir = "close"
                 /\ op[g].kind # "close" => Case(g, i).dir \in Dir
                 /\ (Case(g, i).dir = "send") <=> (Case(g, i).v \in Value)
<1>1. op[g] \in Program[g]
  BY DEF TypeOK
<1>2. ChanAddr \subseteq Nat
  BY ChanAssumption
<1> DEFINE o == op[g]
<1>3. /\ o.kind \in {"chan", "select", "close"}
      /\ o.block \in BOOLEAN
      /\ 1 \in DOMAIN o.cases
      /\ DOMAIN o.cases \subseteq Nat \ {0}
      /\ o.kind # "select" => DOMAIN o.cases = {1}
      /\ \A i \in DOMAIN o.cases :
            /\ o.cases[i].c \in ChanAddr
            /\ o.cases[i].v \in Value \cup {Zero}
            /\ o.kind = "close" => o.cases[i].dir = "close"
            /\ o.kind # "close" => o.cases[i].dir \in Dir
            /\ (o.cases[i].dir = "send") <=> (o.cases[i].v \in Value)
  <2> HIDE DEF o
  <2>1. o \in Program[g]
    BY <1>1 DEF o
  <2> QED BY <2>1, OpFacts
<1>4. Channels(g) \subseteq ChanAddr /\ \A i \in Cases(g) : Case(g, i).c \in Channels(g)
  BY <1>3 DEF Case, Cases, Channels
<1> QED BY <1>1, <1>2, <1>3, <1>4 DEF Case, Cases

\* A sudog is its goroutine and its case.
LEMMA SudogEq ==
    ASSUME NEW e \in Sudogs
    PROVE  /\ e.g \in Goroutine /\ e.casi \in Nat
           /\ \A g, i : e = Sudog(g, i) <=> e.g = g /\ e.casi = i
  BY DEF Sudogs, Sudog

\* The two directions.
LEMMA DirFacts ==
    /\ \A d \in Dir : d = "recv" \/ d = "send"
    /\ \A d \in Dir : Other(d) \in Dir /\ Other(d) # d /\ Other(Other(d)) = d
    /\ Other("recv") = "send" /\ Other("send") = "recv"
    /\ "recv" \in Dir /\ "send" \in Dir
  BY DEF Dir, Other

\* The members of a queue: who they belong to, and which of them are live.
LEMMA Waiter ==
    ASSUME IInv, NEW d \in Dir, NEW c \in ChanAddr, NEW e \in Members(waitq[d][c])
    PROVE  /\ e \in Sudogs /\ e.g \in Goroutine /\ e.casi \in Nat
           /\ SudogOf(e, d, c)
           /\ op[e.g] # NoOp
           /\ op[e.g].kind \in {"chan", "select"}
           /\ c \in Channels(e.g)
           /\ Live(e) <=> pc[e.g] \in {"pass2", "parked"} /\ ~HasWake(e.g)
           /\ pc[e.g] \in {"pass2", "pass3"} => lock[c] = e.g
<1>1. waitq[d][c] \in Seq(Sudogs)
  BY DEF IInv, TypeOK
<1>2. e \in Sudogs
  BY <1>1, MembersIn
<1>3. e.g \in Goroutine /\ e.casi \in Nat
  BY <1>2, SudogEq
<1>4. SudogOf(e, d, c)
  BY DEF IInv, SudogInv
<1>5. op[e.g] # NoOp
  BY <1>3, <1>4 DEF IInv, ControlInv, ControlOf, SudogOf, Woken
<1>6. op[e.g].kind \in {"chan", "select"}
  BY <1>3, <1>4 DEF IInv, ControlInv, ControlOf, SudogOf, Woken, HoldsAll
<1>7. c \in Channels(e.g)
  BY <1>4 DEF SudogOf, Channels
<1>8. Live(e) <=> pc[e.g] \in {"pass2", "parked"} /\ ~HasWake(e.g)
  <2>1. selectDone[e.g] \in {0, 1}
    BY <1>3 DEF IInv, TypeOK
  <2>2. SignalOf(e.g)
    BY <1>3 DEF IInv, WakeInv
  <2>3. CASE op[e.g].kind = "chan"
    BY <1>4, <2>3 DEF Live, SudogOf
  <2>4. CASE op[e.g].kind = "select"
    BY <1>4, <1>5, <2>1, <2>2, <2>4 DEF Live, SudogOf, SignalOf, Woken
  <2> QED BY <1>6, <2>3, <2>4
<1>9. pc[e.g] \in {"pass2", "pass3"} => lock[c] = e.g
  BY <1>3, <1>7 DEF IInv, LockInv, LockOf, HoldsAll
<1> QED BY <1>2, <1>3, <1>4, <1>5, <1>6, <1>7, <1>8, <1>9

-----------------------------------------------------------------------------
(* Steps that take sudogs off the queues *)

QueueType == [Dir -> [ChanAddr -> Seq(Sudogs)]]

\* The queues lose dead sudogs, and those in X.
Shrinks(X) ==
    /\ waitq' \in QueueType
    /\ \A d \in Dir, c \in ChanAddr :
          /\ Distinct(waitq'[d][c])
          /\ Members(waitq'[d][c]) \subseteq Members(waitq[d][c]) \ X
          /\ \A e \in Members(waitq[d][c]) : Live(e) => e \in Members(waitq'[d][c]) \cup X

\* Only queues that g may touch change.
QueuesOf(g) ==
    \A d \in Dir, c \in ChanAddr : lock[c] \notin {Nil, g} => waitq'[d][c] = waitq[d][c]

\* They still hold sudogs.
LEMMA ShrunkType ==
    ASSUME NEW X, Shrinks(X)
    PROVE  \A d \in Dir, c \in ChanAddr : Members(waitq'[d][c]) \subseteq Sudogs
<1>1. \A d \in Dir, c \in ChanAddr : waitq'[d][c] \in Seq(Sudogs)
  BY DEF Shrinks, QueueType
<1> QED BY <1>1, MembersIn

\* Queues that do not change have not lost anybody.
LEMMA KeepQueues ==
    ASSUME IInv, waitq' = waitq, NEW g
    PROVE  Shrinks({}) /\ QueuesOf(g)
  BY DEF IInv, TypeOK, SudogInv, Shrinks, QueuesOf, QueueType

\* Polling cases that have no waiter.
LEMMA Sweep ==
    ASSUME IInv, NEW g \in Goroutine, NEW P,
           waitq' = Polled(g, P),
           \A i \in P : lock[Case(g, i).c] \in {Nil, g},
           \A i \in P : \A d \in Dir, c \in ChanAddr :
              Polls(g, i, d, c) => ~HasWaiter(waitq[d][c])
    PROVE  Shrinks({}) /\ QueuesOf(g)
<1>1. waitq \in QueueType /\ \A d \in Dir, c \in ChanAddr : Distinct(waitq[d][c])
  BY DEF IInv, TypeOK, SudogInv, QueueType
<1>2. ASSUME NEW d \in Dir, NEW c \in ChanAddr
      PROVE  /\ waitq'[d][c] = IF \E i \in P : Polls(g, i, d, c) THEN Rest(waitq[d][c])
                                                               ELSE waitq[d][c]
             /\ waitq'[d][c] \in Seq(Sudogs)
             /\ Distinct(waitq'[d][c])
             /\ Members(waitq'[d][c]) \subseteq Members(waitq[d][c]) \ {}
             /\ \A e \in Members(waitq[d][c]) : Live(e) => e \in Members(waitq'[d][c]) \cup {}
  <2>1. waitq[d][c] \in Seq(Sudogs) /\ Distinct(waitq[d][c])
    BY <1>1, <1>2 DEF QueueType
  <2>2. waitq'[d][c] = IF \E i \in P : Polls(g, i, d, c) THEN Rest(waitq[d][c])
                                                          ELSE waitq[d][c]
    BY <1>2 DEF Polled
  <2>3. CASE \E i \in P : Polls(g, i, d, c)
    <3>1. ~HasWaiter(waitq[d][c]) /\ waitq'[d][c] = Rest(waitq[d][c])
      BY <1>2, <2>2, <2>3
    <3> QED BY <2>1, <2>2, <3>1, RestFacts
  <2>4. CASE ~\E i \in P : Polls(g, i, d, c)
    BY <2>1, <2>2, <2>4
  <2> QED BY <2>3, <2>4
<1>3. waitq' \in QueueType
  BY <1>2 DEF Polled, QueueType
<1>4. QueuesOf(g)
  BY <1>2 DEF QueuesOf, Polls
<1> QED BY <1>2, <1>3, <1>4 DEF Shrinks

\* Polling a case that has a waiter, after others that have none.
LEMMA Take ==
    ASSUME IInv, NEW g \in Goroutine, NEW P, NEW i, NEW d0 \in Dir, NEW c0 \in ChanAddr,
           waitq' = Polled(g, P \cup {i}),
           \A j \in P \cup {i} : lock[Case(g, j).c] \in {Nil, g},
           \A j \in P : \A d \in Dir, c \in ChanAddr :
              Polls(g, j, d, c) => ~HasWaiter(waitq[d][c]),
           Polls(g, i, d0, c0),
           HasWaiter(waitq[d0][c0])
    PROVE  /\ Dequeued(waitq[d0][c0]) \in Members(waitq[d0][c0])
           /\ Live(Dequeued(waitq[d0][c0]))
           /\ Shrinks({Dequeued(waitq[d0][c0])})
           /\ QueuesOf(g)
<1> DEFINE x == Dequeued(waitq[d0][c0])
<1>1. waitq \in QueueType /\ \A d \in Dir, c \in ChanAddr : Distinct(waitq[d][c])
  BY DEF IInv, TypeOK, SudogInv, QueueType
<1>2. x \in Members(waitq[d0][c0]) /\ Live(x)
  <2>1. waitq[d0][c0] \in Seq(Sudogs) /\ Distinct(waitq[d0][c0])
    BY <1>1 DEF QueueType
  <2> QED BY <2>1, RestFacts
<1>3. SudogOf(x, d0, c0)
  BY <1>2 DEF IInv, SudogInv
<1>4. ASSUME NEW d \in Dir, NEW c \in ChanAddr, ~(d = d0 /\ c = c0)
      PROVE  x \notin Members(waitq[d][c]) /\ ~Polls(g, i, d, c)
  <2>1. x \in Members(waitq[d][c]) => SudogOf(x, d, c)
    BY DEF IInv, SudogInv
  <2>2. Polls(g, i, d, c) => c = c0 /\ d = d0
    BY DirFacts DEF Polls
  <2> QED BY <1>3, <1>4, <2>1, <2>2 DEF SudogOf
<1> HIDE DEF x
<1>5. ASSUME NEW d \in Dir, NEW c \in ChanAddr
      PROVE  /\ waitq'[d][c] \in Seq(Sudogs)
             /\ lock[c] \notin {Nil, g} => waitq'[d][c] = waitq[d][c]
             /\ Distinct(waitq'[d][c])
             /\ Members(waitq'[d][c]) \subseteq Members(waitq[d][c]) \ {x}
             /\ \A e \in Members(waitq[d][c]) : Live(e) => e \in Members(waitq'[d][c]) \cup {x}
  <2>1. waitq[d][c] \in Seq(Sudogs) /\ Distinct(waitq[d][c])
    BY <1>1, <1>5 DEF QueueType
  <2>2. waitq'[d][c] = IF \E j \in P \cup {i} : Polls(g, j, d, c) THEN Rest(waitq[d][c])
                                                                  ELSE waitq[d][c]
    BY <1>5 DEF Polled
  <2>3. lock[c] \notin {Nil, g} => waitq'[d][c] = waitq[d][c]
    BY <2>2 DEF Polls
  <2>4. CASE d = d0 /\ c = c0
    <3>1. waitq'[d][c] = Rest(waitq[d][c]) /\ x = Dequeued(waitq[d][c])
      BY <2>2, <2>4 DEF x
    <3>2. HasWaiter(waitq[d][c])
      BY <2>4
    <3>3. /\ Rest(waitq[d][c]) \in Seq(Sudogs)
          /\ Distinct(Rest(waitq[d][c]))
          /\ Members(Rest(waitq[d][c])) \subseteq Members(waitq[d][c])
          /\ x \notin Members(Rest(waitq[d][c]))
          /\ \A e \in Members(waitq[d][c]) : Live(e) => e \in Members(Rest(waitq[d][c])) \/ e = x
      BY <2>1, <3>1, <3>2, RestFacts
    <3> QED BY <2>3, <3>1, <3>3
  <2>5. CASE ~(d = d0 /\ c = c0)
    <3>1. x \notin Members(waitq[d][c]) /\ ~Polls(g, i, d, c)
      BY <1>4, <2>5
    <3>2. CASE \E j \in P : Polls(g, j, d, c)
      <4>1. ~HasWaiter(waitq[d][c]) /\ waitq'[d][c] = Rest(waitq[d][c])
        BY <2>2, <3>2
      <4>2. /\ Rest(waitq[d][c]) = <<>>
            /\ Rest(waitq[d][c]) \in Seq(Sudogs)
            /\ Distinct(Rest(waitq[d][c]))
            /\ Members(Rest(waitq[d][c])) \subseteq Members(waitq[d][c])
            /\ \A e \in Members(waitq[d][c]) : ~Live(e)
        BY <2>1, <4>1, RestFacts
      <4> QED BY <2>3, <3>1, <4>1, <4>2
    <3>3. CASE ~\E j \in P : Polls(g, j, d, c)
      <4>1. waitq'[d][c] = waitq[d][c]
        BY <2>2, <3>1, <3>3
      <4> QED BY <2>1, <2>3, <3>1, <4>1
    <3> QED BY <3>2, <3>3
  <2> QED BY <2>4, <2>5
<1>6. waitq' \in QueueType
  BY <1>5 DEF Polled, QueueType
<1> QED BY <1>2, <1>5, <1>6 DEF Shrinks, QueuesOf, x

-----------------------------------------------------------------------------
(* Wakeups *)

WakeType == [g : Goroutine, casi : Nat, ok : BOOLEAN]

\* One more goroutine is to be woken by g.
LEMMA WakeAdds ==
    ASSUME IInv, NEW g \in Goroutine, NEW W \in WakeType, ~HasWake(W.g),
           wake' = [wake EXCEPT ![g] = <<W>> \o @]
    PROVE  /\ wake' \in [Goroutine -> Seq(WakeType)]
           /\ wake'[g] # <<>>
           /\ \A w \in Goroutine : Distinct(wake'[w])
           /\ \A w \in Goroutine : w # g => wake'[w] = wake[w]
           /\ \A w \in Goroutine : Wakes(w)' = IF w = g THEN Wakes(w) \cup {W} ELSE Wakes(w)
           /\ \A h \in Goroutine : HasWake(h)' <=> HasWake(h) \/ h = W.g
<1>1. wake \in [Goroutine -> Seq(WakeType)] /\ \A w \in Goroutine : Distinct(wake[w])
  BY DEF IInv, TypeOK, WakeType, WakeInv, OneWake
<1>2. W \notin Members(wake[g])
  BY DEF HasWake, Wakes
<1>3. /\ <<W>> \o wake[g] \in Seq(WakeType) /\ <<W>> \o wake[g] # <<>>
      /\ Members(<<W>> \o wake[g]) = Members(wake[g]) \cup {W}
      /\ Distinct(<<W>> \o wake[g])
  BY <1>1, <1>2, PrependAdds
<1>4. wake'[g] = <<W>> \o wake[g] /\ \A w \in Goroutine : w # g => wake'[w] = wake[w]
  BY <1>1
<1>5. wake' \in [Goroutine -> Seq(WakeType)]
  BY <1>1, <1>3
<1>6. \A w \in Goroutine : Wakes(w)' = IF w = g THEN Wakes(w) \cup {W} ELSE Wakes(w)
  <2>1. \A w \in Goroutine : Wakes(w) = Members(wake[w]) /\ Wakes(w)' = Members(wake'[w])
    BY DEF Wakes
  <2> QED BY <1>3, <1>4, <2>1
<1>7. \A w \in Goroutine : Distinct(wake'[w])
  BY <1>1, <1>3, <1>4
<1>8. \A h \in Goroutine : HasWake(h)' <=> HasWake(h) \/ h = W.g
  BY <1>6 DEF HasWake
<1> QED BY <1>3, <1>4, <1>5, <1>6, <1>7, <1>8

\* g has woken the first of those it owes a wakeup.
LEMMA WakeDrops ==
    ASSUME IInv, NEW g \in Goroutine, wake[g] # <<>>,
           wake' = [wake EXCEPT ![g] = Tail(@)]
    PROVE  /\ wake' \in [Goroutine -> Seq(WakeType)]
           /\ Head(wake[g]) \in WakeType /\ Head(wake[g]) \in Wakes(g)
           /\ (Len(wake[g]) = 1) <=> (wake'[g] = <<>>)
           /\ \A w \in Goroutine : Distinct(wake'[w])
           /\ \A w \in Goroutine : w # g => wake'[w] = wake[w]
           /\ \A w \in Goroutine : Wakes(w)' = IF w = g THEN Wakes(w) \ {Head(wake[g])} ELSE Wakes(w)
           /\ \A h \in Goroutine : HasWake(h)' <=> HasWake(h) /\ h # Head(wake[g]).g
<1>1. wake \in [Goroutine -> Seq(WakeType)] /\ \A w \in Goroutine : Distinct(wake[w])
  BY DEF IInv, TypeOK, WakeType, WakeInv, OneWake
<1> DEFINE W == Head(wake[g])
<1>2. /\ Tail(wake[g]) \in Seq(WakeType) /\ W \in WakeType
      /\ W \in Members(wake[g])
      /\ Members(Tail(wake[g])) = Members(wake[g]) \ {W}
      /\ Distinct(Tail(wake[g]))
  BY <1>1, TailRemoves
<1>3. (Len(wake[g]) = 1) <=> (Tail(wake[g]) = <<>>)
  <2>1. wake[g] \in Seq(WakeType)
    BY <1>1
  <2>2. Len(Tail(wake[g])) = Len(wake[g]) - 1 /\ Len(wake[g]) \in Nat /\ Tail(wake[g]) \in Seq(WakeType)
    BY <2>1
  <2>3. (Len(Tail(wake[g])) = 0) <=> (Tail(wake[g]) = <<>>)
    BY <2>2, EmptySeq
  <2> QED BY <2>2, <2>3
<1> HIDE DEF W
<1>4. wake'[g] = Tail(wake[g]) /\ \A w \in Goroutine : w # g => wake'[w] = wake[w]
  BY <1>1
<1>5. wake' \in [Goroutine -> Seq(WakeType)]
  BY <1>1, <1>2
<1>6. \A w \in Goroutine : Wakes(w)' = IF w = g THEN Wakes(w) \ {W} ELSE Wakes(w)
  <2>1. \A w \in Goroutine : Wakes(w) = Members(wake[w]) /\ Wakes(w)' = Members(wake'[w])
    BY DEF Wakes
  <2> QED BY <1>2, <1>4, <2>1
<1>7. \A w \in Goroutine : Distinct(wake'[w])
  BY <1>1, <1>2, <1>4
<1>8. \A h \in Goroutine : HasWake(h)' <=> HasWake(h) /\ h # W.g
  <2>1. \A v, w \in Goroutine : \A e \in Wakes(v), f \in Wakes(w) : e.g = f.g => v = w /\ e = f
    BY DEF IInv, WakeInv, OneWake
  <2>2. W \in Wakes(g)
    BY <1>2 DEF Wakes
  <2> QED BY <1>6, <2>1, <2>2 DEF HasWake
<1> QED BY <1>2, <1>3, <1>4, <1>5, <1>6, <1>7, <1>8 DEF W, Wakes

-----------------------------------------------------------------------------
(* A waiter is signalled *)

\* g takes x off its queue and owes its goroutine a wakeup.
Signals(g, x, ok) ==
    /\ pc[g] \in {"lock", "pass1", "closing"} /\ pc'[g] \in {"ready", "closing"}
    /\ \A h \in Goroutine : h # g => pc'[h] = pc[h]
    /\ op' = op
    /\ \A c \in ChanAddr : closed[c] = 1 => closed'[c] = 1
    /\ Shrinks({x})
    /\ selectDone' = Signalled(x)
    /\ wake' = [wake EXCEPT ![g] = <<Wakeup(x, ok)>> \o @]
    /\ \A h \in Goroutine : h # x.g => /\ param'[h] = param[h] /\ success'[h] = success[h]
                                       /\ elem'[h] = elem[h]

\* Whoever does this keeps the queues and the wakeups in order.
LEMMA SignalStep ==
    ASSUME IInv, NEW g \in Goroutine, NEW d0 \in Dir, NEW c0 \in ChanAddr,
           NEW x \in Members(waitq[d0][c0]), Live(x), pc[x.g] = "parked",
           NEW ok \in BOOLEAN, ok \/ closed'[c0] = 1, Signals(g, x, ok)
    PROVE  /\ WakeInv'
           /\ SudogInv'
           /\ wake' \in [Goroutine -> Seq(WakeType)]
           /\ selectDone' \in [Goroutine -> {0, 1}]
           /\ wake'[g] # <<>>
           /\ \A w \in Goroutine : w # g => wake'[w] = wake[w]
           /\ \A e \in Sudogs : Live(e)' => Live(e)
<1> USE DEF Signals
<1> DEFINE W == Wakeup(x, ok)
<1>1. /\ x \in Sudogs /\ x.g \in Goroutine /\ x.casi \in Nat
      /\ SudogOf(x, d0, c0)
      /\ op[x.g] # NoOp /\ op[x.g].kind \in {"chan", "select"}
      /\ ~HasWake(x.g)
  BY Waiter
<1>2. W \in WakeType /\ W.g = x.g /\ W.casi = x.casi /\ W.ok = ok
  BY <1>1 DEF Wakeup, WakeType
<1> HIDE DEF W
<1>3. x.g # g
  OBVIOUS
<1>4. /\ wake' \in [Goroutine -> Seq(WakeType)]
      /\ wake'[g] # <<>>
      /\ \A w \in Goroutine : Distinct(wake'[w])
      /\ \A w \in Goroutine : w # g => wake'[w] = wake[w]
      /\ \A w \in Goroutine : Wakes(w)' = IF w = g THEN Wakes(w) \cup {W} ELSE Wakes(w)
      /\ \A h \in Goroutine : HasWake(h)' <=> HasWake(h) \/ h = x.g
  <2>1. wake' = [wake EXCEPT ![g] = <<W>> \o @]
    BY DEF W
  <2>2. ~HasWake(W.g)
    BY <1>1, <1>2
  <2>3. /\ wake' \in [Goroutine -> Seq(WakeType)]
        /\ wake'[g] # <<>>
        /\ \A w \in Goroutine : Distinct(wake'[w])
        /\ \A w \in Goroutine : w # g => wake'[w] = wake[w]
        /\ \A w \in Goroutine : Wakes(w)' = IF w = g THEN Wakes(w) \cup {W} ELSE Wakes(w)
        /\ \A h \in Goroutine : HasWake(h)' <=> HasWake(h) \/ h = W.g
    <3> HIDE DEF Signals
    <3> QED BY <1>2, <2>1, <2>2, WakeAdds
  <2> QED BY <1>2, <2>3
<1>5. /\ selectDone' \in [Goroutine -> {0, 1}]
      /\ \A h \in Goroutine : h # x.g => selectDone'[h] = selectDone[h]
      /\ selectDone'[x.g] = IF op[x.g].kind = "select" THEN 1 ELSE selectDone[x.g]
  BY <1>1 DEF Signalled, IInv, TypeOK
<1>6. /\ \A h \in Goroutine : Cases(h)' = Cases(h)
      /\ \A h \in Goroutine, i \in Nat : Case(h, i)' = Case(h, i)
  BY DEF Cases, Case
<1>7. \A h \in Goroutine : op[h] # NoOp => Cases(h) \subseteq Nat
                            /\ \A i \in Cases(h) : Case(h, i).c \in ChanAddr
  BY CallFacts DEF IInv
<1>8. OneWake'
  <2>1. \A v, w \in Goroutine : \A e \in Wakes(v)', f \in Wakes(w)' : e.g = f.g => v = w /\ e = f
    <3>1. \A v, w \in Goroutine : \A e \in Wakes(v), f \in Wakes(w) : e.g = f.g => v = w /\ e = f
      BY DEF IInv, WakeInv, OneWake
    <3>2. \A v \in Goroutine : \A e \in Wakes(v) : e.g # W.g
      BY <1>1, <1>2 DEF HasWake
    <3> QED BY <1>4, <3>1, <3>2
  <2>2. ASSUME NEW v \in Goroutine, NEW e \in Wakes(v)'
        PROVE  /\ pc'[e.g] = "parked"
               /\ e.casi \in Cases(e.g)'
               /\ ~e.ok => closed'[Case(e.g, e.casi)'.c] = 1
    <3>1. CASE e \in Wakes(v)
      <4>1. /\ pc[e.g] = "parked" /\ e.casi \in Cases(e.g)
            /\ ~e.ok => closed[Case(e.g, e.casi).c] = 1
        BY <3>1 DEF IInv, WakeInv, OneWake
      <4>2. e.g \in Goroutine
        <5>1. wake[v] \in Seq(WakeType)
          BY DEF IInv, TypeOK, WakeType
        <5>2. e \in WakeType
          BY <3>1, <5>1, MembersIn DEF Wakes
        <5> QED BY <5>2 DEF WakeType
      <4>3. op[e.g] # NoOp
        BY <4>1, <4>2 DEF IInv, ControlInv, ControlOf
      <4> QED BY <1>6, <1>7, <4>1, <4>2, <4>3
    <3>2. CASE e = W
      <4>1. pc'[x.g] = "parked"
        BY <1>1, <1>3
      <4>2. x.casi \in Cases(x.g)' /\ Case(x.g, x.casi)'.c = c0
        BY <1>1, <1>6 DEF SudogOf
      <4> QED BY <1>2, <3>2, <4>1, <4>2
    <3> QED BY <1>4, <2>2, <3>1, <3>2
  <2> QED BY <1>4, <2>1, <2>2 DEF OneWake
<1>9. ASSUME NEW h \in Goroutine
      PROVE  SignalOf(h)'
  <2>1. SignalOf(h)
    BY DEF IInv, WakeInv
  <2>2. CASE h = x.g
    <3>1. pc'[h] = "parked" /\ HasWake(h)' /\ op'[h] = op[h] /\ op[h] # NoOp
      BY <1>1, <1>3, <1>4, <2>2
    <3>2. (selectDone'[h] = 1) <=> op[h].kind = "select"
      BY <1>1, <1>5, <2>1, <2>2 DEF SignalOf
    <3> QED BY <3>1, <3>2 DEF SignalOf, Woken
  <2>3. CASE h # x.g
    <3>1. HasWake(h)' <=> HasWake(h)
      BY <1>4, <2>3
    <3>2. pc'[h] \in Woken \cup {"return"} <=> pc[h] \in Woken \cup {"return"}
      BY DEF Woken
    <3>3. pc'[h] \in Woken <=> pc[h] \in Woken
      BY DEF Woken
    <3>4. pc[h] \in Woken => op[h] # NoOp
      BY DEF IInv, ControlInv, ControlOf, Woken
    <3> QED BY <1>5, <1>6, <1>7, <2>1, <2>3, <3>1, <3>2, <3>3, <3>4 DEF SignalOf
  <2> QED BY <2>2, <2>3
<1>10. ASSUME NEW d \in Dir, NEW c \in ChanAddr, NEW e \in Members(waitq'[d][c])
       PROVE  SudogOf(e, d, c)'
  <2>1. e \in Members(waitq[d][c]) /\ e # x
    BY DEF Shrinks
  <2>2. /\ e \in Sudogs /\ e.g \in Goroutine /\ e.casi \in Nat
        /\ SudogOf(e, d, c) /\ op[e.g] # NoOp
    BY <2>1, Waiter
  <2>3. e.g = x.g => e.casi # x.casi
    <3>1. e.g = x.g /\ e.casi = x.casi => e = x
      BY <1>1, <2>2 DEF Sudogs
    <3> QED BY <2>1, <3>1
  <2>4. e.g = x.g => op[e.g].kind # "chan"
    <3>1. op[e.g].kind = "chan" => Cases(e.g) = {1}
      BY <2>2, CallFacts DEF IInv
    <3> QED BY <1>1, <2>2, <2>3, <3>1 DEF SudogOf
  <2>5. e.g # g /\ pc'[e.g] = pc[e.g]
    BY <2>2 DEF SudogOf, Woken
  <2>6. \A w \in Goroutine : \A f \in Wakes(w)' : f.g = e.g => f.casi # e.casi
    BY <1>2, <1>4, <2>2, <2>3 DEF SudogOf
  <2>7. pc[e.g] \in Woken => e.g # x.g
    BY DEF Woken
  <2> QED BY <1>4, <1>6, <2>2, <2>4, <2>5, <2>6, <2>7 DEF SudogOf
<1>11. ASSUME NEW h \in Goroutine, pc'[h] = "parked", ~HasWake(h)',
              NEW i \in Cases(h)'
       PROVE  Sudog(h, i) \in Members(waitq'[Case(h, i)'.dir][Case(h, i)'.c])
  <2>1. pc[h] = "parked" /\ ~HasWake(h) /\ h # x.g
    BY <1>4, <1>11
  <2>2. op[h] # NoOp /\ op[h].kind # "close"
    BY <2>1 DEF IInv, ControlInv, ControlOf
  <2>3. i \in Cases(h) /\ Case(h, i)' = Case(h, i) /\ Case(h, i).dir \in Dir /\ Case(h, i).c \in ChanAddr
    BY <1>6, <1>7, <1>11, <2>2, CallFacts DEF IInv
  <2>4. Sudog(h, i) \in Members(waitq[Case(h, i).dir][Case(h, i).c])
    BY <2>1, <2>3 DEF IInv, SudogInv
  <2>5. Sudog(h, i).g = h
    BY DEF Sudog
  <2>6. Live(Sudog(h, i))
    BY <2>1, <2>3, <2>4, <2>5, Waiter
  <2>7. Sudog(h, i) # x
    BY <2>1, <2>5
  <2> QED BY <2>3, <2>4, <2>6, <2>7 DEF Shrinks
<1>12. SudogInv'
  <2>1. \A d \in Dir, c \in ChanAddr : Distinct(waitq'[d][c])
    BY DEF Shrinks
  <2> QED BY <1>10, <1>11, <2>1 DEF SudogInv
<1>13. \A e \in Sudogs : Live(e)' => Live(e)
  BY <1>1, <1>5 DEF Live, Sudogs
<1> QED BY <1>4, <1>5, <1>8, <1>9, <1>12, <1>13 DEF WakeInv

-----------------------------------------------------------------------------
(* What a step of g leaves alone *)

\* h stays where it is, and so do all but g.
Stays(h) ==
    /\ pc'[h] = pc[h] /\ op'[h] = op[h] /\ todo'[h] = todo[h] /\ parking'[h] = parking[h]
    /\ ret'[h] = ret[h] /\ wake'[h] = wake[h]
Others(g) == \A h \in Goroutine : h # g => Stays(h)

\* Nothing reopens a channel.
StaysClosed == \A c \in ChanAddr : closed[c] = 1 => closed'[c] = 1

\* Only locks of g are taken or released.
LocksOf(g) == \A c \in ChanAddr : lock'[c] = lock[c] \/ {lock[c], lock'[c]} \subseteq {Nil, g}

\* The control of a goroutine that stays.
LEMMA StayControl ==
    ASSUME IInv, NEW h \in Goroutine, Stays(h), StaysClosed
    PROVE  ControlOf(h)'
<1>1. ControlOf(h)
  BY DEF IInv, ControlInv
<1>2. op[h] # NoOp => Case(h, 1).c \in ChanAddr
  BY CallFacts DEF IInv
<1>3. /\ pc'[h] = pc[h] /\ op'[h] = op[h] /\ ret'[h] = ret[h] /\ wake'[h] = wake[h]
  BY DEF Stays
<1>4. pc[h] \in {"again", "closing"} => closed'[Case(h, 1).c] = 1
  BY <1>1, <1>2 DEF ControlOf, StaysClosed
<1> QED BY <1>1, <1>3, <1>4 DEF ControlOf, Case

\* Its locks.
LEMMA StayLock ==
    ASSUME IInv, NEW h \in Goroutine, Stays(h), \A c \in ChanAddr : lock'[c] = h <=> lock[c] = h
    PROVE  LockOf(h)'
<1>1. LockOf(h)
  BY DEF IInv, LockInv
<1>2. /\ pc'[h] = pc[h] /\ op'[h] = op[h] /\ todo'[h] = todo[h] /\ parking'[h] = parking[h]
  BY DEF Stays
<1>4. op[h] # NoOp => Channels(h) \subseteq ChanAddr /\ Case(h, 1).c \in ChanAddr
  BY CallFacts DEF IInv
<1>5. Channels(h)' = Channels(h) /\ Case(h, 1)' = Case(h, 1)
  BY <1>2 DEF Channels, Case, Cases
<1>6. pc[h] = "idle" <=> op[h] = NoOp
  BY DEF IInv, ControlInv, ControlOf
<1>7. parking[h] \subseteq ChanAddr
  BY DEF IInv, TypeOK
<1> QED BY <1>1, <1>2, <1>4, <1>5, <1>6, <1>7 DEF LockOf, HoldsAll

\* What it has seen.
LEMMA StayMiss ==
    ASSUME IInv, NEW h \in Goroutine, Stays(h), StaysClosed, Observe
    PROVE  MissOf(h)'
<1>1. MissOf(h)
  BY DEF IInv, MissInv
<1>2. op[h] # NoOp => Case(h, 1).c \in ChanAddr
  BY CallFacts DEF IInv
<1>3. /\ pc'[h] = pc[h] /\ op'[h] = op[h] /\ ret'[h] = ret[h]
  BY DEF Stays
<1>4. /\ missed'[h] = (Blocked(h)' \/ (missed[h] /\ op'[h] # NoOp))
      /\ opened'[h] = (Open(h)' \/ (opened[h] /\ op'[h] # NoOp))
  BY DEF Observe
<1>5. pc[h] = "idle" <=> op[h] = NoOp
  BY DEF IInv, ControlInv, ControlOf
<1>6. Case(h, 1)' = Case(h, 1)
  BY <1>3 DEF Case
<1>7. pc[h] # "idle" /\ closed[Case(h, 1).c] = 1 => closed'[Case(h, 1).c] = 1
  BY <1>2, <1>5 DEF StaysClosed
<1> QED BY <1>1, <1>3, <1>4, <1>5, <1>6, <1>7 DEF MissOf, Defaulted, SendAlone

\* The same, of everybody but g.
LEMMA OtherControl ==
    ASSUME IInv, NEW g, Others(g), StaysClosed, NEW h \in Goroutine, h # g
    PROVE  ControlOf(h)'
  BY StayControl DEF Others

\* Their locks ...
LEMMA OtherLock ==
    ASSUME IInv, NEW g, Others(g), LocksOf(g), NEW h \in Goroutine, h # g
    PROVE  LockOf(h)'
<1>1. \A c \in ChanAddr : lock'[c] = h <=> lock[c] = h
  BY ChanAssumption DEF LocksOf
<1> QED BY <1>1, StayLock DEF Others

\* ... and what they have seen.
LEMMA OtherMiss ==
    ASSUME IInv, NEW g, Others(g), StaysClosed, Observe, NEW h \in Goroutine, h # g
    PROVE  MissOf(h)'
  BY StayMiss DEF Others

\* A call is blocked, or finds its channels open, only if it has recorded it.
LEMMA ObserveType ==
    ASSUME Observe
    PROVE  /\ missed' \in [Goroutine -> BOOLEAN]
           /\ \A h \in Goroutine : Blocked(h)' => missed'[h]
           /\ \A h \in Goroutine : missed[h] /\ op'[h] # NoOp => missed'[h]
           /\ opened' \in [Goroutine -> BOOLEAN]
           /\ \A h \in Goroutine : Open(h)' => opened'[h]
           /\ \A h \in Goroutine : opened[h] /\ op'[h] # NoOp => opened'[h]
  BY DEF Observe

\* A goroutine without sudogs moves; nobody is signalled.
LEMMA QuietStep ==
    ASSUME IInv, NEW g \in Goroutine,
           \A d \in Dir, c \in ChanAddr : \A e \in Members(waitq[d][c]) : e.g # g,
           ~HasWake(g),
           \A h \in Goroutine : h # g =>
              /\ pc'[h] = pc[h] /\ op'[h] = op[h] /\ param'[h] = param[h]
              /\ success'[h] = success[h] /\ elem'[h] = elem[h] /\ selectDone'[h] = selectDone[h],
           pc'[g] \notin {"parked"} \cup Woken, selectDone'[g] = 0,
           elem'[g] = Zero \/ pc'[g] = "return",
           wake' = wake, Shrinks({}), StaysClosed
    PROVE  /\ WakeInv' /\ SudogInv'
           /\ \A d \in Dir, c \in ChanAddr : \A e \in Members(waitq[d][c]) : Live(e)' <=> Live(e)
<1>1. \A w \in Goroutine : Wakes(w)' = Wakes(w)
  BY DEF Wakes
<1>2. \A h \in Goroutine : HasWake(h)' <=> HasWake(h)
  BY <1>1 DEF HasWake
<1>3. /\ \A h \in Goroutine : h # g => Cases(h)' = Cases(h)
      /\ \A h \in Goroutine, i \in Nat : h # g => Case(h, i)' = Case(h, i)
  BY DEF Cases, Case
<1>4. \A h \in Goroutine : op[h] # NoOp =>
         Cases(h) \subseteq Nat /\ \A i \in Cases(h) : Case(h, i).c \in ChanAddr
  BY CallFacts DEF IInv
<1>5. \A h \in Goroutine : pc[h] = "idle" <=> op[h] = NoOp
  BY DEF IInv, ControlInv, ControlOf
<1>6. OneWake'
  <2>1. OneWake
    BY DEF IInv, WakeInv
  <2>2. ASSUME NEW v \in Goroutine, NEW e \in Wakes(v)
        PROVE  /\ pc'[e.g] = "parked" /\ e.casi \in Cases(e.g)'
               /\ ~e.ok => closed'[Case(e.g, e.casi)'.c] = 1
    <3>1. /\ pc[e.g] = "parked" /\ e.casi \in Cases(e.g)
          /\ ~e.ok => closed[Case(e.g, e.casi).c] = 1
      BY <2>1 DEF OneWake
    <3>2. e.g \in Goroutine
      <4>1. wake[v] \in Seq(WakeType)
        BY DEF IInv, TypeOK, WakeType
      <4>2. e \in WakeType
        BY <4>1, MembersIn DEF Wakes
      <4> QED BY <4>2 DEF WakeType
    <3>3. e.g # g
      BY <2>2 DEF HasWake
    <3> QED BY <1>3, <1>4, <1>5, <3>1, <3>2, <3>3 DEF StaysClosed
  <2> QED BY <1>1, <2>1, <2>2 DEF OneWake
<1>7. ASSUME NEW h \in Goroutine
      PROVE  SignalOf(h)'
  <2>1. SignalOf(h)
    BY DEF IInv, WakeInv
  <2>2. CASE h = g
    BY <1>2, <2>2 DEF SignalOf, Woken
  <2>3. CASE h # g
    <3>1. pc[h] \in Woken => op[h] # NoOp
      BY <1>5 DEF Woken
    <3> QED BY <1>2, <1>3, <1>4, <2>1, <2>3, <3>1 DEF SignalOf, StaysClosed
  <2> QED BY <2>2, <2>3
<1>8. ASSUME NEW d \in Dir, NEW c \in ChanAddr, NEW e \in Members(waitq[d][c])
      PROVE  SudogOf(e, d, c)' /\ (Live(e)' <=> Live(e))
  <2>1. /\ e.g \in Goroutine /\ e.casi \in Nat /\ SudogOf(e, d, c)
    BY Waiter
  <2>2. e.g # g
    OBVIOUS
  <2>3. SudogOf(e, d, c)'
    BY <1>1, <1>2, <1>3, <2>1, <2>2 DEF SudogOf
  <2>4. Live(e)' <=> Live(e)
    BY <2>1, <2>2 DEF Live
  <2> QED BY <2>3, <2>4
<1>9. ASSUME NEW h \in Goroutine, pc'[h] = "parked", ~HasWake(h)', NEW i \in Cases(h)'
      PROVE  Sudog(h, i) \in Members(waitq'[Case(h, i)'.dir][Case(h, i)'.c])
  <2>1. h # g /\ pc[h] = "parked" /\ ~HasWake(h)
    BY <1>2, <1>9
  <2>2. op[h] # NoOp /\ op[h].kind # "close"
    BY <2>1 DEF IInv, ControlInv, ControlOf
  <2>3. i \in Cases(h) /\ Case(h, i)' = Case(h, i) /\ Case(h, i).dir \in Dir /\ Case(h, i).c \in ChanAddr
    BY <1>3, <1>4, <1>9, <2>1, <2>2, CallFacts DEF IInv
  <2>4. Sudog(h, i) \in Members(waitq[Case(h, i).dir][Case(h, i).c])
    BY <2>1, <2>3 DEF IInv, SudogInv
  <2>5. Sudog(h, i).g = h
    BY DEF Sudog
  <2>6. Live(Sudog(h, i))
    BY <2>1, <2>3, <2>4, <2>5, Waiter
  <2> QED BY <2>3, <2>4, <2>6 DEF Shrinks
<1>10. SudogInv'
  <2>1. \A d \in Dir, c \in ChanAddr : Distinct(waitq'[d][c]) /\ Members(waitq'[d][c]) \subseteq Members(waitq[d][c])
    BY DEF Shrinks
  <2> QED BY <1>8, <1>9, <2>1 DEF SudogInv
<1> QED BY <1>6, <1>7, <1>8, <1>10 DEF WakeInv

\* The channels after such a step, or after a waiter was signalled.
LEMMA WaitStep ==
    ASSUME IInv, NEW g \in Goroutine, NEW X, Shrinks(X), QueuesOf(g),
           \A h \in Goroutine : h # g => pc'[h] = pc[h] /\ op'[h] = op[h],
           \A d \in Dir, c \in ChanAddr : \A e \in Members(waitq'[d][c]) : Live(e)' => Live(e),
           closed' = closed,
           \A c \in ChanAddr : lock[c] \notin {Nil, g} => qcount'[c] = qcount[c],
           \A c \in ChanAddr : \/ qcount'[c] = qcount[c]
                               \/ \A d \in Dir : \A e \in Members(waitq[d][c]) : ~Live(e),
           pc[g] = "closing" => pc'[g] = "closing" /\ op'[g] = op[g],
           Pass2Of(g)'
    PROVE  WaitInv'
<1>1. \A d \in Dir, c \in ChanAddr : Members(waitq'[d][c]) \subseteq Members(waitq[d][c])
  BY DEF Shrinks
<1>2. ASSUME NEW c \in ChanAddr
      PROVE  WaitOf(c)'
  <2>1. WaitOf(c)
    BY DEF IInv, WaitInv
  <2>2. /\ \A e \in Members(waitq["recv"][c]) : Live(e) =>
              /\ qcount'[c] = 0
              /\ \A f \in Members(waitq["send"][c]) : Live(f) => e.g = f.g
        /\ \A e \in Members(waitq["send"][c]) : Live(e) => qcount'[c] = Cap[c]
    BY <2>1, DirFacts DEF WaitOf
  <2>3. closed'[c] = 1 => \/ \A d \in Dir : Members(waitq'[d][c]) = {}
                          \/ \E h \in Goroutine : pc'[h] = "closing" /\ c = Case(h, 1)'.c
    <3>1. CASE \A d \in Dir : Members(waitq[d][c]) = {}
      BY <1>1, <3>1
    <3>2. CASE \E h \in Goroutine : pc[h] = "closing" /\ c = Case(h, 1).c
      BY <3>2 DEF Case
    <3> QED BY <2>1, <3>1, <3>2 DEF WaitOf
  <2> QED BY <1>1, <2>2, <2>3, DirFacts DEF WaitOf
<1>3. ASSUME NEW h \in Goroutine, h # g
      PROVE  Pass2Of(h)'
  <2> SUFFICES ASSUME pc[h] = "pass2", NEW i \in Cases(h)
               PROVE  /\ closed'[Case(h, i).c] = 0
                      /\ \A e \in Members(waitq'[Other(Case(h, i).dir)][Case(h, i).c]) : e.g = h
                      /\ Case(h, i).dir = "send" => qcount'[Case(h, i).c] = Cap[Case(h, i).c]
                      /\ Case(h, i).dir = "recv" => qcount'[Case(h, i).c] = 0
    BY <1>3 DEF Pass2Of, Cases, Case
  <2>1. Pass2Of(h) /\ LockOf(h) /\ ControlOf(h)
    BY DEF IInv, WaitInv, LockInv, ControlInv
  <2>2. op[h] # NoOp /\ op[h].kind = "select"
    BY <2>1 DEF ControlOf, HoldsAll
  <2>3. Case(h, i).c \in ChanAddr /\ Case(h, i).c \in Channels(h) /\ Case(h, i).dir \in Dir
    BY <2>2, CallFacts DEF IInv
  <2>4. lock[Case(h, i).c] \notin {Nil, g}
    BY <1>3, <2>1, <2>3, ChanAssumption DEF LockOf, HoldsAll
  <2>5. /\ qcount'[Case(h, i).c] = qcount[Case(h, i).c]
        /\ waitq'[Other(Case(h, i).dir)][Case(h, i).c] = waitq[Other(Case(h, i).dir)][Case(h, i).c]
    BY <2>3, <2>4, DirFacts DEF QueuesOf
  <2> QED BY <2>1, <2>5 DEF Pass2Of
<1> QED BY <1>2, <1>3 DEF WaitInv

-----------------------------------------------------------------------------
(* The steps *)

\* A goroutine that is not queued has no sudogs and no wakeup coming.
LEMMA Absent ==
    ASSUME IInv, NEW g \in Goroutine, pc[g] \notin {"pass2", "parked"} \cup Woken
    PROVE  /\ \A d \in Dir, c \in ChanAddr : \A e \in Members(waitq[d][c]) : e.g # g
           /\ ~HasWake(g)
           /\ selectDone[g] = 0
           /\ pc[g] # "return" => elem[g] = Zero
<1>1. \A d \in Dir, c \in ChanAddr : \A e \in Members(waitq[d][c]) : SudogOf(e, d, c)
  BY DEF IInv, SudogInv
<1>2. ~HasWake(g)
  BY DEF IInv, WakeInv, OneWake, HasWake
<1>3. SignalOf(g) /\ selectDone[g] \in {0, 1}
  BY DEF IInv, WakeInv, TypeOK
<1> QED BY <1>1, <1>2, <1>3 DEF SudogOf, SignalOf

\* The types of a channel's own variables.
RingType ==
    /\ \A c \in ChanAddr :
          /\ qcount[c] \in 0..Cap[c]
          /\ buf[c] \in [0..Cap[c]-1 -> Value \cup {Zero}]
          /\ Cap[c] > 0 => sendx[c] \in 0..Cap[c]-1 /\ recvx[c] \in 0..Cap[c]-1
    /\ DOMAIN buf = ChanAddr
    /\ qcount \in [ChanAddr -> Nat]
    /\ sendx \in [ChanAddr -> Nat]
    /\ recvx \in [ChanAddr -> Nat]
    /\ closed \in [ChanAddr -> {0, 1}]

\* A ring that does not change.
LEMMA RingKept ==
    ASSUME IInv, UNCHANGED chanvars
    PROVE  RingExact' /\ RingType'
  BY DEF IInv, TypeOK, RingExact, RingType, chanvars

\* One ring changes.
LEMMA RingOne ==
    ASSUME IInv, NEW c \in ChanAddr, Cap[c] > 0,
           qcount'[c] \in 0..Cap[c], buf'[c] \in [0..Cap[c]-1 -> Value \cup {Zero}],
           sendx'[c] \in 0..Cap[c]-1, recvx'[c] \in 0..Cap[c]-1,
           Ring(buf'[c], Cap[c], qcount'[c], recvx'[c], sendx'[c]),
           \A d \in ChanAddr : d # c => /\ qcount'[d] = qcount[d] /\ buf'[d] = buf[d]
                                        /\ sendx'[d] = sendx[d] /\ recvx'[d] = recvx[d],
           DOMAIN buf' = ChanAddr, qcount' \in [ChanAddr -> Nat], sendx' \in [ChanAddr -> Nat],
           recvx' \in [ChanAddr -> Nat], closed' = closed
    PROVE  RingExact' /\ RingType'
<1>1. RingType /\ RingExact
  BY DEF IInv, TypeOK, RingType
<1>2. RingType'
  <2>1. closed' \in [ChanAddr -> {0, 1}]
    BY <1>1 DEF RingType
  <2>2. ASSUME NEW d \in ChanAddr
        PROVE  /\ qcount'[d] \in 0..Cap[d]
               /\ buf'[d] \in [0..Cap[d]-1 -> Value \cup {Zero}]
               /\ Cap[d] > 0 => sendx'[d] \in 0..Cap[d]-1 /\ recvx'[d] \in 0..Cap[d]-1
    <3>1. CASE d = c
      BY <3>1
    <3>2. CASE d # c
      BY <1>1, <3>2 DEF RingType
    <3> QED BY <3>1, <3>2
  <2> QED BY <2>1, <2>2 DEF RingType
<1>3. ASSUME NEW d \in ChanAddr, Cap[d] > 0
      PROVE  Ring(buf'[d], Cap[d], qcount'[d], recvx'[d], sendx'[d])
  <2>1. CASE d = c
    BY <2>1
  <2>2. CASE d # c
    <3>1. Ring(buf[d], Cap[d], qcount[d], recvx[d], sendx[d])
      BY <1>1, <1>3 DEF Ring, Slot, RingExact
    <3> QED BY <2>2, <3>1
  <2> QED BY <2>1, <2>2
<1>4. RingExact'
  BY <1>3 DEF Ring, Slot, RingExact
<1> QED BY <1>2, <1>4

\* The initial states.
LEMMA InitInv ==
    Init => IInv
<1> SUFFICES ASSUME Init PROVE IInv
  OBVIOUS
<1>1. Dir = {"recv", "send"}
  BY DEF Dir
<1>2. /\ \A d \in Dir, c \in ChanAddr : waitq[d][c] = <<>>
      /\ \A g \in Goroutine : pc[g] = "idle" /\ op[g] = NoOp /\ wake[g] = <<>> /\ todo[g] = {}
                              /\ parking[g] = {} /\ selectDone[g] = 0 /\ elem[g] = Zero
      /\ \A c \in ChanAddr : lock[c] = Nil /\ qcount[c] = 0 /\ closed[c] = 0
  BY DEF Init
<1>3. Members(<<>>) = {} /\ Distinct(<<>>)
  <2>1. DOMAIN <<>> = {}
    OBVIOUS
  <2> QED BY <2>1 DEF Members, Distinct
<1>4. TypeOK
  <2>1. \A c \in ChanAddr : Cap[c] \in Nat
    BY ChanAssumption
  <2>2. \A c \in ChanAddr :
          /\ qcount[c] \in 0..Cap[c]
          /\ buf[c] \in [0..Cap[c]-1 -> Value \cup {Zero}]
          /\ Cap[c] > 0 => sendx[c] \in 0..Cap[c]-1 /\ recvx[c] \in 0..Cap[c]-1
    BY <2>1 DEF Init
  <2>3. waitq \in [Dir -> [ChanAddr -> Seq(Sudogs)]]
    <3>1. <<>> \in Seq(Sudogs)
      OBVIOUS
    <3> QED BY <3>1 DEF Init
  <2>4. wake \in [Goroutine -> Seq([g : Goroutine, casi : Nat, ok : BOOLEAN])]
    <3>1. <<>> \in Seq([g : Goroutine, casi : Nat, ok : BOOLEAN])
      OBVIOUS
    <3> QED BY <3>1 DEF Init
  <2>5. ret \in [Goroutine -> ResultType]
    <3>1. NoRes \in ResultType
      BY DEF NoRes, Res, ResultType
    <3> QED BY <3>1 DEF Init
  <2>6. /\ DOMAIN buf = ChanAddr /\ qcount \in [ChanAddr -> Nat] /\ sendx \in [ChanAddr -> Nat]
        /\ recvx \in [ChanAddr -> Nat] /\ closed \in [ChanAddr -> {0, 1}]
        /\ lock \in [ChanAddr -> Goroutine \cup {Nil}]
        /\ pc \in [Goroutine -> Label]
        /\ selectDone \in [Goroutine -> {0, 1}]
        /\ elem \in [Goroutine -> Value \cup {Zero}]
        /\ param \in [Goroutine -> Nat]
    BY DEF Init, Label
  <2>7. /\ success \in [Goroutine -> BOOLEAN]
        /\ DOMAIN op = Goroutine
        /\ \A g \in Goroutine : op[g] \in Program[g] \cup {NoOp}
        /\ todo \in [Goroutine -> SUBSET ChanAddr]
        /\ parking \in [Goroutine -> SUBSET ChanAddr]
        /\ missed \in [Goroutine -> BOOLEAN] /\ opened \in [Goroutine -> BOOLEAN]
    BY DEF Init
  <2> QED BY <2>2, <2>3, <2>4, <2>5, <2>6, <2>7 DEF TypeOK
<1>5. ControlInv
  BY <1>2 DEF ControlInv, ControlOf, HoldsAll
<1>6. LockInv
  BY <1>2, ChanAssumption DEF LockInv, LockOf, HoldsAll
<1>7. \A g \in Goroutine : Wakes(g) = {} /\ ~HasWake(g)
  BY <1>2, <1>3 DEF Wakes, HasWake
<1>8. WakeInv
  BY <1>2, <1>3, <1>7 DEF WakeInv, OneWake, SignalOf, Woken
<1>9. SudogInv
  BY <1>2, <1>3 DEF SudogInv
<1>10. WaitInv
  BY <1>1, <1>2, <1>3 DEF WaitInv, WaitOf, Pass2Of
<1>11. RingExact
  <2> SUFFICES ASSUME NEW c \in ChanAddr, Cap[c] > 0
               PROVE  /\ sendx[c] = (recvx[c] + qcount[c]) % Cap[c]
                      /\ \A k \in 0..Cap[c]-1 :
                            (buf[c][(recvx[c] + k) % Cap[c]] # Zero) <=> (k < qcount[c])
    BY DEF RingExact
  <2>1. Cap[c] \in Nat /\ recvx[c] = 0 /\ qcount[c] = 0 /\ sendx[c] = 0
    BY ChanAssumption DEF Init
  <2>2. 0 % Cap[c] = 0 /\ \A k \in 0..Cap[c]-1 : (0 + k) % Cap[c] = k
    BY <2>1
  <2>3. \A k \in 0..Cap[c]-1 : buf[c][k] = Zero
    BY DEF Init
  <2> QED BY <2>1, <2>2, <2>3
<1>12. MissInv
  BY <1>2 DEF MissInv, MissOf, Blocked, Defaulted
<1> QED BY <1>4, <1>5, <1>6, <1>8, <1>9, <1>10, <1>11, <1>12 DEF IInv

\* Call: the locks of a select are all still to be taken.
LEMMA CallStep ==
    ASSUME IInv, NEW g \in Goroutine, NEW o \in Program[g], Call(g, o)
    PROVE  IInv'
<1>0. TypeOK
  BY DEF IInv
<1>1. /\ pc[g] = "idle" /\ op' = [op EXCEPT ![g] = o] /\ Observe
      /\ todo' = [todo EXCEPT ![g] = IF o.kind = "select" THEN {o.cases[i].c : i \in DOMAIN o.cases}
                                                         ELSE {}]
      /\ pc' = [pc EXCEPT ![g] = CASE o.kind = "close" -> "close"
                 [] o.kind = "select" -> "sellock"
                 [] OTHER -> IF o.block THEN "lock" ELSE "fast"]
      /\ UNCHANGED <<qcount, buf, sendx, recvx, closed, waitq, lock, parking,
                     selectDone, elem, param, success, wake, ret>>
  BY DEF Call, Goto
<1>2. /\ o # NoOp /\ o.kind \in {"chan", "select", "close"} /\ o.block \in BOOLEAN
      /\ 1 \in DOMAIN o.cases /\ \A i \in DOMAIN o.cases : o.cases[i].c \in ChanAddr
  BY OpFacts
<1>3. /\ op'[g] = o /\ todo'[g] = (IF o.kind = "select" THEN {o.cases[i].c : i \in DOMAIN o.cases} ELSE {})
      /\ pc'[g] \in {"close", "sellock", "lock", "fast"}
      /\ pc'[g] = "close" <=> o.kind = "close"
      /\ pc'[g] = "sellock" <=> o.kind = "select"
      /\ pc'[g] = "fast" => ~o.block
      /\ \A h \in Goroutine : h # g => pc'[h] = pc[h] /\ op'[h] = op[h] /\ todo'[h] = todo[h]
  BY <1>0, <1>1, <1>2 DEF TypeOK
<1>4. /\ Others(g) /\ StaysClosed /\ LocksOf(g) /\ Shrinks({}) /\ QueuesOf(g)
  BY <1>1, <1>3, KeepQueues DEF Others, Stays, StaysClosed, LocksOf
<1>5. TypeOK'
  <2>1. todo' \in [Goroutine -> SUBSET ChanAddr] /\ pc' \in [Goroutine -> Label]
    BY <1>0, <1>1, <1>2 DEF TypeOK, Label
  <2>2. DOMAIN op' = Goroutine /\ \A h \in Goroutine : op'[h] \in Program[h] \cup {NoOp}
    BY <1>0, <1>1, <1>3 DEF TypeOK
  <2>3. missed' \in [Goroutine -> BOOLEAN] /\ opened' \in [Goroutine -> BOOLEAN]
    BY <1>1, ObserveType
  <2> QED BY <1>0, <1>1, <2>1, <2>2, <2>3 DEF TypeOK
<1>6. wake[g] = <<>> /\ parking[g] = {} /\ \A c \in ChanAddr : lock[c] # g
  BY <1>1 DEF IInv, ControlInv, ControlOf, LockInv, LockOf, HoldsAll
<1>7. ControlInv'
  <2>1. ControlOf(g)'
    BY <1>1, <1>2, <1>3, <1>6 DEF ControlOf, HoldsAll
  <2> QED BY <1>4, <2>1, OtherControl DEF ControlInv
<1>8. LockInv'
  <2>1. Channels(g)' = {o.cases[i].c : i \in DOMAIN o.cases}
    BY <1>3 DEF Channels, Cases, Case
  <2>2. o.cases[1].c \in Channels(g)'
    BY <1>2, <2>1
  <2>3. (todo'[g] # {}) <=> pc'[g] = "sellock"
    BY <1>3, <2>1, <2>2
  <2>4. pc'[g] = "sellock" => todo'[g] = Channels(g)'
    BY <1>3, <2>1
  <2>5. LockOf(g)'
    BY <1>1, <1>3, <1>6, <2>3, <2>4 DEF LockOf, HoldsAll
  <2> QED BY <1>4, <2>5, OtherLock DEF LockInv
<1>9. /\ \A d \in Dir, c \in ChanAddr : \A e \in Members(waitq[d][c]) : e.g # g
      /\ ~HasWake(g) /\ selectDone[g] = 0 /\ elem[g] = Zero
  BY <1>1, Absent DEF Woken
<1>10. /\ WakeInv' /\ SudogInv'
       /\ \A d \in Dir, c \in ChanAddr : \A e \in Members(waitq[d][c]) : Live(e)' <=> Live(e)
  <2>1. pc'[g] \notin {"parked"} \cup Woken
    BY <1>3 DEF Woken
  <2> QED BY <1>1, <1>3, <1>4, <1>9, <2>1, QuietStep
<1>11. WaitInv'
  <2>1. Pass2Of(g)'
    BY <1>3 DEF Pass2Of
  <2> QED BY <1>1, <1>3, <1>4, <1>10, <2>1, WaitStep
<1>12. RingExact'
  BY <1>1, RingKept DEF chanvars
<1>13. MissInv'
  <2>1. MissOf(g)'
    BY <1>1, <1>3, ObserveType DEF MissOf, Defaulted, SendAlone
  <2> QED BY <1>1, <1>4, <2>1, OtherMiss DEF MissInv
<1> QED BY <1>5, <1>7, <1>8, <1>10, <1>11, <1>12, <1>13 DEF IInv

\* Whether a case is ready depends on its channel, the queues and who is signalled.
LEMMA ReadySame ==
    ASSUME UNCHANGED <<qcount, closed, waitq, op, selectDone>>
    PROVE  /\ \A k : Ready(k)' <=> Ready(k)
           /\ \A g \in Goroutine : Blocked(g)' <=> Blocked(g)
<1>1. \A q : LiveIn(q)' = LiveIn(q)
  BY DEF LiveIn, Live
<1>2. \A c : HasWaiter(recvq[c])' <=> HasWaiter(recvq[c])
  BY <1>1 DEF HasWaiter, LiveIn, Live, recvq
<1>3. \A c : HasWaiter(sendq[c])' <=> HasWaiter(sendq[c])
  BY <1>1 DEF HasWaiter, LiveIn, Live, sendq
<1>4. \A k : Ready(k)' <=> Ready(k)
  BY <1>2, <1>3 DEF Ready, Sendable, Receivable
<1>5. \A g \in Goroutine : Blocked(g)' <=> Blocked(g)
  BY <1>4 DEF Blocked, Cases, Case
<1> QED BY <1>4, <1>5

\* A test without the lock that is justified in leading to l.
LEMMA TestKeeps ==
    ASSUME IInv, NEW g \in Goroutine, pc[g] \in {"fast", "full", "open", "again"},
           NEW l \in {"full", "open", "again", "lock", "return"}, NEW r \in ResultType,
           Test(g, l, r),
           l = "return" => r.casi >= 0,
           l = "full" => Case(g, 1).dir = "send" /\ closed[Case(g, 1).c] = 0,
           l \in {"open", "again"} => Case(g, 1).dir = "recv",
           l = "again" => closed[Case(g, 1).c] = 1,
           l = "open" => Blocked(g) \/ missed[g] \/ closed[Case(g, 1).c] = 1,
           l = "return" /\ r.casi = 0 =>
              \/ Blocked(g) \/ missed[g]
              \/ pc[g] = "full" /\ closed[Case(g, 1).c] = 1
    PROVE  IInv'
<1>0. TypeOK
  BY DEF IInv
<1>1. /\ pc' = [pc EXCEPT ![g] = l] /\ ret' = [ret EXCEPT ![g] = IF l = "return" THEN r ELSE NoRes]
      /\ UNCHANGED <<qcount, buf, sendx, recvx, closed, waitq, lock, op, todo,
                     parking, selectDone, elem, param, success, wake>>
      /\ Observe
  BY DEF Test, Goto, Returns
<1>2. /\ pc'[g] = l /\ ret'[g] = (IF l = "return" THEN r ELSE NoRes)
      /\ \A h \in Goroutine : h # g => pc'[h] = pc[h] /\ ret'[h] = ret[h]
  BY <1>0, <1>1 DEF TypeOK
<1>3. ControlOf(g) /\ LockOf(g) /\ op[g] # NoOp /\ op[g].kind = "chan" /\ ~op[g].block
  BY DEF IInv, ControlInv, ControlOf, LockInv
<1>4. /\ Others(g) /\ StaysClosed /\ LocksOf(g) /\ Shrinks({}) /\ QueuesOf(g)
  BY <1>1, <1>2, KeepQueues DEF Others, Stays, StaysClosed, LocksOf
<1>5. TypeOK'
  <2>1. ret' \in [Goroutine -> ResultType] /\ pc' \in [Goroutine -> Label]
    BY <1>0, <1>1 DEF TypeOK, Label, ResultType, NoRes, Res
  <2>2. missed' \in [Goroutine -> BOOLEAN] /\ opened' \in [Goroutine -> BOOLEAN]
    BY <1>1, ObserveType
  <2> QED BY <1>0, <1>1, <2>1, <2>2 DEF TypeOK
<1>6. ControlInv'
  <2>1. ControlOf(g)'
    BY <1>1, <1>2, <1>3 DEF ControlOf, HoldsAll, Case
  <2> QED BY <1>4, <2>1, OtherControl DEF ControlInv
<1>7. LockInv'
  <2>1. LockOf(g)'
    BY <1>1, <1>2, <1>3 DEF LockOf, HoldsAll, Channels, Cases, Case
  <2> QED BY <1>4, <2>1, OtherLock DEF LockInv
<1>8. /\ \A d \in Dir, c \in ChanAddr : \A e \in Members(waitq[d][c]) : e.g # g
      /\ ~HasWake(g) /\ selectDone[g] = 0 /\ elem[g] = Zero
  BY Absent DEF Woken
<1>9. /\ WakeInv' /\ SudogInv'
      /\ \A d \in Dir, c \in ChanAddr : \A e \in Members(waitq[d][c]) : Live(e)' <=> Live(e)
  <2>1. pc'[g] \notin {"parked"} \cup Woken
    BY <1>2 DEF Woken
  <2> QED BY <1>1, <1>2, <1>4, <1>8, <2>1, QuietStep
<1>10. WaitInv'
  <2>1. Pass2Of(g)'
    BY <1>2 DEF Pass2Of
  <2> QED BY <1>1, <1>2, <1>4, <1>9, <2>1, WaitStep
<1>11. RingExact'
  BY <1>1, RingKept DEF chanvars
<1>12. MissInv'
  <2>1. Blocked(g)' <=> Blocked(g)
    BY <1>1, ReadySame
  <2>2. Blocked(g) \/ missed[g] => missed'[g]
    BY <1>1, <1>3, <2>1, ObserveType
  <2>3. pc[g] = "full" => opened'[g]
    BY <1>1, <1>3, ObserveType DEF IInv, MissInv, MissOf
  <2>4. l = "full" => opened'[g]
    <3>1. Cases(g) = {1}
      BY <1>0, <1>3, CallFacts
    <3>2. l = "full" => Open(g)'
      BY <1>1, <1>3, <3>1 DEF Open, Cases, Case
    <3> QED BY <1>1, <3>2, ObserveType
  <2>5. MissOf(g)'
    BY <1>1, <1>2, <1>3, <2>1, <2>2, <2>3, <2>4 DEF MissOf, Case, Defaulted, SendAlone, ControlOf, NoRes, Res
  <2> QED BY <1>1, <1>4, <2>5, OtherMiss DEF MissInv
<1> QED BY <1>5, <1>6, <1>7, <1>9, <1>10, <1>11, <1>12 DEF IInv

\* A queue that is empty has no waiter.
LEMMA EmptyQueue ==
    ~HasWaiter(<<>>)
<1>1. DOMAIN <<>> = {}
  OBVIOUS
<1> QED BY <1>1 DEF HasWaiter, LiveIn

\* HasWaiter is about the members of a queue.
LEMMA HasWaiterIs ==
    ASSUME IInv, NEW d \in Dir, NEW c \in ChanAddr
    PROVE  HasWaiter(waitq[d][c]) <=> \E e \in Members(waitq[d][c]) : Live(e)
<1>1. waitq[d][c] \in Seq(Sudogs) /\ Distinct(waitq[d][c])
  BY DEF IInv, TypeOK, SudogInv
<1> QED BY <1>1, RestFacts

\* The lock-free test of a send: a full and open channel blocks the call.
LEMMA FullBlocks ==
    ASSUME IInv, NEW c \in ChanAddr, full(c), closed[c] = 0
    PROVE  ~Sendable(c)
<1>1. qcount[c] \in 0..Cap[c] /\ Cap[c] \in Nat
  BY ChanAssumption DEF IInv, TypeOK
<1>2. HasWaiter(recvq[c]) => qcount[c] = 0
  BY HasWaiterIs, DirFacts DEF IInv, WaitInv, WaitOf, recvq
<1>3. CASE Cap[c] = 0
  BY <1>1, <1>3, EmptyQueue DEF full, Sendable
<1>4. CASE Cap[c] # 0
  BY <1>1, <1>2, <1>4 DEF full, Sendable
<1> QED BY <1>3, <1>4

\* The lock-free test of a receive.
LEMMA EmptyBlocks ==
    ASSUME IInv, NEW c \in ChanAddr, empty(c)
    PROVE  qcount[c] = 0 /\ ~Receivable(c)
<1>1. qcount[c] \in 0..Cap[c] /\ Cap[c] \in Nat
  BY ChanAssumption DEF IInv, TypeOK
<1>2. HasWaiter(sendq[c]) => qcount[c] = Cap[c]
  BY HasWaiterIs, DirFacts DEF IInv, WaitInv, WaitOf, sendq
<1>3. CASE Cap[c] = 0
  BY <1>1, <1>3, EmptyQueue DEF empty, Receivable
<1>4. CASE Cap[c] # 0
  BY <1>1, <1>2, <1>4 DEF empty, Receivable
<1> QED BY <1>3, <1>4

\* chansend's tests without the lock.
LEMMA FastSendStep ==
    ASSUME IInv, NEW g \in Goroutine, FastSend(g)
    PROVE  IInv'
<1> DEFINE c == Case(g, 1).c
<1>1. /\ op[g] # NoOp /\ op[g].kind = "chan" /\ ~op[g].block
  BY DEF FastSend, IInv, ControlInv, ControlOf
<1>2. c \in ChanAddr /\ Cases(g) = {1} /\ closed[c] \in {0, 1}
  BY <1>1, CallFacts DEF IInv, TypeOK
<1>3. Res(0, Zero, FALSE) \in ResultType /\ Res(0, Zero, FALSE).casi = 0 /\ Res(0, Zero, FALSE).casi >= 0 /\ NoRes \in ResultType
  BY DEF Res, ResultType, NoRes
<1>4. Case(g, 1).dir = "send"
  BY DEF FastSend
<1>5. CASE pc[g] = "fast" /\ Test(g, IF closed[c] = 0 THEN "full" ELSE "lock", NoRes)
  <2>1. CASE closed[c] = 0
    BY <1>3, <1>4, <1>5, <2>1, TestKeeps
  <2>2. CASE closed[c] # 0
    BY <1>3, <1>4, <1>5, <2>2, TestKeeps
  <2> QED BY <2>1, <2>2
<1>6. CASE pc[g] = "full" /\ Test(g, IF full(c) THEN "return" ELSE "lock", Res(0, Zero, FALSE))
  <2>1. CASE full(c)
    <3>1. closed[c] = 0 => Blocked(g)
      BY <1>1, <1>2, <1>4, <2>1, FullBlocks DEF Blocked, Ready
    <3> QED BY <1>2, <1>3, <1>4, <1>6, <2>1, <3>1, TestKeeps
  <2>2. CASE ~full(c)
    BY <1>3, <1>4, <1>6, <2>2, TestKeeps
  <2> QED BY <2>1, <2>2
<1> QED BY <1>5, <1>6 DEF FastSend

\* chanrecv's tests without the lock.
LEMMA FastRecvStep ==
    ASSUME IInv, NEW g \in Goroutine, FastRecv(g)
    PROVE  IInv'
<1> DEFINE c == Case(g, 1).c
<1>1. /\ op[g] # NoOp /\ op[g].kind = "chan" /\ ~op[g].block
  BY DEF FastRecv, IInv, ControlInv, ControlOf
<1>2. c \in ChanAddr /\ Cases(g) = {1} /\ closed[c] \in {0, 1}
  BY <1>1, CallFacts DEF IInv, TypeOK
<1>3. /\ Res(0, Zero, FALSE) \in ResultType /\ Res(0, Zero, FALSE).casi = 0 /\ Res(0, Zero, FALSE).casi >= 0 /\ NoRes \in ResultType
      /\ Res(1, Zero, FALSE) \in ResultType /\ Res(1, Zero, FALSE).casi # 0 /\ Res(1, Zero, FALSE).casi >= 0
  BY DEF Res, ResultType, NoRes
<1>4. Case(g, 1).dir = "recv"
  BY DEF FastRecv
<1>5. CASE pc[g] = "fast" /\ Test(g, IF empty(c) THEN "open" ELSE "lock", NoRes)
  <2>1. CASE empty(c)
    <3>1. closed[c] = 0 => Blocked(g)
      BY <1>1, <1>2, <1>4, <2>1, EmptyBlocks DEF Blocked, Ready
    <3> QED BY <1>2, <1>3, <1>4, <1>5, <2>1, <3>1, TestKeeps
  <2>2. CASE ~empty(c)
    BY <1>3, <1>4, <1>5, <2>2, TestKeeps
  <2> QED BY <2>1, <2>2
<1>6. CASE pc[g] = "open" /\ Test(g, IF closed[c] = 0 THEN "return" ELSE "again", Res(0, Zero, FALSE))
  <2>1. missed[g] \/ closed[c] = 1
    BY <1>6 DEF IInv, MissInv, MissOf
  <2>2. CASE closed[c] = 0
    BY <1>3, <1>4, <1>6, <2>1, <2>2, TestKeeps
  <2>3. CASE closed[c] # 0
    BY <1>2, <1>3, <1>4, <1>6, <2>3, TestKeeps
  <2> QED BY <2>2, <2>3
<1>7. CASE pc[g] = "again" /\ Test(g, IF empty(c) THEN "return" ELSE "lock", Res(1, Zero, FALSE))
  <2>1. CASE empty(c)
    BY <1>3, <1>4, <1>7, <2>1, TestKeeps
  <2>2. CASE ~empty(c)
    BY <1>3, <1>4, <1>7, <2>2, TestKeeps
  <2> QED BY <2>1, <2>2
<1> QED BY <1>5, <1>6, <1>7 DEF FastRecv

\* A step that moves nobody in or out of the queues.
LEMMA StillStep ==
    ASSUME IInv, UNCHANGED <<qcount, closed, op, selectDone, elem, param, success, wake>>,
           Shrinks({}),
           \A h \in Goroutine :
              /\ \A l \in {"pass2", "parked", "closing", "return"} : pc'[h] = l <=> pc[h] = l
              /\ pc'[h] \in Woken <=> pc[h] \in Woken
    PROVE  WakeInv' /\ SudogInv' /\ WaitInv'
<1>1. \A w \in Goroutine : Wakes(w)' = Wakes(w)
  BY DEF Wakes
<1>2. \A h : HasWake(h)' <=> HasWake(h)
  BY <1>1 DEF HasWake
<1>3. /\ \A h : Cases(h)' = Cases(h)
      /\ \A h, i : Case(h, i)' = Case(h, i)
      /\ \A e : Live(e)' <=> Live(e)
  BY DEF Cases, Case, Live
<1>4. WakeInv'
  <2>1. WakeInv
    BY DEF IInv
  <2>2. OneWake'
    <3>1. ASSUME NEW v \in Goroutine, NEW e \in Wakes(v)
          PROVE  pc'[e.g] = "parked"
      <4>1. wake[v] \in Seq(WakeType)
        BY DEF IInv, TypeOK, WakeType
      <4>2. e \in WakeType
        BY <4>1, MembersIn DEF Wakes
      <4>3. e.g \in Goroutine
        BY <4>2 DEF WakeType
      <4> QED BY <2>1, <4>3 DEF WakeInv, OneWake
    <3> QED BY <1>1, <1>3, <2>1, <3>1 DEF WakeInv, OneWake
  <2>3. ASSUME NEW h \in Goroutine
        PROVE  SignalOf(h)'
    <3>1. SignalOf(h)
      BY <2>1 DEF WakeInv
    <3> QED BY <1>2, <1>3, <3>1 DEF SignalOf
  <2> QED BY <2>2, <2>3 DEF WakeInv
<1>5. /\ \A d \in Dir, c \in ChanAddr : Distinct(waitq'[d][c])
      /\ \A d \in Dir, c \in ChanAddr : Members(waitq'[d][c]) \subseteq Members(waitq[d][c])
      /\ \A d \in Dir, c \in ChanAddr : \A e \in Members(waitq[d][c]) :
            Live(e) => e \in Members(waitq'[d][c])
  BY DEF Shrinks
<1>6. SudogInv'
  <2>1. ASSUME NEW d \in Dir, NEW c \in ChanAddr, NEW e \in Members(waitq'[d][c])
        PROVE  SudogOf(e, d, c)'
    <3>1. e.g \in Goroutine /\ SudogOf(e, d, c)
      BY <1>5, Waiter
    <3> QED BY <1>1, <1>2, <1>3, <3>1 DEF SudogOf
  <2>2. ASSUME NEW h \in Goroutine, pc[h] = "parked", ~HasWake(h), NEW i \in Cases(h)
        PROVE  Sudog(h, i) \in Members(waitq'[Case(h, i).dir][Case(h, i).c])
    <3>1. op[h] # NoOp /\ op[h].kind # "close"
      BY <2>2 DEF IInv, ControlInv, ControlOf
    <3>2. Case(h, i).dir \in Dir /\ Case(h, i).c \in ChanAddr
      BY <3>1, CallFacts DEF IInv
    <3>3. Sudog(h, i) \in Members(waitq[Case(h, i).dir][Case(h, i).c]) /\ Sudog(h, i).g = h
      BY <2>2 DEF IInv, SudogInv, Sudog
    <3> QED BY <1>5, <2>2, <3>2, <3>3, Waiter
  <2> QED BY <1>2, <1>3, <1>5, <2>1, <2>2 DEF SudogInv
<1>7. WaitInv'
  <2>1. ASSUME NEW c \in ChanAddr
        PROVE  WaitOf(c)'
    <3>1. WaitOf(c)
      BY DEF IInv, WaitInv
    <3> QED BY <1>3, <1>5, <3>1, DirFacts, SMTT(30) DEF WaitOf
  <2>2. ASSUME NEW h \in Goroutine
        PROVE  Pass2Of(h)'
    <3> SUFFICES ASSUME pc[h] = "pass2", NEW i \in Cases(h)
                 PROVE  \A e \in Members(waitq'[Other(Case(h, i).dir)][Case(h, i).c]) : e.g = h
      BY <1>3 DEF IInv, WaitInv, Pass2Of
    <3>1. op[h] # NoOp /\ op[h].kind # "close"
      BY DEF IInv, ControlInv, ControlOf, HoldsAll
    <3>2. Other(Case(h, i).dir) \in Dir /\ Case(h, i).c \in ChanAddr
      BY <3>1, CallFacts, DirFacts DEF IInv
    <3> QED BY <1>5, <3>2 DEF IInv, WaitInv, Pass2Of
  <2> QED BY <2>1, <2>2 DEF WaitInv
<1> QED BY <1>4, <1>6, <1>7

\* sellock: the next lock is higher than those that g holds.
LEMMA SelLockStep ==
    ASSUME IInv, NEW g \in Goroutine, SelLock(g)
    PROVE  IInv'
<1>0. TypeOK /\ ControlOf(g) /\ LockOf(g)
  BY DEF IInv, ControlInv, LockInv
<1> DEFINE c == LockOrder(op[g], todo[g])
<1>1. /\ pc[g] \in {"sellock", "relock"} /\ lock[c] = Nil
      /\ lock' = [lock EXCEPT ![c] = g]
      /\ todo' = [todo EXCEPT ![g] = @ \ {c}]
      /\ pc' = [pc EXCEPT ![g] = IF todo[g] # {c} THEN pc[g]
                                 ELSE IF pc[g] = "sellock" THEN "pass1" ELSE "pass3"]
      /\ UNCHANGED <<qcount, buf, sendx, recvx, closed, waitq, op, parking,
                     selectDone, elem, param, success, wake, ret>>
      /\ Observe
  BY DEF SelLock, Goto
<1>2. op[g] # NoOp /\ op[g].kind = "select" /\ todo[g] # {} /\ todo[g] \subseteq Channels(g)
  BY <1>0, <1>1 DEF ControlOf, LockOf
<1>3. Channels(g) \subseteq ChanAddr /\ Channels(g) \subseteq Nat
  BY <1>0, <1>2, CallFacts
<1>4. c \in todo[g] /\ \A d \in todo[g] : c <= d
  BY <1>2, <1>3, LowestIs DEF LockOrder
<1> HIDE DEF c
<1>5. /\ lock'[c] = g /\ \A d \in ChanAddr : d # c => lock'[d] = lock[d]
      /\ todo'[g] = todo[g] \ {c}
      /\ pc'[g] = (IF todo[g] # {c} THEN pc[g] ELSE IF pc[g] = "sellock" THEN "pass1" ELSE "pass3")
      /\ \A h \in Goroutine : h # g => pc'[h] = pc[h] /\ todo'[h] = todo[h]
  BY <1>0, <1>1, <1>2, <1>3, <1>4 DEF TypeOK
<1>6. Others(g) /\ StaysClosed /\ LocksOf(g)
  BY <1>1, <1>5 DEF Others, Stays, StaysClosed, LocksOf
<1>7. TypeOK'
  <2>1. /\ lock' \in [ChanAddr -> Goroutine \cup {Nil}] /\ todo' \in [Goroutine -> SUBSET ChanAddr]
        /\ pc' \in [Goroutine -> Label]
    BY <1>0, <1>1 DEF TypeOK, Label
  <2>2. missed' \in [Goroutine -> BOOLEAN] /\ opened' \in [Goroutine -> BOOLEAN]
    BY <1>1, ObserveType
  <2> QED BY <1>0, <1>1, <2>1, <2>2 DEF TypeOK
<1>8. ControlInv'
  <2>1. ControlOf(g)'
    BY <1>0, <1>1, <1>2, <1>5 DEF ControlOf, HoldsAll, Case
  <2> QED BY <1>6, <2>1, OtherControl DEF ControlInv
<1>9. LockInv'
  <2>1. Channels(g)' = Channels(g)
    BY <1>1 DEF Channels, Cases, Case
  <2>2. c \notin parking[g]
    BY <1>0, <1>1, ChanAssumption DEF LockOf
  <2>3. \A d \in Channels(g) : d \notin todo'[g] => lock'[d] = g /\ \A e \in todo'[g] : d < e
    <3> SUFFICES ASSUME NEW d \in Channels(g), d \notin todo'[g]
                 PROVE  lock'[d] = g /\ \A e \in todo'[g] : d < e
      OBVIOUS
    <3>1. CASE d = c
      BY <1>2, <1>3, <1>4, <1>5, <3>1
    <3>2. CASE d # c
      <4>1. d \in Channels(g) \ todo[g]
        BY <1>5, <3>2
      <4> QED BY <1>0, <1>1, <1>3, <1>5, <3>2, <4>1 DEF LockOf
    <3> QED BY <3>1, <3>2
  <2>4. (todo'[g] # {}) <=> (pc'[g] \in {"sellock", "relock"})
    BY <1>1, <1>2, <1>4, <1>5
  <2>5. parking[g] # {} => pc[g] = "relock" /\ parking[g] \subseteq todo'[g] /\ parking[g] \subseteq Channels(g)
    BY <1>0, <1>1, <1>5, <2>2 DEF LockOf
  <2>6. parking[g] # {} => pc'[g] = "relock"
    BY <1>1, <1>5, <2>4, <2>5
  <2>7. \A d \in ChanAddr : lock'[d] = g => d \in Channels(g) \ todo'[g] \/ d \in parking[g]
    BY <1>0, <1>1, <1>2, <1>4, <1>5 DEF LockOf, HoldsAll
  <2>8. \A d \in parking[g] : lock'[d] = g
    BY <1>0, <1>2, <1>3, <1>5, <2>2 DEF LockOf
  <2>9. pc'[g] \in {"sellock", "relock", "pass1", "pass3"}
    BY <1>1, <1>5
  <2>10. LockOf(g)'
    BY <1>1, <1>2, <1>5, <2>1, <2>3, <2>4, <2>5, <2>6, <2>7, <2>8, <2>9 DEF LockOf, HoldsAll
  <2> QED BY <1>6, <2>10, OtherLock DEF LockInv
<1>10. WakeInv' /\ SudogInv' /\ WaitInv'
  BY <1>1, <1>5, KeepQueues, StillStep DEF Woken
<1>11. RingExact'
  BY <1>1, RingKept DEF chanvars
<1>12. MissInv'
  <2>1. MissOf(g)'
    BY <1>1, <1>5, ObserveType DEF MissOf, Defaulted, SendAlone
  <2> QED BY <1>1, <1>6, <2>1, OtherMiss DEF MissInv
<1> QED BY <1>7, <1>8, <1>9, <1>10, <1>11, <1>12 DEF IInv

\* selparkcommit releases one lock.
LEMMA ParkCommitStep ==
    ASSUME IInv, NEW g \in Goroutine, ParkCommit(g)
    PROVE  IInv'
<1>0. TypeOK /\ ControlOf(g) /\ LockOf(g)
  BY DEF IInv, ControlInv, LockInv
<1> DEFINE c == LockOrder(op[g], parking[g])
<1>1. /\ parking[g] # {}
      /\ lock' = [lock EXCEPT ![c] = Nil]
      /\ parking' = [parking EXCEPT ![g] = @ \ {c}]
      /\ UNCHANGED <<qcount, buf, sendx, recvx, closed, waitq, pc, op, todo,
                     selectDone, elem, param, success, wake, ret>>
      /\ Observe
  BY DEF ParkCommit
<1>2. /\ pc[g] \in {"parked", "awake", "relock"} /\ op[g] # NoOp /\ parking[g] \subseteq Channels(g)
  BY <1>0, <1>1 DEF ControlOf, LockOf
<1>3. Channels(g) \subseteq ChanAddr /\ Channels(g) \subseteq Nat
  BY <1>0, <1>2, CallFacts
<1>4. c \in parking[g]
  BY <1>1, <1>2, <1>3, LowestIs DEF LockOrder
<1> HIDE DEF c
<1>5. /\ lock'[c] = Nil /\ \A d \in ChanAddr : d # c => lock'[d] = lock[d]
      /\ lock[c] = g
      /\ parking'[g] = parking[g] \ {c}
      /\ \A h \in Goroutine : h # g => parking'[h] = parking[h]
  BY <1>0, <1>1, <1>2, <1>3, <1>4 DEF TypeOK, LockOf
<1>6. Others(g) /\ StaysClosed /\ LocksOf(g)
  BY <1>1, <1>5 DEF Others, Stays, StaysClosed, LocksOf
<1>7. TypeOK'
  <2>1. lock' \in [ChanAddr -> Goroutine \cup {Nil}] /\ parking' \in [Goroutine -> SUBSET ChanAddr]
    BY <1>0, <1>1 DEF TypeOK
  <2>2. missed' \in [Goroutine -> BOOLEAN] /\ opened' \in [Goroutine -> BOOLEAN]
    BY <1>1, ObserveType
  <2> QED BY <1>0, <1>1, <2>1, <2>2 DEF TypeOK
<1>8. ControlInv'
  <2>1. ControlOf(g)'
    BY <1>0, <1>1 DEF ControlOf, Case
  <2> QED BY <1>6, <2>1, OtherControl DEF ControlInv
<1>9. LockInv'
  <2>1. Channels(g)' = Channels(g)
    BY <1>1 DEF Channels, Cases, Case
  <2>2. pc[g] = "relock" => c \in todo[g]
    BY <1>0, <1>4 DEF LockOf
  <2>3. \A d \in parking'[g] : lock'[d] = g
    BY <1>0, <1>2, <1>3, <1>5 DEF LockOf
  <2>4. \A d \in ChanAddr : lock'[d] = g => lock[d] = g /\ d # c
    BY <1>5, ChanAssumption
  <2>5. pc[g] = "relock" => \A d \in Channels(g) \ todo[g] : lock'[d] = g
    BY <1>0, <1>3, <1>5, <2>2 DEF LockOf
  <2>6. LockOf(g)'
    BY <1>0, <1>1, <1>2, <1>5, <2>1, <2>3, <2>4, <2>5 DEF LockOf, HoldsAll, Case
  <2> QED BY <1>6, <2>6, OtherLock DEF LockInv
<1>10. WakeInv' /\ SudogInv' /\ WaitInv'
  BY <1>1, KeepQueues, StillStep
<1>11. RingExact'
  BY <1>1, RingKept DEF chanvars
<1>12. MissInv'
  <2>1. MissOf(g)'
    BY <1>1, <1>2, ObserveType DEF MissOf, Defaulted, SendAlone
  <2> QED BY <1>1, <1>6, <2>1, OtherMiss DEF MissInv
<1> QED BY <1>7, <1>8, <1>9, <1>10, <1>11, <1>12 DEF IInv

\* A selecting goroutine runs again and starts to take its locks.
LEMMA SelectAwakeStep ==
    ASSUME IInv, NEW g \in Goroutine, SelectAwake(g)
    PROVE  IInv'
<1>0. TypeOK /\ ControlOf(g) /\ LockOf(g)
  BY DEF IInv, ControlInv, LockInv
<1>1. /\ pc[g] = "awake" /\ op[g].kind = "select"
      /\ todo' = [todo EXCEPT ![g] = Channels(g)]
      /\ pc' = [pc EXCEPT ![g] = "relock"]
      /\ UNCHANGED <<qcount, buf, sendx, recvx, closed, waitq, lock, op, parking,
                     selectDone, elem, param, success, wake, ret>>
      /\ Observe
  BY DEF SelectAwake, Goto
<1>2. op[g] # NoOp
  BY <1>0, <1>1 DEF ControlOf
<1>3. Channels(g) \subseteq ChanAddr /\ Case(g, 1).c \in Channels(g)
  BY <1>0, <1>2, CallFacts
<1>5. /\ todo'[g] = Channels(g) /\ pc'[g] = "relock"
      /\ \A h \in Goroutine : h # g => pc'[h] = pc[h] /\ todo'[h] = todo[h]
  BY <1>0, <1>1 DEF TypeOK
<1>6. Others(g) /\ StaysClosed /\ LocksOf(g)
  BY <1>1, <1>5 DEF Others, Stays, StaysClosed, LocksOf
<1>7. TypeOK'
  <2>1. todo' \in [Goroutine -> SUBSET ChanAddr] /\ pc' \in [Goroutine -> Label]
    BY <1>0, <1>1, <1>3 DEF TypeOK, Label
  <2>2. missed' \in [Goroutine -> BOOLEAN] /\ opened' \in [Goroutine -> BOOLEAN]
    BY <1>1, ObserveType
  <2> QED BY <1>0, <1>1, <2>1, <2>2 DEF TypeOK
<1>8. ControlInv'
  <2>1. ControlOf(g)'
    BY <1>0, <1>1, <1>2, <1>5 DEF ControlOf, HoldsAll, Case
  <2> QED BY <1>6, <2>1, OtherControl DEF ControlInv
<1>9. LockInv'
  <2>1. Channels(g)' = Channels(g)
    BY <1>1 DEF Channels, Cases, Case
  <2>2. LockOf(g)'
    BY <1>0, <1>1, <1>3, <1>5, <2>1 DEF LockOf, HoldsAll
  <2> QED BY <1>6, <2>2, OtherLock DEF LockInv
<1>10. WakeInv' /\ SudogInv' /\ WaitInv'
  BY <1>1, <1>5, KeepQueues, StillStep DEF Woken
<1>11. RingExact'
  BY <1>1, RingKept DEF chanvars
<1>12. MissInv'
  <2>1. MissOf(g)'
    BY <1>1, <1>5, ObserveType DEF MissOf, Defaulted, SendAlone
  <2> QED BY <1>1, <1>6, <2>1, OtherMiss DEF MissInv
<1> QED BY <1>7, <1>8, <1>9, <1>10, <1>11, <1>12 DEF IInv

\* A goroutine in chansend or chanrecv runs again: nobody else knows it any more, and
\* if it was not successful the channel is closed.
LEMMA AwakeStep ==
    ASSUME IInv, NEW g \in Goroutine, Awake(g)
    PROVE  IInv'
<1>0. TypeOK /\ ControlOf(g) /\ LockOf(g) /\ SignalOf(g)
  BY DEF IInv, ControlInv, LockInv, WakeInv
<1>1. /\ pc[g] = "awake" /\ op[g].kind = "chan"
      /\ pc' = [pc EXCEPT ![g] = IF Case(g, 1).dir = "send" /\ ~success[g] /\ closed[Case(g, 1).c] = 0
                                 THEN "throw" ELSE "return"]
      /\ ret' = [ret EXCEPT ![g] = Res(1, elem[g], success[g])]
      /\ param' = [param EXCEPT ![g] = 0]
      /\ UNCHANGED <<qcount, buf, sendx, recvx, closed, waitq, lock, op, todo,
                     parking, selectDone, elem, success, wake>>
      /\ Observe
  BY DEF Awake, Goto, Returns
<1>2. op[g] # NoOp /\ Cases(g) = {1}
  BY <1>0, <1>1, CallFacts DEF ControlOf
<1>3. ~(~success[g] /\ closed[Case(g, 1).c] = 0)
  BY <1>0, <1>1, <1>2 DEF SignalOf, Woken
<1>4. Res(1, elem[g], success[g]) \in ResultType /\ Res(1, elem[g], success[g]).casi = 1
  BY <1>0 DEF TypeOK, ResultType, Res
<1>5. /\ pc'[g] = "return" /\ ret'[g].casi = 1
      /\ \A h \in Goroutine : h # g => pc'[h] = pc[h] /\ ret'[h] = ret[h] /\ param'[h] = param[h]
  BY <1>0, <1>1, <1>3, <1>4 DEF TypeOK
<1>6. Others(g) /\ StaysClosed /\ LocksOf(g) /\ Shrinks({}) /\ QueuesOf(g)
  BY <1>1, <1>5, KeepQueues DEF Others, Stays, StaysClosed, LocksOf
<1>7. TypeOK'
  <2>1. ret' \in [Goroutine -> ResultType]
    BY <1>0, <1>1, <1>4 DEF TypeOK
  <2>2. pc' \in [Goroutine -> Label] /\ param' \in [Goroutine -> Nat]
    BY <1>0, <1>1 DEF TypeOK, Label
  <2>3. missed' \in [Goroutine -> BOOLEAN] /\ opened' \in [Goroutine -> BOOLEAN]
    BY <1>1, ObserveType
  <2> QED BY <1>0, <1>1, <2>1, <2>2, <2>3 DEF TypeOK
<1>8. ControlInv'
  <2>1. ControlOf(g)'
    BY <1>0, <1>1, <1>2, <1>5 DEF ControlOf, HoldsAll
  <2> QED BY <1>6, <2>1, OtherControl DEF ControlInv
<1>9. LockInv'
  <2>1. LockOf(g)'
    BY <1>0, <1>1, <1>5 DEF LockOf, HoldsAll, Channels, Cases, Case
  <2> QED BY <1>6, <2>1, OtherLock DEF LockInv
<1>10. /\ \A d \in Dir, c \in ChanAddr : \A e \in Members(waitq[d][c]) : e.g # g
       /\ ~HasWake(g) /\ selectDone[g] = 0
  <2>1. \A d \in Dir, c \in ChanAddr : \A e \in Members(waitq[d][c]) : SudogOf(e, d, c)
    BY DEF IInv, SudogInv
  <2>2. ~HasWake(g)
    BY <1>1 DEF IInv, WakeInv, OneWake, HasWake
  <2>3. selectDone[g] \in {0, 1}
    BY <1>0 DEF TypeOK
  <2> QED BY <1>0, <1>1, <2>1, <2>2, <2>3 DEF SudogOf, SignalOf
<1>11. /\ WakeInv' /\ SudogInv'
       /\ \A d \in Dir, c \in ChanAddr : \A e \in Members(waitq[d][c]) : Live(e)' <=> Live(e)
  BY <1>1, <1>5, <1>6, <1>10, QuietStep DEF Woken
<1>12. WaitInv'
  <2>1. Pass2Of(g)'
    BY <1>5 DEF Pass2Of
  <2> QED BY <1>1, <1>5, <1>6, <1>11, <2>1, WaitStep
<1>13. RingExact'
  BY <1>1, RingKept DEF chanvars
<1>14. MissInv'
  <2>1. MissOf(g)'
    BY <1>1, <1>5, ObserveType DEF MissOf, Defaulted, SendAlone
  <2> QED BY <1>1, <1>6, <2>1, OtherMiss DEF MissInv
<1> QED BY <1>7, <1>8, <1>9, <1>11, <1>12, <1>13, <1>14 DEF IInv

\* A call returns, and leaves nothing behind.
LEMMA ReturnStep ==
    ASSUME IInv, NEW g \in Goroutine, Return(g)
    PROVE  IInv'
<1>0. TypeOK /\ ControlOf(g) /\ LockOf(g)
  BY DEF IInv, ControlInv, LockInv
<1>1. /\ pc[g] = "return" /\ pc' = [pc EXCEPT ![g] = "idle"]
      /\ op' = [op EXCEPT ![g] = NoOp]
      /\ ret' = [ret EXCEPT ![g] = NoRes]
      /\ elem' = [elem EXCEPT ![g] = Zero]
      /\ success' = [success EXCEPT ![g] = FALSE]
      /\ UNCHANGED <<qcount, buf, sendx, recvx, closed, waitq, lock, todo,
                     parking, selectDone, param, wake>>
      /\ Observe
  BY DEF Return, Goto, Returns
<1>5. /\ pc'[g] = "idle" /\ op'[g] = NoOp /\ elem'[g] = Zero
      /\ \A h \in Goroutine : h # g => /\ pc'[h] = pc[h] /\ ret'[h] = ret[h] /\ op'[h] = op[h]
                                       /\ elem'[h] = elem[h] /\ success'[h] = success[h]
  BY <1>0, <1>1 DEF TypeOK
<1>6. Others(g) /\ StaysClosed /\ LocksOf(g) /\ Shrinks({}) /\ QueuesOf(g)
  BY <1>1, <1>5, KeepQueues DEF Others, Stays, StaysClosed, LocksOf
<1>7. TypeOK'
  <2>1. ret' \in [Goroutine -> ResultType]
    BY <1>0, <1>1 DEF TypeOK, ResultType, NoRes, Res
  <2>2. pc' \in [Goroutine -> Label] /\ elem' \in [Goroutine -> Value \cup {Zero}]
    BY <1>0, <1>1 DEF TypeOK, Label
  <2>3. missed' \in [Goroutine -> BOOLEAN] /\ opened' \in [Goroutine -> BOOLEAN]
    BY <1>1, ObserveType
  <2>4. success' \in [Goroutine -> BOOLEAN]
    BY <1>0, <1>1 DEF TypeOK
  <2>5. DOMAIN op' = Goroutine /\ \A h \in Goroutine : op'[h] \in Program[h] \cup {NoOp}
    BY <1>0, <1>1, <1>5 DEF TypeOK
  <2> QED BY <1>0, <1>1, <2>1, <2>2, <2>3, <2>4, <2>5 DEF TypeOK
<1>8. ControlInv'
  <2>1. ControlOf(g)'
    BY <1>0, <1>1, <1>5 DEF ControlOf, HoldsAll
  <2> QED BY <1>6, <2>1, OtherControl DEF ControlInv
<1>9. LockInv'
  <2>1. LockOf(g)'
    BY <1>0, <1>1, <1>5 DEF LockOf, HoldsAll
  <2> QED BY <1>6, <2>1, OtherLock DEF LockInv
<1>10. /\ \A d \in Dir, c \in ChanAddr : \A e \in Members(waitq[d][c]) : e.g # g
       /\ ~HasWake(g) /\ selectDone[g] = 0
  BY <1>1, Absent DEF Woken
<1>11. /\ WakeInv' /\ SudogInv'
       /\ \A d \in Dir, c \in ChanAddr : \A e \in Members(waitq[d][c]) : Live(e)' <=> Live(e)
  BY <1>1, <1>5, <1>6, <1>10, QuietStep DEF Woken
<1>12. WaitInv'
  <2>1. Pass2Of(g)'
    BY <1>5 DEF Pass2Of
  <2> QED BY <1>1, <1>5, <1>6, <1>11, <2>1, WaitStep
<1>13. RingExact'
  BY <1>1, RingKept DEF chanvars
<1>14. MissInv'
  <2>1. MissOf(g)'
    BY <1>1, <1>5, ObserveType DEF MissOf, Defaulted, SendAlone
  <2> QED BY <1>1, <1>6, <2>1, OtherMiss DEF MissInv
<1> QED BY <1>7, <1>8, <1>9, <1>11, <1>12, <1>13, <1>14 DEF IInv

\* goready: the wakeup reaches a goroutine that is parked.
LEMMA GoreadyStep ==
    ASSUME IInv, NEW g \in Goroutine, Goready(g)
    PROVE  IInv'
<1>a. PICK W : W = Head(wake[g])
  OBVIOUS
<1>b. PICK h : h = W.g
  OBVIOUS
<1>0. TypeOK /\ ControlOf(g) /\ LockOf(g)
  BY DEF IInv, ControlInv, LockInv
<1>1. /\ pc[g] = "ready"
      /\ pc' = [pc EXCEPT ![h] = IF pc[h] = "parked" THEN "awake" ELSE "throw",
                          ![g] = IF Len(wake[g]) = 1 THEN "return" ELSE "ready"]
      /\ param' = [param EXCEPT ![h] = W.casi]
      /\ success' = [success EXCEPT ![h] = W.ok]
      /\ wake' = [wake EXCEPT ![g] = Tail(@)]
      /\ UNCHANGED <<qcount, buf, sendx, recvx, closed, waitq, lock, op, todo,
                     parking, selectDone, elem, ret>>
      /\ Observe
  BY <1>a, <1>b DEF Goready
<1>2. wake[g] # <<>>
  BY <1>0, <1>1 DEF ControlOf
<1>3. /\ wake' \in [Goroutine -> Seq(WakeType)]
      /\ W \in WakeType /\ W \in Wakes(g)
      /\ (Len(wake[g]) = 1) <=> (wake'[g] = <<>>)
      /\ \A w \in Goroutine : Distinct(wake'[w])
      /\ \A w \in Goroutine : w # g => wake'[w] = wake[w]
      /\ \A w \in Goroutine : Wakes(w)' = IF w = g THEN Wakes(w) \ {W} ELSE Wakes(w)
      /\ \A k \in Goroutine : HasWake(k)' <=> HasWake(k) /\ k # h
  BY <1>1, <1>2, <1>a, <1>b, WakeDrops
<1>4. h \in Goroutine /\ W.casi \in Nat /\ W.ok \in BOOLEAN
  BY <1>3, <1>b DEF WakeType
<1>5. /\ pc[h] = "parked" /\ W.casi \in Cases(h) /\ (~W.ok => closed[Case(h, W.casi).c] = 1)
      /\ HasWake(h) /\ h # g
  BY <1>1, <1>3, <1>b DEF IInv, WakeInv, OneWake, HasWake
<1>6. /\ pc'[h] = "awake" /\ param'[h] = W.casi /\ success'[h] = W.ok
      /\ pc'[g] = IF Len(wake[g]) = 1 THEN "return" ELSE "ready"
      /\ \A k \in Goroutine : k # g /\ k # h => pc'[k] = pc[k]
      /\ \A k \in Goroutine : k # h => param'[k] = param[k] /\ success'[k] = success[k]
  BY <1>0, <1>1, <1>4, <1>5 DEF TypeOK
<1>7. /\ \A k \in Goroutine : k # g /\ k # h => Stays(k)
      /\ StaysClosed
      /\ \A k \in Goroutine : Cases(k)' = Cases(k)
      /\ \A k, i : Case(k, i)' = Case(k, i)
      /\ \A e : Live(e)' <=> Live(e)
  BY <1>1, <1>3, <1>6 DEF Stays, StaysClosed, Cases, Case, Live
<1>c. pc'[g] \in {"return", "ready"} /\ (pc'[g] = "return" <=> wake'[g] = <<>>)
  BY <1>3, <1>6
<1>d. ret[g].casi > 0 /\ ret[g].casi >= 0 /\ ret[g].casi # 0
  <2>1. ret[g].casi > 0 /\ ret[g].casi \in Int
    BY <1>0, <1>1 DEF ControlOf, TypeOK, ResultType
  <2> QED BY <2>1
<1>8. TypeOK'
  <2>1. pc' \in [Goroutine -> Label] /\ param' \in [Goroutine -> Nat]
    BY <1>0, <1>1, <1>4 DEF TypeOK, Label
  <2>2. success' \in [Goroutine -> BOOLEAN]
    BY <1>0, <1>1, <1>4 DEF TypeOK
  <2>3. missed' \in [Goroutine -> BOOLEAN] /\ opened' \in [Goroutine -> BOOLEAN]
    BY <1>1, ObserveType
  <2>4. wake' \in [Goroutine -> Seq([g : Goroutine, casi : Nat, ok : BOOLEAN])]
    BY <1>3 DEF WakeType
  <2> QED BY <1>0, <1>1, <2>1, <2>2, <2>3, <2>4 DEF TypeOK
<1>9. ControlOf(h) /\ LockOf(h) /\ wake[h] = <<>> /\ op[h] # NoOp
  BY <1>4, <1>5 DEF IInv, ControlInv, ControlOf, LockInv
<1>10. ControlInv'
  <2>1. ControlOf(g)'
    BY <1>0, <1>1, <1>3, <1>c, <1>d DEF ControlOf, HoldsAll
  <2>2. ControlOf(h)'
    BY <1>1, <1>3, <1>4, <1>5, <1>6, <1>9 DEF ControlOf, HoldsAll
  <2> QED BY <1>7, <2>1, <2>2, StayControl DEF ControlInv
<1>11. LockInv'
  <2>1. LockOf(g)'
    BY <1>0, <1>1, <1>6 DEF LockOf, HoldsAll
  <2>2. LockOf(h)'
    <3>1. Channels(h)' = Channels(h)
      BY <1>4, <1>7 DEF Channels
    <3> QED BY <1>1, <1>5, <1>6, <1>9, <3>1 DEF LockOf, HoldsAll
  <2> QED BY <1>1, <1>7, <2>1, <2>2, StayLock DEF LockInv
<1>12. OneWake'
  <2>1. OneWake
    BY DEF IInv, WakeInv
  <2>2. \A v \in Goroutine : Wakes(v)' \subseteq Wakes(v)
    BY <1>3
  <2>3. ASSUME NEW v \in Goroutine, NEW e \in Wakes(v)'
        PROVE  pc'[e.g] = "parked" /\ e.casi \in Cases(e.g)'
               /\ (~e.ok => closed'[Case(e.g, e.casi)'.c] = 1)
    <3>1. /\ e \in Wakes(v) /\ pc[e.g] = "parked" /\ e.casi \in Cases(e.g)
          /\ ~e.ok => closed[Case(e.g, e.casi).c] = 1
      BY <2>1, <2>2 DEF OneWake
    <3>2. e.g \in Goroutine
      <4>1. wake[v] \in Seq(WakeType)
        BY <1>0 DEF TypeOK, WakeType
      <4>2. e \in WakeType
        BY <3>1, <4>1, MembersIn DEF Wakes
      <4> QED BY <4>2 DEF WakeType
    <3>3. e.g # h
      BY <1>3, <1>b, <2>1, <3>1 DEF OneWake
    <3> QED BY <1>1, <1>6, <1>7, <3>1, <3>2, <3>3
  <2> QED BY <1>3, <2>1, <2>2, <2>3 DEF OneWake
<1>13. ASSUME NEW k \in Goroutine
       PROVE  SignalOf(k)'
  <2>1. SignalOf(k)
    BY DEF IInv, WakeInv
  <2>2. CASE k = h
    BY <1>1, <1>3, <1>4, <1>5, <1>6, <1>7, <2>1, <2>2 DEF SignalOf, Woken
  <2>3. CASE k = g
    <3>1. ~HasWake(g) /\ selectDone[g] = 0 /\ elem[g] = Zero
      BY <1>1, Absent DEF Woken
    <3>2. pc'[g] \notin Woken /\ ~HasWake(g)' /\ selectDone'[g] = 0 /\ elem'[g] = Zero
      BY <1>1, <1>3, <1>6, <3>1 DEF Woken
    <3> QED BY <2>3, <3>2 DEF SignalOf
  <2>4. CASE k # h /\ k # g
    BY <1>1, <1>3, <1>6, <1>7, <2>1, <2>4, ZenonT(40) DEF SignalOf
  <2> QED BY <2>2, <2>3, <2>4
<1>14. SudogInv'
  <2>1. ASSUME NEW d \in Dir, NEW c \in ChanAddr, NEW e \in Members(waitq[d][c])
        PROVE  SudogOf(e, d, c)'
    <3>1. e.g \in Goroutine /\ SudogOf(e, d, c)
      BY Waiter
    <3>2. e.g # g
      BY <1>1, <3>1 DEF SudogOf, Woken
    <3>3. \A w \in Goroutine : \A f \in Wakes(w)' : f.g = e.g => f.casi # e.casi
      BY <1>3, <3>1 DEF SudogOf
    <3>4. CASE e.g = h
      <4>1. op[h].kind # "chan" /\ e.casi # W.casi
        BY <1>3, <1>5, <1>b, <3>1, <3>4 DEF SudogOf
      <4> QED BY <1>1, <1>6, <1>7, <3>1, <3>3, <3>4, <4>1 DEF SudogOf, Woken
    <3>5. CASE e.g # h
      BY <1>1, <1>3, <1>6, <1>7, <3>1, <3>2, <3>3, <3>5 DEF SudogOf
    <3> QED BY <3>4, <3>5
  <2>2. \A d \in Dir, c \in ChanAddr : Distinct(waitq[d][c])
    BY DEF IInv, SudogInv
  <2>3. ASSUME NEW k \in Goroutine, pc'[k] = "parked", ~HasWake(k)'
        PROVE  \A i \in Cases(k) : Sudog(k, i) \in Members(waitq[Case(k, i).dir][Case(k, i).c])
    <3>1. pc[k] = "parked" /\ ~HasWake(k)
      BY <1>3, <1>6, <2>3
    <3> QED BY <3>1 DEF IInv, SudogInv
  <2> QED BY <1>1, <1>7, <2>1, <2>2, <2>3 DEF SudogInv
<1>15. WaitInv'
  <2>1. \A k \in Goroutine, l \in {"closing", "pass2"} : pc'[k] = l <=> pc[k] = l
    BY <1>1, <1>5, <1>6, <1>c
  <2>2. ASSUME NEW c \in ChanAddr
        PROVE  WaitOf(c)'
    <3>1. WaitOf(c)
      BY DEF IInv, WaitInv
    <3> QED BY <1>1, <1>7, <2>1, <3>1 DEF WaitOf
  <2>3. \A k \in Goroutine : Pass2Of(k)'
    BY <1>1, <1>7, <2>1 DEF IInv, WaitInv, Pass2Of
  <2> QED BY <2>2, <2>3 DEF WaitInv
<1>16. RingExact'
  BY <1>1, RingKept DEF chanvars
<1>17. MissInv'
  <2>1. MissOf(g)'
    BY <1>1, <1>c, <1>d, ObserveType DEF MissOf, Defaulted, SendAlone
  <2>2. MissOf(h)'
    BY <1>1, <1>4, <1>6, ObserveType DEF MissOf, Defaulted, SendAlone
  <2> QED BY <1>1, <1>7, <2>1, <2>2, StayMiss DEF MissInv
<1> QED BY <1>8, <1>10, <1>11, <1>12, <1>13, <1>14, <1>15, <1>16, <1>17 DEF IInv, WakeInv

\* closechan sets the flag under the lock: from now on g is responsible for the waiters.
LEMMA CloseLockStep ==
    ASSUME IInv, NEW g \in Goroutine, CloseLock(g)
    PROVE  IInv'
<1>0. TypeOK /\ ControlOf(g) /\ LockOf(g)
  BY DEF IInv, ControlInv, LockInv
<1>a. PICK c : c = Case(g, 1).c
  OBVIOUS
<1>1. /\ pc[g] = "close" /\ lock[c] = Nil
      /\ ret' = [ret EXCEPT ![g] = Res(1, Zero, closed[c] = 0)]
      /\ IF closed[c] = 1
         THEN pc' = [pc EXCEPT ![g] = "return"] /\ closed' = closed /\ lock' = lock
         ELSE /\ pc' = [pc EXCEPT ![g] = "closing"]
              /\ closed' = [closed EXCEPT ![c] = 1]
              /\ lock' = [lock EXCEPT ![c] = g]
      /\ UNCHANGED <<qcount, buf, sendx, recvx, waitq, op, todo, parking,
                     selectDone, elem, param, success, wake>>
      /\ Observe
  BY <1>a DEF CloseLock, Goto, Returns
<1>2. op[g] # NoOp /\ op[g].kind = "close" /\ c \in ChanAddr
  BY <1>0, <1>1, <1>a, CallFacts DEF ControlOf
<1>3. Res(1, Zero, closed[c] = 0) \in ResultType /\ Res(1, Zero, closed[c] = 0).casi = 1
  BY DEF ResultType, Res
<1>4. closed[c] \in {0, 1}
  BY <1>0, <1>2 DEF TypeOK
<1>5. /\ ret'[g].casi = 1
      /\ pc'[g] = IF closed[c] = 1 THEN "return" ELSE "closing"
      /\ closed'[c] = 1 /\ \A d \in ChanAddr : d # c => closed'[d] = closed[d] /\ lock'[d] = lock[d]
      /\ lock'[c] = IF closed[c] = 1 THEN Nil ELSE g
      /\ \A h \in Goroutine : h # g => pc'[h] = pc[h] /\ ret'[h] = ret[h]
      /\ Case(g, 1)' = Case(g, 1)
  BY <1>0, <1>1, <1>2, <1>3, <1>4 DEF TypeOK, Case
<1>6. Others(g) /\ StaysClosed /\ LocksOf(g) /\ Shrinks({}) /\ QueuesOf(g)
  BY <1>1, <1>2, <1>5, KeepQueues DEF Others, Stays, StaysClosed, LocksOf
<1>7. TypeOK'
  <2>1. ret' \in [Goroutine -> ResultType]
    BY <1>0, <1>1, <1>3 DEF TypeOK
  <2>2. /\ pc' \in [Goroutine -> Label] /\ closed' \in [ChanAddr -> {0, 1}]
        /\ lock' \in [ChanAddr -> Goroutine \cup {Nil}]
    BY <1>0, <1>1, <1>2, ZenonT(40) DEF TypeOK, Label
  <2>3. missed' \in [Goroutine -> BOOLEAN] /\ opened' \in [Goroutine -> BOOLEAN]
    BY <1>1, ObserveType
  <2> QED BY <1>0, <1>1, <2>1, <2>2, <2>3 DEF TypeOK
<1>8. ControlInv'
  <2>1. ControlOf(g)'
    BY <1>0, <1>1, <1>2, <1>5, <1>a DEF ControlOf, HoldsAll
  <2> QED BY <1>6, <2>1, OtherControl DEF ControlInv
<1>9. LockInv'
  <2>1. LockOf(g)'
    BY <1>0, <1>1, <1>2, <1>5, <1>a, ChanAssumption DEF LockOf, HoldsAll
  <2> QED BY <1>6, <2>1, OtherLock DEF LockInv
<1>10. /\ \A d \in Dir, b \in ChanAddr : \A e \in Members(waitq[d][b]) : e.g # g
       /\ ~HasWake(g) /\ selectDone[g] = 0 /\ elem[g] = Zero
  BY <1>1, Absent DEF Woken
<1>11. /\ WakeInv' /\ SudogInv'
       /\ \A d \in Dir, b \in ChanAddr : \A e \in Members(waitq[d][b]) : Live(e)' <=> Live(e)
  <2>1. pc'[g] \notin {"parked"} \cup Woken
    BY <1>5 DEF Woken
  <2> QED BY <1>1, <1>5, <1>6, <1>10, <2>1, QuietStep
<1>12. WaitInv'
  <2>1. ASSUME NEW b \in ChanAddr
        PROVE  WaitOf(b)'
    <3>1. WaitOf(b)
      BY DEF IInv, WaitInv
    <3>2. closed'[b] = 1 => \/ \A d \in Dir : Members(waitq[d][b]) = {}
                            \/ \E h \in Goroutine : pc'[h] = "closing" /\ b = Case(h, 1)'.c
      <4>1. CASE b = c /\ closed[c] # 1
        BY <1>5, <1>a, <4>1
      <4>2. CASE b # c \/ closed[c] = 1
        <5>1. closed[b] = closed'[b]
          BY <1>5, <4>2
        <5>2. \A h \in Goroutine : pc[h] = "closing" => pc'[h] = "closing" /\ Case(h, 1)' = Case(h, 1)
          BY <1>1, <1>5 DEF Case
        <5> QED BY <3>1, <5>1, <5>2 DEF WaitOf
      <4> QED BY <4>1, <4>2
    <3> QED BY <1>1, <1>11, <3>1, <3>2, DirFacts DEF WaitOf
  <2>2. ASSUME NEW h \in Goroutine
        PROVE  Pass2Of(h)'
    <3> SUFFICES ASSUME pc'[h] = "pass2", NEW i \in Cases(h)
                 PROVE  closed'[Case(h, i).c] = closed[Case(h, i).c] /\ pc[h] = "pass2"
      BY <1>1 DEF IInv, WaitInv, Pass2Of, Cases, Case
    <3>1. h # g /\ pc[h] = "pass2"
      BY <1>5
    <3>2. op[h] # NoOp /\ \A b \in Channels(h) : lock[b] = h
      BY <3>1 DEF IInv, ControlInv, ControlOf, LockInv, LockOf, HoldsAll
    <3>3. Case(h, i).c \in ChanAddr /\ lock[Case(h, i).c] = h
      BY <3>2, CallFacts DEF IInv
    <3> QED BY <1>1, <1>5, <3>1, <3>3, ChanAssumption
  <2> QED BY <2>1, <2>2 DEF WaitInv
<1>13. RingExact'
  BY <1>1 DEF IInv, RingExact
<1>14. MissInv'
  <2>1. MissOf(g)'
    BY <1>1, <1>5, ObserveType DEF MissOf, Defaulted, SendAlone
  <2> QED BY <1>1, <1>6, <2>1, OtherMiss DEF MissInv
<1> QED BY <1>7, <1>8, <1>9, <1>11, <1>12, <1>13, <1>14 DEF IInv

\* closechan takes one waiter off a queue.
LEMMA ReleaseStep ==
    ASSUME IInv, NEW g \in Goroutine, pc[g] = "closing", NEW d0 \in Dir,
           NEW x \in Members(waitq[d0][Case(g, 1).c]), Live(x),
           Release(g, x), Shrinks({x}), QueuesOf(g),
           UNCHANGED <<qcount, buf, sendx, recvx, closed, op, todo, parking, ret>>, Observe
    PROVE  IInv'
<1>0. TypeOK /\ ControlOf(g) /\ LockOf(g)
  BY DEF IInv, ControlInv, LockInv
<1>a. PICK c : c = Case(g, 1).c
  OBVIOUS
<1>1. /\ selectDone' = Signalled(x)
      /\ elem' = [elem EXCEPT ![x.g] = Zero]
      /\ param' = [param EXCEPT ![x.g] = x.casi]
      /\ success' = [success EXCEPT ![x.g] = FALSE]
      /\ wake' = [wake EXCEPT ![g] = <<Wakeup(x, FALSE)>> \o @]
      /\ lock' = lock /\ pc' = pc
  BY DEF Release
<1>2. op[g] # NoOp /\ op[g].kind = "close" /\ c \in ChanAddr /\ lock[c] = g /\ closed[c] = 1
  BY <1>0, <1>a, CallFacts DEF ControlOf, LockOf
<1>3. /\ x \in Sudogs /\ x.g \in Goroutine /\ x.casi \in Nat /\ x \in Members(waitq[d0][c])
      /\ pc[x.g] = "parked"
  <2>1. /\ x \in Sudogs /\ x.g \in Goroutine /\ x.casi \in Nat
        /\ pc[x.g] \in {"pass2", "parked"}
        /\ pc[x.g] \in {"pass2", "pass3"} => lock[c] = x.g
    BY <1>2, <1>a, Waiter
  <2> QED BY <1>2, <1>a, <2>1
<1>4. \A h \in Goroutine : h # x.g => param'[h] = param[h] /\ success'[h] = success[h] /\ elem'[h] = elem[h]
  BY <1>0, <1>1 DEF TypeOK
<1>5. /\ WakeInv' /\ SudogInv'
      /\ wake' \in [Goroutine -> Seq(WakeType)]
      /\ selectDone' \in [Goroutine -> {0, 1}]
      /\ wake'[g] # <<>>
      /\ \A w \in Goroutine : w # g => wake'[w] = wake[w]
      /\ \A e \in Sudogs : Live(e)' => Live(e)
  <2>1. closed'[c] = 1
    BY <1>2
  <2>2. Signals(g, x, FALSE)
    BY <1>1, <1>4 DEF Signals
  <2> QED BY <1>2, <1>3, <2>1, <2>2, SignalStep
<1>6. Others(g) /\ StaysClosed /\ LocksOf(g)
  BY <1>1, <1>5 DEF Others, Stays, StaysClosed, LocksOf
<1>7. TypeOK'
  <2>1. /\ elem' \in [Goroutine -> Value \cup {Zero}] /\ param' \in [Goroutine -> Nat]
    BY <1>0, <1>1, <1>3 DEF TypeOK
  <2>2. missed' \in [Goroutine -> BOOLEAN] /\ opened' \in [Goroutine -> BOOLEAN]
    BY ObserveType
  <2>3. success' \in [Goroutine -> BOOLEAN]
    BY <1>0, <1>1, <1>3 DEF TypeOK
  <2>4. waitq' \in [Dir -> [ChanAddr -> Seq(Sudogs)]]
    BY DEF Shrinks, QueueType
  <2>5. wake' \in [Goroutine -> Seq([g : Goroutine, casi : Nat, ok : BOOLEAN])]
    BY <1>5 DEF WakeType
  <2> QED BY <1>0, <1>1, <1>5, <2>1, <2>2, <2>3, <2>4, <2>5 DEF TypeOK
<1>8. ControlInv'
  <2>1. ControlOf(g)'
    BY <1>0, <1>1 DEF ControlOf, HoldsAll, Case
  <2> QED BY <1>6, <2>1, OtherControl DEF ControlInv
<1>9. LockInv'
  <2>1. LockOf(g)'
    BY <1>0, <1>1 DEF LockOf, HoldsAll, Channels, Cases, Case
  <2> QED BY <1>6, <2>1, OtherLock DEF LockInv
<1>10. WaitInv'
  <2>1. Pass2Of(g)'
    BY <1>1 DEF Pass2Of
  <2>2. \A d \in Dir, b \in ChanAddr : \A e \in Members(waitq'[d][b]) : Live(e)' => Live(e)
    <3>1. \A d \in Dir, b \in ChanAddr : Members(waitq'[d][b]) \subseteq Sudogs
      BY ShrunkType
    <3> QED BY <1>5, <3>1
  <2> QED BY <1>1, <2>1, <2>2, WaitStep
<1>11. RingExact'
  BY RingKept DEF chanvars
<1>12. MissInv'
  <2>1. MissOf(g)'
    BY <1>1, ObserveType DEF MissOf, Defaulted, SendAlone
  <2> QED BY <1>6, <2>1, OtherMiss DEF MissInv
<1> QED BY <1>5, <1>7, <1>8, <1>9, <1>10, <1>11, <1>12 DEF IInv

\* closechan: all readers, all writers, and then nobody waits on the channel.
LEMMA CloseReleaseStep ==
    ASSUME IInv, NEW g \in Goroutine, CloseRelease(g)
    PROVE  IInv'
<1>0. TypeOK /\ ControlOf(g) /\ LockOf(g)
  BY DEF IInv, ControlInv, LockInv
<1>a. PICK c : c = Case(g, 1).c
  OBVIOUS
<1>1. /\ pc[g] = "closing"
      /\ UNCHANGED <<qcount, buf, sendx, recvx, closed, op, todo, parking, ret>>
      /\ Observe
  BY DEF CloseRelease
<1>2. op[g] # NoOp /\ op[g].kind = "close" /\ c \in ChanAddr /\ lock[c] = g /\ closed[c] = 1
  BY <1>0, <1>1, <1>a, CallFacts DEF ControlOf, LockOf
<1>3. waitq \in QueueType /\ \A d \in Dir, b \in ChanAddr : waitq[d][b] \in Seq(Sudogs) /\ Distinct(waitq[d][b])
  BY DEF IInv, TypeOK, SudogInv, QueueType
<1>4. /\ \A d \in Dir, b \in ChanAddr : HasWaiter(waitq[d][b]) <=> \E e \in Members(waitq[d][b]) : Live(e)
      /\ <<>> \in Seq(Sudogs) /\ Members(<<>>) = {} /\ Distinct(<<>>)
  <2>1. DOMAIN <<>> = {} /\ <<>> \in Seq(Sudogs)
    OBVIOUS
  <2> QED BY <2>1, HasWaiterIs DEF Members, Distinct
<1>5. CASE /\ HasWaiter(recvq[c])
           /\ Release(g, Dequeued(recvq[c]))
           /\ waitq' = [waitq EXCEPT !["recv"][c] = Rest(@)]
  <2> DEFINE q == waitq["recv"][c]
  <2>a. PICK x : x = Dequeued(q)
    OBVIOUS
  <2>1. /\ Rest(q) \in Seq(Sudogs) /\ Distinct(Rest(q)) /\ Members(Rest(q)) \subseteq Members(q)
        /\ x \in Members(q) /\ Live(x) /\ x \notin Members(Rest(q))
        /\ \A e \in Members(q) : Live(e) => e \in Members(Rest(q)) \/ e = x
    <3>1. q \in Seq(Sudogs) /\ Distinct(q) /\ HasWaiter(q)
      BY <1>2, <1>3, <1>5, DirFacts DEF recvq
    <3> QED BY <2>a, <3>1, RestFacts
  <2>2. ASSUME NEW d \in Dir, NEW b \in ChanAddr, ~(d = "recv" /\ b = c)
        PROVE  waitq'[d][b] = waitq[d][b] /\ x \notin Members(waitq[d][b])
    <3>1. waitq'[d][b] = waitq[d][b]
      BY <1>3, <1>5, <2>2 DEF QueueType
    <3>2. SudogOf(x, "recv", c) /\ (x \in Members(waitq[d][b]) => SudogOf(x, d, b))
      BY <1>2, <2>1, DirFacts DEF IInv, SudogInv
    <3> QED BY <2>2, <3>1, <3>2 DEF SudogOf
  <2>3. waitq'["recv"][c] = Rest(q) /\ waitq' \in QueueType
    BY <1>2, <1>3, <1>5, <2>1, DirFacts DEF QueueType
  <2> HIDE DEF q
  <2>4. Shrinks({x})
    <3> SUFFICES ASSUME NEW d \in Dir, NEW b \in ChanAddr
                 PROVE  /\ Distinct(waitq'[d][b])
                        /\ Members(waitq'[d][b]) \subseteq Members(waitq[d][b]) \ {x}
                        /\ \A e \in Members(waitq[d][b]) : Live(e) => e \in Members(waitq'[d][b]) \cup {x}
      BY <2>3 DEF Shrinks
    <3>1. CASE d = "recv" /\ b = c
      BY <2>1, <2>3, <3>1 DEF q
    <3>2. CASE ~(d = "recv" /\ b = c)
      BY <1>3, <2>2, <3>2
    <3> QED BY <3>1, <3>2
  <2>5. QueuesOf(g)
    BY <1>2, <2>2 DEF QueuesOf
  <2>6. Release(g, x) /\ x \in Members(waitq["recv"][Case(g, 1).c])
    BY <1>5, <1>a, <2>1, <2>a DEF q, recvq
  <2> QED BY <1>1, <2>1, <2>4, <2>5, <2>6, DirFacts, ReleaseStep
<1>6. CASE /\ ~HasWaiter(recvq[c]) /\ HasWaiter(sendq[c])
           /\ Release(g, Dequeued(sendq[c]))
           /\ waitq' = [waitq EXCEPT !["recv"][c] = <<>>, !["send"][c] = Rest(@)]
  <2> DEFINE q == waitq["send"][c]
  <2>a. PICK x : x = Dequeued(q)
    OBVIOUS
  <2>1. /\ Rest(q) \in Seq(Sudogs) /\ Distinct(Rest(q)) /\ Members(Rest(q)) \subseteq Members(q)
        /\ x \in Members(q) /\ Live(x) /\ x \notin Members(Rest(q))
        /\ \A e \in Members(q) : Live(e) => e \in Members(Rest(q)) \/ e = x
    <3>1. q \in Seq(Sudogs) /\ Distinct(q) /\ HasWaiter(q)
      BY <1>2, <1>3, <1>6, DirFacts DEF sendq
    <3> QED BY <2>a, <3>1, RestFacts
  <2>2. ASSUME NEW d \in Dir, NEW b \in ChanAddr, ~(d = "send" /\ b = c)
        PROVE  x \notin Members(waitq[d][b])
    <3>2. SudogOf(x, "send", c) /\ (x \in Members(waitq[d][b]) => SudogOf(x, d, b))
      BY <1>2, <2>1, DirFacts DEF IInv, SudogInv
    <3> QED BY <2>2, <3>2 DEF SudogOf
  <2>3. /\ waitq'["send"][c] = Rest(q) /\ waitq'["recv"][c] = <<>> /\ waitq' \in QueueType
        /\ \A d \in Dir, b \in ChanAddr : b # c => waitq'[d][b] = waitq[d][b]
    BY <1>2, <1>3, <1>4, <1>6, <2>1, DirFacts DEF QueueType
  <2> HIDE DEF q
  <2>4. Shrinks({x})
    <3> SUFFICES ASSUME NEW d \in Dir, NEW b \in ChanAddr
                 PROVE  /\ Distinct(waitq'[d][b])
                        /\ Members(waitq'[d][b]) \subseteq Members(waitq[d][b]) \ {x}
                        /\ \A e \in Members(waitq[d][b]) : Live(e) => e \in Members(waitq'[d][b]) \cup {x}
      BY <2>3 DEF Shrinks
    <3>1. CASE d = "send" /\ b = c
      BY <2>1, <2>3, <3>1 DEF q
    <3>2. CASE d = "recv" /\ b = c
      BY <1>2, <1>4, <1>6, <2>3, <3>2 DEF recvq
    <3>3. CASE b # c
      BY <1>3, <2>2, <2>3, <3>3
    <3> QED BY <3>1, <3>2, <3>3, DirFacts
  <2>5. QueuesOf(g)
    BY <1>2, <2>3 DEF QueuesOf
  <2>6. Release(g, x) /\ x \in Members(waitq["send"][Case(g, 1).c])
    BY <1>6, <1>a, <2>1, <2>a DEF q, sendq
  <2> QED BY <1>1, <2>1, <2>4, <2>5, <2>6, DirFacts, ReleaseStep
<1>7. CASE ~HasWaiter(recvq[c]) /\ ~HasWaiter(sendq[c]) /\ CloseEnds(g, c)
  <2>1. /\ lock' = [lock EXCEPT ![c] = Nil]
        /\ pc' = [pc EXCEPT ![g] = IF wake[g] = <<>> THEN "return" ELSE "ready"]
        /\ waitq' = [waitq EXCEPT !["recv"][c] = <<>>, !["send"][c] = <<>>]
        /\ UNCHANGED <<selectDone, elem, param, success, wake>>
    BY <1>7 DEF CloseEnds, Goto
  <2>2. /\ waitq'["send"][c] = <<>> /\ waitq'["recv"][c] = <<>> /\ waitq' \in QueueType
        /\ \A d \in Dir, b \in ChanAddr : b # c => waitq'[d][b] = waitq[d][b]
    BY <1>2, <1>3, <1>4, <2>1, DirFacts DEF QueueType
  <2>3. /\ pc'[g] \in {"return", "ready"} /\ (pc'[g] = "return" <=> wake[g] = <<>>)
        /\ \A h \in Goroutine : h # g => pc'[h] = pc[h]
        /\ lock'[c] = Nil /\ \A b \in ChanAddr : b # c => lock'[b] = lock[b]
    BY <1>0, <1>2, <2>1 DEF TypeOK
  <2>4. Shrinks({})
    <3> SUFFICES ASSUME NEW d \in Dir, NEW b \in ChanAddr
                 PROVE  /\ Distinct(waitq'[d][b])
                        /\ Members(waitq'[d][b]) \subseteq Members(waitq[d][b])
                        /\ \A e \in Members(waitq[d][b]) : Live(e) => e \in Members(waitq'[d][b])
      BY <2>2 DEF Shrinks
    <3>1. CASE b = c
      <4>1. waitq'[d][b] = <<>>
        BY <2>2, <3>1, DirFacts
      <4>2. ~HasWaiter(waitq[d][b])
        BY <1>7, <3>1, DirFacts DEF recvq, sendq
      <4> QED BY <1>4, <4>1, <4>2
    <3>2. CASE b # c
      BY <1>3, <2>2, <3>2
    <3> QED BY <3>1, <3>2
  <2>5. Others(g) /\ StaysClosed /\ LocksOf(g)
    BY <1>1, <1>2, <2>1, <2>3 DEF Others, Stays, StaysClosed, LocksOf
  <2>6. TypeOK'
    <3>1. missed' \in [Goroutine -> BOOLEAN] /\ opened' \in [Goroutine -> BOOLEAN]
      BY <1>1, ObserveType
    <3>2. pc' \in [Goroutine -> Label] /\ lock' \in [ChanAddr -> Goroutine \cup {Nil}]
      BY <1>0, <1>2, <2>1 DEF TypeOK, Label
    <3>3. waitq' \in [Dir -> [ChanAddr -> Seq(Sudogs)]]
      BY <2>2 DEF QueueType
    <3> QED BY <1>0, <1>1, <2>1, <3>1, <3>2, <3>3 DEF TypeOK
  <2>7. ret[g].casi > 0 /\ ret[g].casi >= 0 /\ ret[g].casi # 0
    <3>1. ret[g].casi > 0 /\ ret[g].casi \in Int
      BY <1>0, <1>1 DEF ControlOf, TypeOK, ResultType
    <3> QED BY <3>1
  <2>8. ControlInv'
    <3>1. ControlOf(g)'
      BY <1>0, <1>1, <1>2, <2>1, <2>3, <2>7 DEF ControlOf, HoldsAll
    <3> QED BY <2>5, <3>1, OtherControl DEF ControlInv
  <2>9. LockInv'
    <3>1. LockOf(g)'
      BY <1>0, <1>1, <1>2, <1>a, <2>1, <2>3, ChanAssumption DEF LockOf, HoldsAll
    <3> QED BY <2>5, <3>1, OtherLock DEF LockInv
  <2>10. /\ \A d \in Dir, b \in ChanAddr : \A e \in Members(waitq[d][b]) : e.g # g
         /\ ~HasWake(g) /\ selectDone[g] = 0 /\ elem[g] = Zero
    BY <1>1, Absent DEF Woken
  <2>11. /\ WakeInv' /\ SudogInv'
         /\ \A d \in Dir, b \in ChanAddr : \A e \in Members(waitq[d][b]) : Live(e)' <=> Live(e)
    <3>1. pc'[g] \notin {"parked"} \cup Woken
      BY <2>3 DEF Woken
    <3> QED BY <1>1, <2>1, <2>3, <2>4, <2>5, <2>10, <3>1, QuietStep
  <2>12. WaitInv'
    <3>1. ASSUME NEW b \in ChanAddr
          PROVE  WaitOf(b)'
      <4>1. WaitOf(b)
        BY DEF IInv, WaitInv
      <4>2. CASE b = c
        BY <1>4, <2>2, <4>2, DirFacts DEF WaitOf
      <4>3. CASE b # c
        <5>1. \A d \in Dir : waitq'[d][b] = waitq[d][b]
          BY <2>2, <4>3
        <5>2. \A h \in Goroutine : pc[h] = "closing" /\ b = Case(h, 1).c
                                   => pc'[h] = "closing" /\ b = Case(h, 1)'.c
          BY <1>1, <1>a, <2>3, <4>3 DEF Case
        <5> QED BY <1>1, <2>11, <4>1, <5>1, <5>2, DirFacts DEF WaitOf
      <4> QED BY <4>2, <4>3
    <3>2. ASSUME NEW h \in Goroutine
          PROVE  Pass2Of(h)'
      <4> SUFFICES ASSUME pc'[h] = "pass2", NEW i \in Cases(h)
                   PROVE  /\ pc[h] = "pass2"
                          /\ waitq'[Other(Case(h, i).dir)][Case(h, i).c] = waitq[Other(Case(h, i).dir)][Case(h, i).c]
        BY <1>1 DEF IInv, WaitInv, Pass2Of, Cases, Case
      <4>1. h # g /\ pc[h] = "pass2"
        BY <2>3
      <4>2. op[h] # NoOp /\ op[h].kind = "select" /\ \A b \in Channels(h) : lock[b] = h
        BY <4>1 DEF IInv, ControlInv, ControlOf, LockInv, LockOf, HoldsAll
      <4>3. Case(h, i).c \in ChanAddr /\ lock[Case(h, i).c] = h /\ Other(Case(h, i).dir) \in Dir
        BY <4>2, CallFacts, DirFacts DEF IInv
      <4> QED BY <1>2, <2>2, <4>1, <4>3
    <3> QED BY <3>1, <3>2 DEF WaitInv
  <2>13. RingExact'
    BY <1>1, RingKept DEF chanvars
  <2>14. MissInv'
    <3>1. MissOf(g)'
      BY <1>1, <2>3, <2>7, ObserveType DEF MissOf, Defaulted, SendAlone
    <3> QED BY <1>1, <2>5, <3>1, OtherMiss DEF MissInv
  <2> QED BY <2>6, <2>8, <2>9, <2>11, <2>12, <2>13, <2>14 DEF IInv
<1> QED BY <1>5, <1>6, <1>7, <1>a DEF CloseRelease

-----------------------------------------------------------------------------
(* A case takes effect under the locks *)

\* g, which may touch the channels of its cases, polls case i after those in P.
Polling(g, i, P) ==
    /\ pc[g] \in {"lock", "pass1"}
    /\ i \in Cases(g)
    /\ P \subseteq Cases(g)
    /\ \A j \in P : ~Ready(Case(g, j))
    /\ \A j \in Cases(g) : lock[Case(g, j).c] \in {Nil, g}

\* What it can rely on.
LEMMA PollFacts ==
    ASSUME IInv, NEW g \in Goroutine, NEW i, NEW P, Polling(g, i, P)
    PROVE  /\ op[g] # NoOp /\ op[g].kind \in {"chan", "select"}
           /\ i \in Nat /\ i > 0
           /\ Case(g, i).c \in ChanAddr /\ Case(g, i).dir \in Dir /\ lock[Case(g, i).c] \in {Nil, g}
           /\ wake[g] = <<>> /\ elem[g] = Zero /\ selectDone[g] = 0 /\ ~HasWake(g)
           /\ \A d \in Dir, c \in ChanAddr : \A e \in Members(waitq[d][c]) : e.g # g
           /\ \A j \in P \cup {i} : lock[Case(g, j).c] \in {Nil, g}
           /\ \A j \in P : \A d \in Dir, c \in ChanAddr : Polls(g, j, d, c) => ~HasWaiter(waitq[d][c])
           /\ closed[Case(g, i).c] = 1 => \A d \in Dir : Members(waitq[d][Case(g, i).c]) = {}
           /\ closed[Case(g, i).c] \in {0, 1}
<1>0. pc[g] \in {"lock", "pass1"} /\ i \in Cases(g) /\ P \subseteq Cases(g)
  BY DEF Polling
<1>1. op[g] # NoOp /\ op[g].kind \in {"chan", "select"} /\ wake[g] = <<>>
  BY <1>0 DEF IInv, ControlInv, ControlOf, HoldsAll
<1>2. /\ Cases(g) \subseteq Nat \ {0}
      /\ \A j \in Cases(g) : Case(g, j).c \in ChanAddr /\ Case(g, j).dir \in Dir
  BY <1>1, CallFacts DEF IInv
<1>3. i \in Nat /\ i > 0
  BY <1>0, <1>2
<1>4. /\ \A d \in Dir, c \in ChanAddr : \A e \in Members(waitq[d][c]) : e.g # g
      /\ ~HasWake(g) /\ selectDone[g] = 0 /\ elem[g] = Zero
  BY <1>0, Absent DEF Woken
<1>5. \A j \in P \cup {i} : lock[Case(g, j).c] \in {Nil, g}
  BY DEF Polling
<1>6. closed[Case(g, i).c] \in {0, 1}
  BY <1>0, <1>2 DEF IInv, TypeOK
<1>7. ASSUME NEW j \in P, NEW d \in Dir, NEW c \in ChanAddr, Polls(g, j, d, c)
      PROVE  ~HasWaiter(waitq[d][c])
  <2>1. Case(g, j).c = c /\ Case(g, j).dir = Other(d) /\ ~Ready(Case(g, j)) /\ closed[c] \in {0, 1}
    BY <1>7 DEF Polls, Polling, IInv, TypeOK
  <2>2. CASE d = "recv"
    BY <2>1, <2>2, DirFacts DEF Ready, Sendable, recvq
  <2>3. CASE d = "send"
    BY <2>1, <2>3, DirFacts DEF Ready, Receivable, sendq
  <2> QED BY <2>2, <2>3, DirFacts
<1>8. ASSUME closed[Case(g, i).c] = 1
      PROVE  \A d \in Dir : Members(waitq[d][Case(g, i).c]) = {}
  <2>1. ASSUME NEW h \in Goroutine, pc[h] = "closing", Case(g, i).c = Case(h, 1).c
        PROVE  FALSE
    <3>1. lock[Case(h, 1).c] = h
      BY <2>1 DEF IInv, LockInv, LockOf
    <3> QED BY <1>0, <1>5, <2>1, <3>1, ChanAssumption
  <2> QED BY <1>0, <1>2, <1>8, <2>1 DEF IInv, WaitInv, WaitOf
<1> QED BY <1>0, <1>1, <1>2, <1>3, <1>4, <1>5, <1>6, <1>7, <1>8

\* g signals x.
Takes(g, x) ==
    /\ selectDone' = Signalled(x)
    /\ wake' = [wake EXCEPT ![g] = <<Wakeup(x, TRUE)>>]
    /\ pc' = [pc EXCEPT ![g] = "ready"]
    /\ UNCHANGED <<op, closed, param, success>>
    /\ \A h \in Goroutine : h # x.g => elem'[h] = elem[h]

\* A waiter is found.
LEMMA TakeStep ==
    ASSUME IInv, NEW g \in Goroutine, NEW i, NEW P, Polling(g, i, P),
           waitq' = Polled(g, P \cup {i}),
           NEW c, c = Case(g, i).c, NEW d0 \in Dir, Polls(g, i, d0, c), HasWaiter(waitq[d0][c]),
           NEW x, x = Dequeued(waitq[d0][c]),
           Takes(g, x)
    PROVE  /\ x \in Members(waitq[d0][c]) /\ x.g \in Goroutine /\ x.g # g /\ Live(x)
           /\ WakeInv' /\ SudogInv'
           /\ wake' \in [Goroutine -> Seq(WakeType)]
           /\ selectDone' \in [Goroutine -> {0, 1}]
           /\ wake'[g] # <<>>
           /\ \A w \in Goroutine : w # g => wake'[w] = wake[w]
           /\ Shrinks({x}) /\ QueuesOf(g)
           /\ \A d \in Dir, b \in ChanAddr : \A e \in Members(waitq'[d][b]) : Live(e)' => Live(e)
<1> USE DEF Takes
<1>1. /\ c \in ChanAddr /\ lock[c] \in {Nil, g} /\ wake[g] = <<>>
      /\ \A d \in Dir, b \in ChanAddr : \A e \in Members(waitq[d][b]) : e.g # g
      /\ \A j \in P \cup {i} : lock[Case(g, j).c] \in {Nil, g}
      /\ \A j \in P : \A d \in Dir, b \in ChanAddr : Polls(g, j, d, b) => ~HasWaiter(waitq[d][b])
  BY PollFacts
<1>2. x \in Members(waitq[d0][c]) /\ Live(x) /\ Shrinks({x}) /\ QueuesOf(g)
  BY <1>1, Take
<1>3. /\ x.g \in Goroutine
      /\ pc[x.g] \in {"pass2", "parked"}
      /\ pc[x.g] \in {"pass2", "pass3"} => lock[c] = x.g
  BY <1>1, <1>2, Waiter
<1>4. x.g # g /\ pc[x.g] = "parked"
  BY <1>1, <1>2, <1>3, ChanAssumption
<1>5. Signals(g, x, TRUE)
  <2>1. pc[g] \in {"lock", "pass1"} /\ pc'[g] = "ready" /\ \A h \in Goroutine : h # g => pc'[h] = pc[h]
    BY DEF Polling, IInv, TypeOK
  <2>2. wake' = [wake EXCEPT ![g] = <<Wakeup(x, TRUE)>> \o @]
    <3>1. <<Wakeup(x, TRUE)>> \o wake[g] = <<Wakeup(x, TRUE)>>
      BY <1>1
    <3> QED BY <3>1
  <2> QED BY <1>2, <2>1, <2>2 DEF Signals
<1>6. /\ WakeInv' /\ SudogInv'
      /\ wake' \in [Goroutine -> Seq(WakeType)]
      /\ selectDone' \in [Goroutine -> {0, 1}]
      /\ wake'[g] # <<>>
      /\ \A w \in Goroutine : w # g => wake'[w] = wake[w]
      /\ \A e \in Sudogs : Live(e)' => Live(e)
  BY <1>1, <1>2, <1>4, <1>5, SignalStep
<1>7. \A d \in Dir, b \in ChanAddr : Members(waitq'[d][b]) \subseteq Sudogs
  BY <1>2, ShrunkType
<1> QED BY <1>2, <1>3, <1>4, <1>6, <1>7

\* No waiter is found.
LEMMA SweepStep ==
    ASSUME IInv, NEW g \in Goroutine, NEW i, NEW P, Polling(g, i, P), NEW Q,
           waitq' = Polled(g, Q), Q \subseteq P \cup {i},
           \A d \in Dir, c \in ChanAddr : Polls(g, i, d, c) => ~HasWaiter(waitq[d][c]),
           NEW l \in {"return", "pass2"}, pc' = [pc EXCEPT ![g] = l],
           UNCHANGED <<op, closed, param, success, elem, selectDone, wake>>
    PROVE  /\ WakeInv' /\ SudogInv'
           /\ Shrinks({}) /\ QueuesOf(g)
           /\ \A d \in Dir, b \in ChanAddr : \A e \in Members(waitq[d][b]) : Live(e)' <=> Live(e)
<1>1. /\ elem[g] = Zero /\ selectDone[g] = 0 /\ ~HasWake(g)
      /\ \A d \in Dir, b \in ChanAddr : \A e \in Members(waitq[d][b]) : e.g # g
      /\ \A j \in P \cup {i} : lock[Case(g, j).c] \in {Nil, g}
      /\ \A j \in P : \A d \in Dir, b \in ChanAddr : Polls(g, j, d, b) => ~HasWaiter(waitq[d][b])
  BY PollFacts
<1>2. Shrinks({}) /\ QueuesOf(g)
  <2>1. \A j \in Q : lock[Case(g, j).c] \in {Nil, g}
    BY <1>1
  <2>2. \A j \in Q : \A d \in Dir, b \in ChanAddr : Polls(g, j, d, b) => ~HasWaiter(waitq[d][b])
    BY <1>1
  <2> QED BY <2>1, <2>2, Sweep
<1>3. pc'[g] = l /\ \A h \in Goroutine : h # g => pc'[h] = pc[h]
  BY DEF IInv, TypeOK
<1>4. pc'[g] \notin {"parked"} \cup Woken /\ StaysClosed
  BY <1>3 DEF Woken, StaysClosed
<1>5. /\ WakeInv' /\ SudogInv'
      /\ \A d \in Dir, b \in ChanAddr : \A e \in Members(waitq[d][b]) : Live(e)' <=> Live(e)
  BY <1>1, <1>2, <1>3, <1>4, QuietStep
<1> QED BY <1>2, <1>5

\* g leaves the locked part of its call for l, with result r.
Finishes(g, l, r) ==
    /\ pc[g] \in {"lock", "pass1"}
    /\ pc' = [pc EXCEPT ![g] = l]
    /\ ret' = [ret EXCEPT ![g] = r]
    /\ lock' = Unlocked(g)
    /\ UNCHANGED <<op, todo, parking, param, success, closed>>
    /\ Observe

\* The rest of the state follows.
LEMMA FinishStep ==
    ASSUME IInv, NEW g \in Goroutine, NEW l \in {"ready", "return"}, NEW r \in ResultType,
           Finishes(g, l, r), r.casi >= 0, l = "ready" => r.casi > 0, r.casi = 0 => missed'[g],
           WakeInv', SudogInv', RingExact', RingType',
           wake' \in [Goroutine -> Seq(WakeType)], selectDone' \in [Goroutine -> {0, 1}],
           elem' \in [Goroutine -> Value \cup {Zero}],
           (l = "ready") <=> (wake'[g] # <<>>), \A w \in Goroutine : w # g => wake'[w] = wake[w],
           NEW X, Shrinks(X), QueuesOf(g),
           \A d \in Dir, b \in ChanAddr : \A e \in Members(waitq'[d][b]) : Live(e)' => Live(e),
           \A c \in ChanAddr : \/ qcount'[c] = qcount[c]
                               \/ /\ lock[c] \in {Nil, g}
                                  /\ \A d \in Dir : \A e \in Members(waitq[d][c]) : ~Live(e)
    PROVE  IInv'
<1>0. TypeOK /\ ControlOf(g) /\ LockOf(g)
  BY DEF IInv, ControlInv, LockInv
<1>1. /\ pc[g] \in {"lock", "pass1"} /\ pc' = [pc EXCEPT ![g] = l] /\ ret' = [ret EXCEPT ![g] = r]
      /\ lock' = Unlocked(g) /\ UNCHANGED <<op, todo, parking, param, success, closed>> /\ Observe
  BY DEF Finishes
<1>2. op[g] # NoOp /\ op[g].kind \in {"chan", "select"}
  BY <1>0, <1>1 DEF ControlOf, HoldsAll
<1>3. /\ pc'[g] = l /\ ret'[g] = r
      /\ \A h \in Goroutine : h # g => pc'[h] = pc[h] /\ ret'[h] = ret[h]
      /\ \A c \in ChanAddr : lock'[c] = IF lock[c] = g THEN Nil ELSE lock[c]
  BY <1>0, <1>1 DEF TypeOK, Unlocked
<1>4. Others(g) /\ StaysClosed /\ LocksOf(g)
  BY <1>1, <1>3 DEF Others, Stays, StaysClosed, LocksOf
<1>5. TypeOK'
  <2>1. ret' \in [Goroutine -> ResultType]
    BY <1>0, <1>1 DEF TypeOK
  <2>2. pc' \in [Goroutine -> Label] /\ lock' \in [ChanAddr -> Goroutine \cup {Nil}]
    BY <1>0, <1>1 DEF TypeOK, Label, Unlocked
  <2>3. missed' \in [Goroutine -> BOOLEAN] /\ opened' \in [Goroutine -> BOOLEAN]
    BY <1>1, ObserveType
  <2>4. waitq' \in [Dir -> [ChanAddr -> Seq(Sudogs)]]
    BY DEF Shrinks, QueueType
  <2>5. wake' \in [Goroutine -> Seq([g : Goroutine, casi : Nat, ok : BOOLEAN])]
    BY DEF WakeType
  <2> QED BY <1>0, <1>1, <2>1, <2>2, <2>3, <2>4, <2>5 DEF TypeOK, RingType
<1>6. ControlInv'
  <2>1. ControlOf(g)'
    BY <1>1, <1>2, <1>3 DEF ControlOf, HoldsAll
  <2> QED BY <1>4, <2>1, OtherControl DEF ControlInv
<1>7. LockInv'
  <2>1. todo[g] = {} /\ parking[g] = {}
    BY <1>0, <1>1 DEF LockOf
  <2>2. LockOf(g)'
    <3>1. \A c \in ChanAddr : lock'[c] # g
      BY <1>3, ChanAssumption
    <3> QED BY <1>1, <1>3, <2>1, <3>1 DEF LockOf, HoldsAll
  <2> QED BY <1>4, <2>2, OtherLock DEF LockInv
<1>8. WaitInv'
  <2>1. Pass2Of(g)'
    BY <1>3 DEF Pass2Of
  <2>2. \A h \in Goroutine : h # g => pc'[h] = pc[h] /\ op'[h] = op[h]
    BY <1>1, <1>3
  <2>3. pc[g] # "closing" /\ closed' = closed
    BY <1>1
  <2>4. \A c \in ChanAddr : lock[c] \notin {Nil, g} => qcount'[c] = qcount[c]
    OBVIOUS
  <2>5. \A c \in ChanAddr : \/ qcount'[c] = qcount[c]
                            \/ \A d \in Dir : \A e \in Members(waitq[d][c]) : ~Live(e)
    OBVIOUS
  <2> QED BY <2>1, <2>2, <2>3, <2>4, <2>5, WaitStep
<1>9. MissInv'
  <2>1. MissOf(g)'
    BY <1>1, <1>3, ObserveType DEF MissOf, Defaulted, SendAlone
  <2> QED BY <1>1, <1>4, <2>1, OtherMiss DEF MissInv
<1> QED BY <1>5, <1>6, <1>7, <1>8, <1>9 DEF IInv

\* What g leaves alone while it does this, whatever happens to the channel.
Locked(g) ==
    /\ lock' = Unlocked(g)
    /\ UNCHANGED <<op, todo, parking, param, success>>
    /\ Observe

\* A value goes to a waiting receiver.
LEMMA SendStep ==
    ASSUME IInv, NEW g \in Goroutine, NEW i, NEW P, Polling(g, i, P), NEW c, c = Case(g, i).c,
           Case(g, i).dir = "send", send(g, i, c), waitq' = Polled(g, P \cup {i}), Locked(g)
    PROVE  IInv'
<1>a. PICK x : x = Dequeued(waitq["recv"][c])
  OBVIOUS
<1>1. /\ closed[c] = 0 /\ HasWaiter(waitq["recv"][c])
      /\ elem' = [elem EXCEPT ![x.g] = Case(g, i).v]
      /\ selectDone' = Signalled(x)
      /\ wake' = [wake EXCEPT ![g] = <<Wakeup(x, TRUE)>>]
      /\ ret' = [ret EXCEPT ![g] = Res(i, Zero, TRUE)]
      /\ pc' = [pc EXCEPT ![g] = "ready"]
      /\ UNCHANGED chanvars
  BY <1>a DEF send, Goto, Returns, recvq
<1>2. /\ op[g] # NoOp /\ i \in Nat /\ i > 0
  BY PollFacts
<1>3. Polls(g, i, "recv", c)
  BY <1>1, DirFacts DEF Polls
<1>4. \A h \in Goroutine : h # x.g => elem'[h] = elem[h]
  BY <1>1 DEF IInv, TypeOK
<1>5. UNCHANGED <<op, closed, param, success>>
  BY <1>1 DEF Locked, chanvars
<1>c. Takes(g, x)
  BY <1>1, <1>4, <1>5 DEF Takes
<1>6. /\ WakeInv' /\ SudogInv'
      /\ wake' \in [Goroutine -> Seq(WakeType)] /\ selectDone' \in [Goroutine -> {0, 1}]
      /\ wake'[g] # <<>> /\ \A w \in Goroutine : w # g => wake'[w] = wake[w]
      /\ Shrinks({x}) /\ QueuesOf(g)
      /\ \A d \in Dir, b \in ChanAddr : \A e \in Members(waitq'[d][b]) : Live(e)' => Live(e)
  BY <1>1, <1>3, <1>a, <1>c, DirFacts, TakeStep
<1>7. elem' \in [Goroutine -> Value \cup {Zero}]
  <2>1. i \in Cases(g)
    BY DEF Polling
  <2>2. Case(g, i).v \in Value \cup {Zero}
    BY <1>2, <2>1, CallFacts DEF IInv
  <2> QED BY <1>1, <2>2 DEF IInv, TypeOK
<1>8. RingExact' /\ RingType' /\ qcount' = qcount
  BY <1>1, RingKept DEF chanvars
<1>9. Res(i, Zero, TRUE) \in ResultType /\ Res(i, Zero, TRUE).casi > 0
  BY <1>2 DEF ResultType, Res
<1>10. Res(i, Zero, TRUE).casi >= 0 /\ Res(i, Zero, TRUE).casi # 0
  BY <1>2 DEF Res
<1>11. Finishes(g, "ready", Res(i, Zero, TRUE))
  BY <1>1, <1>5 DEF Finishes, Locked, Polling
<1> QED BY <1>6, <1>7, <1>8, <1>9, <1>10, <1>11, FinishStep

\* The oldest value is received and the waiting sender's value goes in.
LEMMA RecvStep ==
    ASSUME IInv, NEW g \in Goroutine, NEW i, NEW P, Polling(g, i, P), NEW c, c = Case(g, i).c,
           Case(g, i).dir = "recv", recv(g, i, c), waitq' = Polled(g, P \cup {i}), Locked(g)
    PROVE  IInv'
<1>a. PICK x : x = Dequeued(waitq["send"][c])
  OBVIOUS
<1>b. PICK v : v = Case(x.g, x.casi).v
  OBVIOUS
<1>1. /\ HasWaiter(waitq["send"][c]) /\ (closed[c] = 0 \/ op[g].kind = "select")
      /\ selectDone' = Signalled(x)
      /\ wake' = [wake EXCEPT ![g] = <<Wakeup(x, TRUE)>>]
      /\ pc' = [pc EXCEPT ![g] = "ready"]
      /\ elem' = elem
      /\ IF Cap[c] = 0
         THEN ret' = [ret EXCEPT ![g] = Res(i, v, TRUE)] /\ UNCHANGED chanvars
         ELSE /\ ret' = [ret EXCEPT ![g] = Res(i, buf[c][recvx[c]], TRUE)]
              /\ buf' = [buf EXCEPT ![c][recvx[c]] = v]
              /\ recvx' = [recvx EXCEPT ![c] = Inc(c, @)]
              /\ sendx' = [sendx EXCEPT ![c] = Inc(c, recvx[c])]
              /\ UNCHANGED <<qcount, closed>>
  BY <1>a, <1>b DEF recv, Goto, Returns, sendq, HasSender
<1>2. /\ op[g] # NoOp /\ i \in Nat /\ i > 0 /\ c \in ChanAddr
  BY PollFacts
<1>3. Polls(g, i, "send", c)
  BY <1>1, DirFacts DEF Polls
<1>5. UNCHANGED <<op, closed, param, success>> /\ qcount' = qcount
  BY <1>1 DEF Locked, chanvars
<1>c. Takes(g, x)
  BY <1>1, <1>5 DEF Takes
<1>6. /\ x \in Members(waitq["send"][c]) /\ x.g \in Goroutine /\ Live(x)
      /\ WakeInv' /\ SudogInv'
      /\ wake' \in [Goroutine -> Seq(WakeType)] /\ selectDone' \in [Goroutine -> {0, 1}]
      /\ wake'[g] # <<>> /\ \A w \in Goroutine : w # g => wake'[w] = wake[w]
      /\ Shrinks({x}) /\ QueuesOf(g)
      /\ \A d \in Dir, b \in ChanAddr : \A e \in Members(waitq'[d][b]) : Live(e)' => Live(e)
  BY <1>1, <1>3, <1>a, <1>c, DirFacts, TakeStep
<1>7. elem' \in [Goroutine -> Value \cup {Zero}]
  BY <1>1 DEF IInv, TypeOK
<1>8. qcount[c] = Cap[c] /\ v \in Value /\ v # Zero
  <2>1. qcount[c] = Cap[c]
    BY <1>2, <1>6 DEF IInv, WaitInv, WaitOf
  <2>2. SudogOf(x, "send", c) /\ op[x.g] # NoOp
    BY <1>2, <1>6, DirFacts, Waiter
  <2>3. v \in Value
    BY <1>6, <1>b, <2>2, CallFacts DEF IInv, SudogOf
  <2> QED BY <2>1, <2>3, ChanAssumption
<1>9. RingType /\ RingExact /\ Cap[c] \in Nat
  BY <1>2, ChanAssumption DEF IInv, TypeOK, RingType
<1>10. RingExact' /\ RingType'
  <2>1. CASE Cap[c] = 0
    BY <1>1, <2>1, RingKept
  <2>2. CASE Cap[c] # 0
    <3> DEFINE n == Cap[c]
    <3> DEFINE b == buf[c]
    <3> DEFINE r == recvx[c]
    <3>1. n \in Nat \ {0} /\ n > 0 /\ b \in [0..n-1 -> Value \cup {Zero}] /\ r \in 0..n-1
      BY <1>2, <1>9, <2>2 DEF RingType
    <3>2. Ring(b, n, n, r, sendx[c])
      BY <1>2, <1>8, <1>9, <3>1 DEF Ring, Slot, RingExact
    <3>3. Inc(c, r) = After(n, r) /\ After(n, r) \in 0..n-1
      BY <3>1 DEF Inc, After
    <3>4. /\ buf' = [buf EXCEPT ![c][r] = v] /\ recvx' = [recvx EXCEPT ![c] = After(n, r)]
          /\ sendx' = [sendx EXCEPT ![c] = After(n, r)] /\ qcount' = qcount
      BY <1>1, <1>5, <2>2, <3>3
    <3>5. /\ Put(buf'[c], b, n, r, v)
          /\ recvx'[c] = After(n, r) /\ sendx'[c] = After(n, r) /\ qcount'[c] = n
          /\ \A d \in ChanAddr : d # c => /\ qcount'[d] = qcount[d] /\ buf'[d] = buf[d]
                                          /\ sendx'[d] = sendx[d] /\ recvx'[d] = recvx[d]
          /\ DOMAIN buf' = ChanAddr
      BY <1>2, <1>8, <1>9, <3>1, <3>4 DEF RingType, Put
    <3>6. /\ qcount' \in [ChanAddr -> Nat] /\ sendx' \in [ChanAddr -> Nat] /\ recvx' \in [ChanAddr -> Nat]
      <4>1. After(n, r) \in Nat
        BY <3>1, <3>3
      <4> QED BY <1>9, <3>4, <4>1 DEF RingType
    <3> HIDE DEF n, b, r
    <3>7. Ring(buf'[c], n, n, After(n, r), After(n, r))
      BY <1>8, <3>1, <3>2, <3>5, RingSwap
    <3>8. buf'[c] \in [0..n-1 -> Value \cup {Zero}] /\ n \in 0..n
      BY <3>1, <3>5 DEF Put
    <3> QED BY <1>2, <1>5, <3>1, <3>3, <3>5, <3>6, <3>7, <3>8, RingOne DEF n
  <2> QED BY <2>1, <2>2
<1>11. PICK u \in Value \cup {Zero} : ret' = [ret EXCEPT ![g] = Res(i, u, TRUE)]
  <2>1. CASE Cap[c] = 0
    BY <1>1, <1>8, <2>1
  <2>2. CASE Cap[c] # 0
    <3>1. buf[c][recvx[c]] \in Value \cup {Zero}
      BY <1>2, <1>9, <2>2 DEF RingType
    <3> QED BY <1>1, <2>2, <3>1
  <2> QED BY <2>1, <2>2
<1>12. Res(i, u, TRUE) \in ResultType /\ Res(i, u, TRUE).casi > 0
  BY <1>2 DEF ResultType, Res
<1>13. Res(i, u, TRUE).casi >= 0 /\ Res(i, u, TRUE).casi # 0
  BY <1>2 DEF Res
<1>14. Finishes(g, "ready", Res(i, u, TRUE))
  BY <1>1, <1>5, <1>11 DEF Finishes, Locked, Polling
<1> QED BY <1>5, <1>6, <1>7, <1>10, <1>12, <1>13, <1>14, FinishStep

\* A value goes into the buffer.
LEMMA BufsendStep ==
    ASSUME IInv, NEW g \in Goroutine, NEW i, NEW P, Polling(g, i, P), NEW c, c = Case(g, i).c,
           Case(g, i).dir = "send", bufsend(g, i, c), waitq' = Polled(g, P \cup {i}), Locked(g)
    PROVE  IInv'
<1>b. PICK v : v = Case(g, i).v
  OBVIOUS
<1>1. /\ closed[c] = 0 /\ ~HasWaiter(waitq["recv"][c]) /\ qcount[c] < Cap[c]
      /\ buf' = [buf EXCEPT ![c][sendx[c]] = v]
      /\ sendx' = [sendx EXCEPT ![c] = Inc(c, @)]
      /\ qcount' = [qcount EXCEPT ![c] = @ + 1]
      /\ ret' = [ret EXCEPT ![g] = Res(i, Zero, TRUE)]
      /\ pc' = [pc EXCEPT ![g] = "return"]
      /\ UNCHANGED <<recvx, closed, selectDone, wake, elem>>
  BY <1>b DEF bufsend, Goto, Returns, recvq
<1>2. /\ op[g] # NoOp /\ i \in Nat /\ i > 0 /\ c \in ChanAddr /\ lock[c] \in {Nil, g} /\ wake[g] = <<>>
  BY PollFacts
<1>3. \A d \in Dir, b \in ChanAddr : Polls(g, i, d, b) => ~HasWaiter(waitq[d][b])
  BY <1>1, DirFacts DEF Polls
<1>5. UNCHANGED <<op, closed, param, success, elem, selectDone, wake>>
  BY <1>1 DEF Locked
<1>6. /\ WakeInv' /\ SudogInv' /\ Shrinks({}) /\ QueuesOf(g)
      /\ \A d \in Dir, b \in ChanAddr : \A e \in Members(waitq[d][b]) : Live(e)' <=> Live(e)
  BY <1>1, <1>3, <1>5, SweepStep
<1>7. /\ elem' \in [Goroutine -> Value \cup {Zero}] /\ selectDone' \in [Goroutine -> {0, 1}]
      /\ wake' \in [Goroutine -> Seq(WakeType)]
  BY <1>1 DEF IInv, TypeOK, WakeType
<1>8. v \in Value /\ v # Zero
  <2>1. i \in Cases(g)
    BY DEF Polling
  <2>2. v \in Value
    BY <1>2, <1>b, <2>1, CallFacts DEF IInv
  <2> QED BY <2>2, ChanAssumption
<1>9. RingType /\ RingExact /\ Cap[c] \in Nat
  BY <1>2, ChanAssumption DEF IInv, TypeOK, RingType
<1>10. RingExact' /\ RingType'
  <2> DEFINE n == Cap[c]
  <2> DEFINE b == buf[c]
  <2> DEFINE r == recvx[c]
  <2> DEFINE s == sendx[c]
  <2> DEFINE q == qcount[c]
  <2>1. /\ n \in Nat \ {0} /\ n > 0 /\ q \in 0..n-1 /\ b \in [0..n-1 -> Value \cup {Zero}]
        /\ r \in 0..n-1 /\ s \in 0..n-1
    BY <1>1, <1>2, <1>9 DEF RingType
  <2>2. Ring(b, n, q, r, s)
    BY <1>2, <1>9, <2>1 DEF Ring, Slot, RingExact
  <2>3. Inc(c, s) = After(n, s) /\ After(n, s) \in 0..n-1 /\ q + 1 \in 0..n
    BY <2>1 DEF Inc, After
  <2>4. /\ buf' = [buf EXCEPT ![c][s] = v] /\ sendx' = [sendx EXCEPT ![c] = After(n, s)]
        /\ recvx' = recvx /\ qcount' = [qcount EXCEPT ![c] = q + 1]
    BY <1>1, <2>3
  <2>5. /\ Put(buf'[c], b, n, s, v)
        /\ recvx'[c] = r /\ sendx'[c] = After(n, s) /\ qcount'[c] = q + 1
        /\ \A d \in ChanAddr : d # c => /\ qcount'[d] = qcount[d] /\ buf'[d] = buf[d]
                                        /\ sendx'[d] = sendx[d] /\ recvx'[d] = recvx[d]
        /\ DOMAIN buf' = ChanAddr
    BY <1>2, <1>8, <1>9, <2>1, <2>4 DEF RingType, Put
  <2>6. /\ qcount' \in [ChanAddr -> Nat] /\ sendx' \in [ChanAddr -> Nat] /\ recvx' \in [ChanAddr -> Nat]
    <3>1. After(n, s) \in Nat /\ q + 1 \in Nat
      BY <2>1, <2>3
    <3> QED BY <1>9, <2>4, <3>1 DEF RingType
  <2> HIDE DEF n, b, r, s, q
  <2>7. Ring(buf'[c], n, q + 1, r, After(n, s))
    BY <1>8, <2>1, <2>2, <2>5, RingPush
  <2>8. buf'[c] \in [0..n-1 -> Value \cup {Zero}]
    BY <2>5 DEF Put
  <2> QED BY <1>2, <1>5, <2>1, <2>3, <2>5, <2>6, <2>7, <2>8, RingOne DEF n
<1>11. \A b \in ChanAddr : \/ qcount'[b] = qcount[b]
                           \/ /\ lock[b] \in {Nil, g}
                              /\ \A d \in Dir : \A e \in Members(waitq[d][b]) : ~Live(e)
  <2>1. \A b \in ChanAddr : b # c => qcount'[b] = qcount[b]
    BY <1>1, <1>9 DEF RingType
  <2>2. \A e \in Members(waitq["recv"][c]) : ~Live(e)
    BY <1>1, <1>2, HasWaiterIs, DirFacts
  <2>3. qcount[c] # Cap[c]
    <3>1. qcount[c] \in Nat
      BY <1>2, <1>9 DEF RingType
    <3> QED BY <1>1, <1>9, <3>1
  <2>4. \A e \in Members(waitq["send"][c]) : ~Live(e)
    BY <1>2, <2>3 DEF IInv, WaitInv, WaitOf
  <2> QED BY <1>2, <2>1, <2>2, <2>4, DirFacts
<1>12. Res(i, Zero, TRUE) \in ResultType /\ Res(i, Zero, TRUE).casi > 0
  BY <1>2 DEF ResultType, Res
<1>13. Res(i, Zero, TRUE).casi >= 0 /\ Res(i, Zero, TRUE).casi # 0
  BY <1>2 DEF Res
<1>14. Finishes(g, "return", Res(i, Zero, TRUE))
  BY <1>1, <1>5 DEF Finishes, Locked, Polling
<1>15. \A d \in Dir, b \in ChanAddr : \A e \in Members(waitq'[d][b]) : Live(e)' => Live(e)
  BY <1>6 DEF Shrinks
<1>16. wake'[g] = <<>> /\ \A w \in Goroutine : w # g => wake'[w] = wake[w]
  BY <1>1, <1>2
<1> QED BY <1>6, <1>7, <1>10, <1>11, <1>12, <1>13, <1>14, <1>15, <1>16, FinishStep

\* The oldest value comes out of the buffer.
LEMMA BufrecvStep ==
    ASSUME IInv, NEW g \in Goroutine, NEW i, NEW P, Polling(g, i, P), NEW c, c = Case(g, i).c,
           Case(g, i).dir = "recv", bufrecv(g, i, c), waitq' = Polled(g, P \cup {i}), Locked(g)
    PROVE  IInv'
<1>1. /\ ~HasSender(g, c) /\ qcount[c] > 0
      /\ buf' = [buf EXCEPT ![c][recvx[c]] = Zero]
      /\ recvx' = [recvx EXCEPT ![c] = Inc(c, @)]
      /\ qcount' = [qcount EXCEPT ![c] = @ - 1]
      /\ ret' = [ret EXCEPT ![g] = Res(i, buf[c][recvx[c]], TRUE)]
      /\ pc' = [pc EXCEPT ![g] = "return"]
      /\ UNCHANGED <<sendx, closed, selectDone, wake, elem>>
  BY DEF bufrecv, Goto, Returns
<1>2. /\ op[g] # NoOp /\ i \in Nat /\ i > 0 /\ c \in ChanAddr /\ lock[c] \in {Nil, g} /\ wake[g] = <<>>
      /\ closed[c] \in {0, 1} /\ op[g].kind \in {"chan", "select"}
      /\ closed[c] = 1 => \A d \in Dir : Members(waitq[d][c]) = {}
  BY PollFacts
<1>3. \A e \in Members(waitq["send"][c]) : ~Live(e)
  BY <1>1, <1>2, HasWaiterIs, DirFacts DEF HasSender, sendq
<1>4. \A d \in Dir, b \in ChanAddr : Polls(g, i, d, b) => ~HasWaiter(waitq[d][b])
  BY <1>2, <1>3, HasWaiterIs, DirFacts DEF Polls
<1>5. UNCHANGED <<op, closed, param, success, elem, selectDone, wake>>
  BY <1>1 DEF Locked
<1>6. /\ WakeInv' /\ SudogInv' /\ Shrinks({}) /\ QueuesOf(g)
      /\ \A d \in Dir, b \in ChanAddr : \A e \in Members(waitq[d][b]) : Live(e)' <=> Live(e)
  BY <1>1, <1>4, <1>5, SweepStep
<1>7. /\ elem' \in [Goroutine -> Value \cup {Zero}] /\ selectDone' \in [Goroutine -> {0, 1}]
      /\ wake' \in [Goroutine -> Seq(WakeType)]
  BY <1>1 DEF IInv, TypeOK, WakeType
<1>9. RingType /\ RingExact /\ Cap[c] \in Nat
  BY <1>2, ChanAssumption DEF IInv, TypeOK, RingType
<1>a. /\ Cap[c] \in Nat \ {0} /\ Cap[c] > 0 /\ qcount[c] \in 1..Cap[c]
      /\ buf[c] \in [0..Cap[c]-1 -> Value \cup {Zero}]
      /\ recvx[c] \in 0..Cap[c]-1 /\ sendx[c] \in 0..Cap[c]-1
  <2>1. qcount[c] \in 0..Cap[c] /\ Cap[c] > 0
    BY <1>1, <1>2, <1>9 DEF RingType
  <2> QED BY <1>1, <1>2, <1>9, <2>1 DEF RingType
<1>10. RingExact' /\ RingType'
  <2> DEFINE n == Cap[c]
  <2> DEFINE b == buf[c]
  <2> DEFINE r == recvx[c]
  <2> DEFINE s == sendx[c]
  <2> DEFINE q == qcount[c]
  <2>1. /\ n \in Nat \ {0} /\ n > 0 /\ q \in 1..n /\ b \in [0..n-1 -> Value \cup {Zero}]
        /\ r \in 0..n-1 /\ s \in 0..n-1
    BY <1>a
  <2>2. Ring(b, n, q, r, s)
    BY <1>2, <1>9, <2>1 DEF Ring, Slot, RingExact
  <2>3. Inc(c, r) = After(n, r) /\ After(n, r) \in 0..n-1 /\ q - 1 \in 0..n
    BY <2>1 DEF Inc, After
  <2>4. /\ buf' = [buf EXCEPT ![c][r] = Zero] /\ recvx' = [recvx EXCEPT ![c] = After(n, r)]
        /\ sendx' = sendx /\ qcount' = [qcount EXCEPT ![c] = q - 1]
    BY <1>1, <2>3
  <2>5. /\ Put(buf'[c], b, n, r, Zero)
        /\ recvx'[c] = After(n, r) /\ sendx'[c] = s /\ qcount'[c] = q - 1
        /\ \A d \in ChanAddr : d # c => /\ qcount'[d] = qcount[d] /\ buf'[d] = buf[d]
                                        /\ sendx'[d] = sendx[d] /\ recvx'[d] = recvx[d]
        /\ DOMAIN buf' = ChanAddr
    BY <1>2, <1>9, <2>1, <2>4 DEF RingType, Put
  <2>6. /\ qcount' \in [ChanAddr -> Nat] /\ sendx' \in [ChanAddr -> Nat] /\ recvx' \in [ChanAddr -> Nat]
    <3>1. After(n, r) \in Nat /\ q - 1 \in Nat
      BY <2>1, <2>3
    <3> QED BY <1>9, <2>4, <3>1 DEF RingType
  <2> HIDE DEF n, b, r, s, q
  <2>7. Ring(buf'[c], n, q - 1, After(n, r), s)
    BY <2>1, <2>2, <2>5, RingPop
  <2>8. buf'[c] \in [0..n-1 -> Value \cup {Zero}]
    BY <2>5 DEF Put
  <2> QED BY <1>2, <1>5, <2>1, <2>3, <2>5, <2>6, <2>7, <2>8, RingOne, ZenonT(40) DEF n
<1>11. \A b \in ChanAddr : \/ qcount'[b] = qcount[b]
                           \/ /\ lock[b] \in {Nil, g}
                              /\ \A d \in Dir : \A e \in Members(waitq[d][b]) : ~Live(e)
  <2>1. \A b \in ChanAddr : b # c => qcount'[b] = qcount[b]
    BY <1>1, <1>9 DEF RingType
  <2>2. qcount[c] # 0
    BY <1>a
  <2>3. \A e \in Members(waitq["recv"][c]) : ~Live(e)
    BY <1>2, <2>2 DEF IInv, WaitInv, WaitOf
  <2> QED BY <1>2, <1>3, <2>1, <2>3, DirFacts
<1>b. PICK u \in Value \cup {Zero} : u = buf[c][recvx[c]]
  BY <1>a
<1>12. Res(i, u, TRUE) \in ResultType /\ Res(i, u, TRUE).casi > 0
  BY <1>2 DEF ResultType, Res
<1>13. Res(i, u, TRUE).casi >= 0 /\ Res(i, u, TRUE).casi # 0
  BY <1>2 DEF Res
<1>14. Finishes(g, "return", Res(i, u, TRUE))
  BY <1>1, <1>5, <1>b DEF Finishes, Locked, Polling
<1>15. \A d \in Dir, b \in ChanAddr : \A e \in Members(waitq'[d][b]) : Live(e)' => Live(e)
  BY <1>6 DEF Shrinks
<1>16. wake'[g] = <<>> /\ \A w \in Goroutine : w # g => wake'[w] = wake[w]
  BY <1>1, <1>2
<1> QED BY <1>6, <1>7, <1>10, <1>11, <1>12, <1>13, <1>14, <1>15, <1>16, FinishStep

\* The channel is closed.
LEMMA OnclosedStep ==
    ASSUME IInv, NEW g \in Goroutine, NEW i, NEW P, Polling(g, i, P), NEW c, c = Case(g, i).c,
           onclosed(g, i, c), waitq' = Polled(g, P \cup {i}), Locked(g)
    PROVE  IInv'
<1>1. /\ closed[c] = 1
      /\ ret' = [ret EXCEPT ![g] = Res(i, Zero, FALSE)]
      /\ pc' = [pc EXCEPT ![g] = "return"]
      /\ UNCHANGED chanvars /\ UNCHANGED <<closed, selectDone, wake, elem>>
  BY DEF onclosed, Goto, Returns, chanvars
<1>2. /\ op[g] # NoOp /\ i \in Nat /\ i > 0 /\ c \in ChanAddr /\ wake[g] = <<>>
      /\ closed[c] = 1 => \A d \in Dir : Members(waitq[d][c]) = {}
  BY PollFacts
<1>4. \A d \in Dir, b \in ChanAddr : Polls(g, i, d, b) => ~HasWaiter(waitq[d][b])
  BY <1>1, <1>2, HasWaiterIs, DirFacts DEF Polls
<1>5. UNCHANGED <<op, closed, param, success, elem, selectDone, wake>>
  BY <1>1 DEF Locked
<1>6. /\ WakeInv' /\ SudogInv' /\ Shrinks({}) /\ QueuesOf(g)
      /\ \A d \in Dir, b \in ChanAddr : \A e \in Members(waitq[d][b]) : Live(e)' <=> Live(e)
  BY <1>1, <1>4, <1>5, SweepStep
<1>7. /\ elem' \in [Goroutine -> Value \cup {Zero}] /\ selectDone' \in [Goroutine -> {0, 1}]
      /\ wake' \in [Goroutine -> Seq(WakeType)]
  BY <1>1 DEF IInv, TypeOK, WakeType
<1>10. RingExact' /\ RingType' /\ qcount' = qcount
  BY <1>1, RingKept DEF chanvars
<1>12. Res(i, Zero, FALSE) \in ResultType /\ Res(i, Zero, FALSE).casi > 0
  BY <1>2 DEF ResultType, Res
<1>13. Res(i, Zero, FALSE).casi >= 0 /\ Res(i, Zero, FALSE).casi # 0
  BY <1>2 DEF Res
<1>14. Finishes(g, "return", Res(i, Zero, FALSE))
  BY <1>1, <1>5 DEF Finishes, Locked, Polling
<1>15. \A d \in Dir, b \in ChanAddr : \A e \in Members(waitq'[d][b]) : Live(e)' => Live(e)
  BY <1>6 DEF Shrinks
<1>16. wake'[g] = <<>> /\ \A w \in Goroutine : w # g => wake'[w] = wake[w]
  BY <1>1, <1>2
<1> QED BY <1>6, <1>7, <1>10, <1>12, <1>13, <1>14, <1>15, <1>16, FinishStep

\* One of these happens when a case proceeds.
LEMMA ProceedStep ==
    ASSUME IInv, NEW g \in Goroutine, NEW i, NEW P, Polling(g, i, P), Proceed(g, i, P), Locked(g)
    PROVE  IInv'
<1>a. PICK c : c = Case(g, i).c
  OBVIOUS
<1>1. /\ \/ Case(g, i).dir = "send" /\ (send(g, i, c) \/ bufsend(g, i, c))
         \/ Case(g, i).dir = "recv" /\ (recv(g, i, c) \/ bufrecv(g, i, c))
         \/ onclosed(g, i, c)
      /\ waitq' = Polled(g, P \cup {i})
  BY <1>a DEF Proceed
<1> QED BY <1>1, <1>a, SendStep, BufsendStep, RecvStep, BufrecvStep, OnclosedStep

\* A case that was not ready is not ready after the dead sudogs are gone.
LEMMA StillBlocked ==
    ASSUME Shrinks({}), UNCHANGED <<qcount, closed>>,
           \A d \in Dir, b \in ChanAddr : \A e \in Members(waitq[d][b]) : Live(e)' <=> Live(e),
           NEW k, k.c \in ChanAddr, ~Ready(k)
    PROVE  ~Ready(k)'
<1>1. ASSUME NEW d \in Dir, NEW b \in ChanAddr, HasWaiter(waitq[d][b])'
      PROVE  HasWaiter(waitq[d][b])
  <2>1. PICK j \in DOMAIN waitq'[d][b] : Live(waitq[d][b][j])'
    BY <1>1 DEF HasWaiter, LiveIn
  <2>2. waitq'[d][b][j] \in Members(waitq'[d][b])
    BY DEF Members
  <2>3. waitq'[d][b][j] \in Members(waitq[d][b])
    BY <2>2 DEF Shrinks
  <2>4. Live(waitq'[d][b][j])
    BY <2>1, <2>3 DEF Live
  <2> QED BY <2>3, <2>4 DEF HasWaiter, LiveIn, Members
<1>2. /\ HasWaiter(recvq[k.c])' => HasWaiter(recvq[k.c])
      /\ HasWaiter(sendq[k.c])' => HasWaiter(sendq[k.c])
  BY <1>1, DirFacts DEF recvq, sendq
<1> QED BY <1>2 DEF Ready, Sendable, Receivable

\* The default: no case is ready, at this very moment.
LEMMA GiveUpStep ==
    ASSUME IInv, NEW g \in Goroutine, NEW i, Polling(g, i, Cases(g)), GiveUp(g), Locked(g)
    PROVE  IInv'
<1>1. /\ ret' = [ret EXCEPT ![g] = Res(0, Zero, FALSE)]
      /\ pc' = [pc EXCEPT ![g] = "return"] /\ waitq' = Polled(g, Cases(g)) /\ ~op[g].block
      /\ UNCHANGED chanvars /\ UNCHANGED <<qcount, closed, selectDone, wake, elem>>
  BY DEF GiveUp, Goto, Returns, chanvars
<1>2. /\ op[g] # NoOp /\ wake[g] = <<>>
      /\ \A j \in Cases(g) : \A d \in Dir, b \in ChanAddr : Polls(g, j, d, b) => ~HasWaiter(waitq[d][b])
  BY PollFacts
<1>3. i \in Cases(g) /\ \A j \in Cases(g) : ~Ready(Case(g, j))
  BY DEF Polling
<1>4. \A d \in Dir, b \in ChanAddr : Polls(g, i, d, b) => ~HasWaiter(waitq[d][b])
  BY <1>2, <1>3
<1>5. UNCHANGED <<op, closed, param, success, elem, selectDone, wake>>
  BY <1>1 DEF Locked
<1>6. /\ WakeInv' /\ SudogInv' /\ Shrinks({}) /\ QueuesOf(g)
      /\ \A d \in Dir, b \in ChanAddr : \A e \in Members(waitq[d][b]) : Live(e)' <=> Live(e)
  BY <1>1, <1>4, <1>5, SweepStep
<1>7. /\ elem' \in [Goroutine -> Value \cup {Zero}] /\ selectDone' \in [Goroutine -> {0, 1}]
      /\ wake' \in [Goroutine -> Seq(WakeType)]
  BY <1>1 DEF IInv, TypeOK, WakeType
<1>10. RingExact' /\ RingType' /\ qcount' = qcount
  BY <1>1, RingKept DEF chanvars
<1>12. Res(0, Zero, FALSE) \in ResultType /\ Res(0, Zero, FALSE).casi = 0 /\ Res(0, Zero, FALSE).casi >= 0
  BY DEF ResultType, Res
<1>13. missed'[g]
  <2>1. \A j \in Cases(g) : Case(g, j).c \in ChanAddr
    BY <1>2, CallFacts DEF IInv
  <2>2. ASSUME NEW j \in Cases(g)
        PROVE  ~Ready(Case(g, j))'
    <3>1. PICK k : k = Case(g, j)
      OBVIOUS
    <3>2. ~Ready(k)'
      BY <1>1, <1>3, <1>6, <2>1, <3>1, StillBlocked
    <3>3. Case(g, j)' = k
      BY <1>5, <3>1 DEF Case
    <3> QED BY <3>2, <3>3 DEF Ready, Sendable, Receivable
  <2>3. Cases(g)' = Cases(g)
    BY <1>5 DEF Cases
  <2>4. Blocked(g)'
    BY <1>1, <1>2, <1>5, <2>2, <2>3 DEF Blocked
  <2> QED BY <2>4, ObserveType DEF Locked
<1>14. Finishes(g, "return", Res(0, Zero, FALSE))
  BY <1>1, <1>5 DEF Finishes, Locked, Polling
<1>15. \A d \in Dir, b \in ChanAddr : \A e \in Members(waitq'[d][b]) : Live(e)' => Live(e)
  BY <1>6 DEF Shrinks
<1>16. wake'[g] = <<>> /\ \A w \in Goroutine : w # g => wake'[w] = wake[w]
  BY <1>1, <1>2
<1> QED BY <1>6, <1>7, <1>10, <1>12, <1>13, <1>14, <1>15, <1>16, FinishStep

-----------------------------------------------------------------------------
(* A sudog is queued *)

\* Case i of g gets its sudog; nobody who waits is lost.
Gains(g, i) ==
    /\ waitq' \in QueueType
    /\ \A d \in Dir, c \in ChanAddr :
          /\ Distinct(waitq'[d][c])
          /\ \A e \in Members(waitq'[d][c]) :
                \/ e \in Members(waitq[d][c])
                \/ e = Sudog(g, i) /\ d = Case(g, i).dir /\ c = Case(g, i).c
          /\ \A e \in Members(waitq[d][c]) : Live(e) => e \in Members(waitq'[d][c])
    /\ Sudog(g, i) \in Members(waitq'[Case(g, i).dir][Case(g, i).c])

\* enqueue, once the dead sudogs are gone from some of the queues.
LEMMA EnqueueGains ==
    ASSUME NEW g \in Goroutine, NEW i \in Nat, NEW wq \in QueueType,
           Case(g, i).dir \in Dir, Case(g, i).c \in ChanAddr,
           \A d \in Dir, c \in ChanAddr :
              /\ Distinct(wq[d][c])
              /\ Members(wq[d][c]) \subseteq Members(waitq[d][c])
              /\ \A e \in Members(waitq[d][c]) : Live(e) => e \in Members(wq[d][c]),
           Sudog(g, i) \notin Members(wq[Case(g, i).dir][Case(g, i).c]),
           waitq' = Enqueue(wq, g, i)
    PROVE  /\ Gains(g, i)
           /\ \A d \in Dir, c \in ChanAddr :
                 d # Case(g, i).dir \/ c # Case(g, i).c => waitq'[d][c] = wq[d][c]
           /\ Members(waitq'[Case(g, i).dir][Case(g, i).c]) =
                 Members(wq[Case(g, i).dir][Case(g, i).c]) \cup {Sudog(g, i)}
<1>1. PICK d0 \in Dir : d0 = Case(g, i).dir
  OBVIOUS
<1>2. PICK c0 \in ChanAddr : c0 = Case(g, i).c
  OBVIOUS
<1>3. PICK x \in Sudogs : x = Sudog(g, i)
  BY DEF Sudog, Sudogs
<1>4. waitq' = [wq EXCEPT ![d0][c0] = Append(@, x)]
  BY <1>1, <1>2, <1>3 DEF Enqueue
<1>5. wq[d0][c0] \in Seq(Sudogs) /\ Distinct(wq[d0][c0]) /\ x \notin Members(wq[d0][c0])
  BY <1>1, <1>2, <1>3 DEF QueueType
<1>6. PICK q : q = Append(wq[d0][c0], x)
  OBVIOUS
<1>7. q \in Seq(Sudogs) /\ Members(q) = Members(wq[d0][c0]) \cup {x} /\ Distinct(q)
  BY <1>5, <1>6, AppendAdds
<1>8. /\ waitq'[d0][c0] = q
      /\ \A d \in Dir, c \in ChanAddr : d # d0 \/ c # c0 => waitq'[d][c] = wq[d][c]
      /\ waitq' \in QueueType
  BY <1>4, <1>6, <1>7 DEF QueueType
<1>9. Gains(g, i)
  <2>1. ASSUME NEW d \in Dir, NEW c \in ChanAddr
        PROVE  /\ Distinct(waitq'[d][c])
               /\ \A e \in Members(waitq'[d][c]) :
                     \/ e \in Members(waitq[d][c])
                     \/ e = x /\ d = d0 /\ c = c0
               /\ \A e \in Members(waitq[d][c]) : Live(e) => e \in Members(waitq'[d][c])
    <3>1. CASE d = d0 /\ c = c0
      BY <1>7, <1>8, <3>1
    <3>2. CASE ~(d = d0 /\ c = c0)
      BY <1>8, <3>2
    <3> QED BY <3>1, <3>2
  <2> QED BY <1>1, <1>2, <1>3, <1>7, <1>8, <2>1 DEF Gains
<1> QED BY <1>1, <1>2, <1>3, <1>7, <1>8, <1>9

\* When a goroutine may queue a sudog for case i.
Queues(g, i) ==
    /\ pc[g] \in {"lock", "pass2"} /\ pc'[g] \in {"pass2", "parked"}
    /\ pc[g] = "lock" => pc'[g] = "parked"
    /\ i \in Cases(g)
    /\ Gains(g, i) /\ QueuesOf(g)
    /\ closed[Case(g, i).c] = 0
    /\ lock[Case(g, i).c] \in {Nil, g}
    /\ \A e \in Members(waitq'[Other(Case(g, i).dir)][Case(g, i).c]) : e.g = g
    /\ Case(g, i).dir = "send" => qcount[Case(g, i).c] = Cap[Case(g, i).c]
    /\ Case(g, i).dir = "recv" => qcount[Case(g, i).c] = 0
    /\ pc'[g] = "parked" => \A j \in Cases(g) :
          Sudog(g, j) \in Members(waitq'[Case(g, j).dir][Case(g, j).c])
    /\ \A h \in Goroutine : h # g => pc'[h] = pc[h] /\ param'[h] = param[h]
    /\ UNCHANGED <<qcount, closed, op, selectDone, elem, success, wake>>

\* The queues after that.
LEMMA QueueStep ==
    ASSUME IInv, NEW g \in Goroutine, NEW i, Queues(g, i)
    PROVE  WakeInv' /\ SudogInv' /\ WaitInv'
<1>0. /\ pc[g] \in {"lock", "pass2"} /\ pc'[g] \in {"pass2", "parked"} /\ i \in Cases(g)
      /\ pc[g] = "lock" => pc'[g] = "parked"
      /\ UNCHANGED <<qcount, closed, op, selectDone, elem, success, wake>>
      /\ \A h \in Goroutine : h # g => pc'[h] = pc[h] /\ param'[h] = param[h]
      /\ Gains(g, i) /\ QueuesOf(g)
  BY DEF Queues
<1>1. /\ op[g] # NoOp /\ op[g].kind \in {"chan", "select"}
      /\ pc[g] = "pass2" => op[g].kind = "select"
  BY <1>0 DEF IInv, ControlInv, ControlOf, HoldsAll
<1>2. \A w \in Goroutine : Wakes(w)' = Wakes(w)
  BY <1>0 DEF Wakes
<1>3. \A h : HasWake(h)' <=> HasWake(h)
  BY <1>2 DEF HasWake
<1>4. /\ \A h : Cases(h)' = Cases(h)
      /\ \A h, j : Case(h, j)' = Case(h, j)
      /\ \A e : Live(e)' <=> Live(e)
  BY <1>0 DEF Cases, Case, Live
<1>5. ~HasWake(g)
  BY <1>0 DEF IInv, WakeInv, OneWake, HasWake
<1>6. PICK d0 \in Dir : d0 = Case(g, i).dir
  BY <1>0, <1>1, CallFacts DEF IInv
<1>7. PICK c0 \in ChanAddr : c0 = Case(g, i).c
  BY <1>0, <1>1, CallFacts DEF IInv
<1>a. Sudog(g, i).g = g /\ Sudog(g, i).casi = i
  BY DEF Sudog
<1>8. PICK x : x = Sudog(g, i) /\ x.g = g /\ x.casi = i
  BY <1>a
<1>9. /\ \A d \in Dir, c \in ChanAddr : Distinct(waitq'[d][c])
      /\ \A d \in Dir, c \in ChanAddr : \A e \in Members(waitq'[d][c]) :
            e \in Members(waitq[d][c]) \/ (e = x /\ d = d0 /\ c = c0)
      /\ \A d \in Dir, c \in ChanAddr : \A e \in Members(waitq[d][c]) :
            Live(e) => e \in Members(waitq'[d][c])
      /\ x \in Members(waitq'[d0][c0])
  BY <1>0, <1>6, <1>7, <1>8 DEF Gains
<1>10. WakeInv'
  <2>1. WakeInv
    BY DEF IInv
  <2>2. OneWake'
    <3>1. ASSUME NEW v \in Goroutine, NEW e \in Wakes(v)
          PROVE  pc'[e.g] = "parked"
      <4>1. wake[v] \in Seq(WakeType)
        BY DEF IInv, TypeOK, WakeType
      <4>2. e \in WakeType
        BY <4>1, MembersIn DEF Wakes
      <4>3. e.g \in Goroutine
        BY <4>2 DEF WakeType
      <4>4. e.g # g
        BY <1>5, <3>1 DEF HasWake
      <4> QED BY <1>0, <2>1, <4>3, <4>4 DEF WakeInv, OneWake
    <3> QED BY <1>0, <1>2, <1>4, <2>1, <3>1 DEF WakeInv, OneWake
  <2>3. ASSUME NEW h \in Goroutine
        PROVE  SignalOf(h)'
    <3>1. SignalOf(h)
      BY <2>1 DEF WakeInv
    <3>2. CASE h = g
      BY <1>0, <1>3, <3>1, <3>2 DEF SignalOf, Woken
    <3>3. CASE h # g
      BY <1>0, <1>3, <1>4, <3>1, <3>3 DEF SignalOf
    <3> QED BY <3>2, <3>3
  <2> QED BY <2>2, <2>3 DEF WakeInv
<1>11. SudogInv'
  <2>1. ASSUME NEW d \in Dir, NEW c \in ChanAddr, NEW e \in Members(waitq'[d][c])
        PROVE  SudogOf(e, d, c)'
    <3>1. CASE e \in Members(waitq[d][c])
      <4>1. e.g \in Goroutine /\ SudogOf(e, d, c)
        BY <3>1, Waiter
      <4>2. CASE e.g # g
        BY <1>0, <1>2, <1>3, <1>4, <4>1, <4>2 DEF SudogOf
      <4>3. CASE e.g = g
        BY <1>0, <1>1, <1>2, <1>3, <1>4, <4>1, <4>3 DEF SudogOf, Woken
      <4> QED BY <4>2, <4>3
    <3>2. CASE e = x /\ d = d0 /\ c = c0
      <4>1. \A w \in Goroutine : \A f \in Wakes(w) : f.g # g
        BY <1>5 DEF HasWake
      <4> QED BY <1>0, <1>1, <1>2, <1>3, <1>4, <1>5, <1>6, <1>7, <1>8, <3>2, <4>1 DEF SudogOf, Woken
    <3> QED BY <1>9, <3>1, <3>2
  <2>2. ASSUME NEW h \in Goroutine, pc'[h] = "parked", ~HasWake(h), NEW j \in Cases(h)
        PROVE  Sudog(h, j) \in Members(waitq'[Case(h, j).dir][Case(h, j).c])
    <3>1. CASE h = g
      BY <2>2, <3>1 DEF Queues
    <3>2. CASE h # g
      <4>0. pc[h] = "parked"
        BY <1>0, <2>2, <3>2
      <4>1. op[h] # NoOp /\ op[h].kind # "close"
        BY <4>0 DEF IInv, ControlInv, ControlOf
      <4>2. Case(h, j).dir \in Dir /\ Case(h, j).c \in ChanAddr
        BY <2>2, <4>1, CallFacts DEF IInv
      <4>3. Sudog(h, j) \in Members(waitq[Case(h, j).dir][Case(h, j).c]) /\ Sudog(h, j).g = h
        BY <2>2, <4>0 DEF IInv, SudogInv, Sudog
      <4> QED BY <1>9, <2>2, <4>0, <4>2, <4>3, Waiter
    <3> QED BY <3>1, <3>2
  <2> QED BY <1>3, <1>4, <1>9, <2>1, <2>2 DEF SudogInv
<1>12. WaitInv'
  <2>1. /\ closed[c0] = 0
        /\ \A e \in Members(waitq'[Other(d0)][c0]) : e.g = g
        /\ d0 = "send" => qcount[c0] = Cap[c0]
        /\ d0 = "recv" => qcount[c0] = 0
        /\ lock[c0] \in {Nil, g}
    BY <1>6, <1>7 DEF Queues
  <2>2. ASSUME NEW c \in ChanAddr
        PROVE  WaitOf(c)'
    <3>1. WaitOf(c)
      BY DEF IInv, WaitInv
    <3>2. \A e \in Members(waitq'["recv"][c]) : Live(e) => qcount[c] = 0
      BY <1>8, <1>9, <2>1, <3>1, DirFacts DEF WaitOf
    <3>3. \A e \in Members(waitq'["send"][c]) : Live(e) => qcount[c] = Cap[c]
      BY <1>8, <1>9, <2>1, <3>1, DirFacts DEF WaitOf
    <3>4. ASSUME NEW e \in Members(waitq'["recv"][c]), NEW f \in Members(waitq'["send"][c]),
                 Live(e), Live(f)
          PROVE  e.g = f.g
      <4>1. CASE e \in Members(waitq["recv"][c]) /\ f \in Members(waitq["send"][c])
        BY <3>1, <3>4, <4>1 DEF WaitOf
      <4>2. CASE e = x /\ d0 = "recv" /\ c = c0
        BY <1>8, <2>1, <3>4, <4>2, DirFacts
      <4>3. CASE f = x /\ d0 = "send" /\ c = c0
        BY <1>8, <2>1, <3>4, <4>3, DirFacts
      <4> QED BY <1>9, <3>4, <4>1, <4>2, <4>3, DirFacts
    <3>5. closed[c] = 1 => \/ \A d \in Dir : Members(waitq'[d][c]) = {}
                           \/ \E h \in Goroutine : pc'[h] = "closing" /\ c = Case(h, 1).c
      <4> SUFFICES ASSUME closed[c] = 1
                   PROVE  \/ \A d \in Dir : Members(waitq'[d][c]) = {}
                          \/ \E h \in Goroutine : pc'[h] = "closing" /\ c = Case(h, 1).c
        OBVIOUS
      <4>1. c # c0
        BY <2>1
      <4>2. CASE \A d \in Dir : Members(waitq[d][c]) = {}
        BY <1>9, <4>1, <4>2
      <4>3. CASE \E h \in Goroutine : pc[h] = "closing" /\ c = Case(h, 1).c
        BY <1>0, <4>3
      <4> QED BY <3>1, <4>2, <4>3 DEF WaitOf
    <3> QED BY <1>0, <1>4, <3>2, <3>3, <3>4, <3>5 DEF WaitOf
  <2>3. ASSUME NEW h \in Goroutine
        PROVE  Pass2Of(h)'
    <3> SUFFICES ASSUME pc'[h] = "pass2", NEW j \in Cases(h)
                 PROVE  /\ closed[Case(h, j).c] = 0
                        /\ \A e \in Members(waitq'[Other(Case(h, j).dir)][Case(h, j).c]) : e.g = h
                        /\ Case(h, j).dir = "send" => qcount[Case(h, j).c] = Cap[Case(h, j).c]
                        /\ Case(h, j).dir = "recv" => qcount[Case(h, j).c] = 0
      BY <1>0, <1>4 DEF Pass2Of
    <3>0. pc[h] = "pass2"
      BY <1>0
    <3>1. op[h] # NoOp /\ op[h].kind # "close"
      BY <3>0 DEF IInv, ControlInv, ControlOf, HoldsAll
    <3>2. Other(Case(h, j).dir) \in Dir /\ Case(h, j).c \in ChanAddr /\ Case(h, j).c \in Channels(h)
      BY <3>1, CallFacts, DirFacts DEF IInv
    <3>3. /\ closed[Case(h, j).c] = 0
          /\ \A e \in Members(waitq[Other(Case(h, j).dir)][Case(h, j).c]) : e.g = h
          /\ Case(h, j).dir = "send" => qcount[Case(h, j).c] = Cap[Case(h, j).c]
          /\ Case(h, j).dir = "recv" => qcount[Case(h, j).c] = 0
      BY <3>0 DEF IInv, WaitInv, Pass2Of
    <3>4. lock[Case(h, j).c] = h
      BY <3>0, <3>2 DEF IInv, LockInv, LockOf, HoldsAll
    <3>5. CASE h = g
      BY <1>8, <1>9, <3>2, <3>3, <3>5
    <3>6. CASE h # g
      BY <2>1, <1>9, <3>2, <3>3, <3>4, <3>6, ChanAssumption
    <3> QED BY <3>5, <3>6
  <2> QED BY <2>2, <2>3 DEF WaitInv
<1> QED BY <1>10, <1>11, <1>12

-----------------------------------------------------------------------------
(* chansend and chanrecv, locked *)

\* The call queues itself and parks, or proceeds, or gives up.
LEMMA ChanOpStep ==
    ASSUME IInv, NEW g \in Goroutine, ChanOp(g)
    PROVE  IInv'
<1>0. TypeOK /\ ControlOf(g) /\ LockOf(g)
  BY DEF IInv, ControlInv, LockInv
<1>1. /\ pc[g] = "lock" /\ lock[Case(g, 1).c] = Nil
      /\ UNCHANGED <<lock, op, todo, parking, success>> /\ Observe
  BY DEF ChanOp
<1>2. op[g] # NoOp /\ op[g].kind = "chan"
  BY <1>0, <1>1 DEF ControlOf
<1>3. Cases(g) = {1} /\ Case(g, 1).c \in ChanAddr /\ Case(g, 1).dir \in Dir
  BY <1>0, <1>2, CallFacts
<1>4. todo[g] = {} /\ parking[g] = {} /\ \A c \in ChanAddr : lock[c] # g
  BY <1>0, <1>1 DEF LockOf, HoldsAll
<1>5. lock' = Unlocked(g)
  BY <1>0, <1>1, <1>4 DEF Unlocked, TypeOK
<1>6. CASE Proceed(g, 1, {}) /\ UNCHANGED param
  <2>1. Polling(g, 1, {})
    BY <1>1, <1>3 DEF Polling
  <2>2. Locked(g)
    BY <1>1, <1>5, <1>6 DEF Locked
  <2> QED BY <1>6, <2>1, <2>2, ProceedStep
<1>7. CASE NoneReady(g) /\ GiveUp(g) /\ UNCHANGED param
  <2>1. Polling(g, 1, Cases(g))
    BY <1>1, <1>3, <1>7 DEF Polling, NoneReady
  <2>2. Locked(g)
    BY <1>1, <1>5, <1>7 DEF Locked
  <2> QED BY <1>7, <2>1, <2>2, GiveUpStep
<1>8. CASE NoneReady(g) /\ Park(g)
  <2>1. /\ waitq' = Enqueue(Polled(g, {1}), g, 1) /\ param' = [param EXCEPT ![g] = 0]
        /\ pc' = [pc EXCEPT ![g] = "parked"]
        /\ UNCHANGED chanvars /\ UNCHANGED <<selectDone, wake, elem, ret, qcount, closed>>
    BY <1>8 DEF Park, Goto, chanvars
  <2>2. PICK d0 \in Dir : d0 = Case(g, 1).dir
    BY <1>3
  <2>3. PICK c0 \in ChanAddr : c0 = Case(g, 1).c
    BY <1>3
  <2>4. ~Ready(Case(g, 1))
    BY <1>3, <1>8 DEF NoneReady
  <2>5. closed[c0] = 0 /\ closed[c0] \in {0, 1} /\ qcount[c0] \in 0..Cap[c0] /\ Cap[c0] \in Nat
    BY <1>0, <2>3, <2>4, ChanAssumption DEF Ready, TypeOK
  <2>6. /\ d0 = "send" => ~HasWaiter(waitq["recv"][c0]) /\ qcount[c0] = Cap[c0]
        /\ d0 = "recv" => ~HasWaiter(waitq["send"][c0]) /\ qcount[c0] = 0
    BY <2>2, <2>3, <2>4, <2>5 DEF Ready, Sendable, Receivable, recvq, sendq
  <2>7. PICK wq : wq = Polled(g, {1})
    OBVIOUS
  <2>8. ASSUME NEW d \in Dir, NEW c \in ChanAddr
        PROVE  wq[d][c] = IF d = Other(d0) /\ c = c0 THEN Rest(waitq[d][c]) ELSE waitq[d][c]
    <3>1. Polls(g, 1, d, c) <=> d = Other(d0) /\ c = c0
      BY <1>2, <2>2, <2>3, <2>5, DirFacts DEF Polls
    <3> QED BY <2>7, <3>1 DEF Polled
  <2>9. ~HasWaiter(waitq[Other(d0)][c0]) /\ Other(d0) \in Dir
    BY <2>2, <2>6, DirFacts
  <2>10. waitq \in QueueType /\ \A d \in Dir, c \in ChanAddr : Distinct(waitq[d][c])
    BY DEF IInv, TypeOK, SudogInv, QueueType
  <2>11. Rest(waitq[Other(d0)][c0]) = <<>>
    <3>1. waitq[Other(d0)][c0] \in Seq(Sudogs)
      BY <2>9, <2>10 DEF QueueType
    <3> QED BY <2>9, <2>10, <3>1, RestFacts
  <2>12. Members(<<>>) = {} /\ Distinct(<<>>) /\ <<>> \in Seq(Sudogs)
    BY DEF Members, Distinct
  <2>13. ASSUME NEW d \in Dir, NEW c \in ChanAddr
         PROVE  /\ wq[d][c] \in Seq(Sudogs) /\ Distinct(wq[d][c])
                /\ Members(wq[d][c]) \subseteq Members(waitq[d][c])
                /\ \A e \in Members(waitq[d][c]) : Live(e) => e \in Members(wq[d][c])
    <3>1. CASE d = Other(d0) /\ c = c0
      <4>1. \A e \in Members(waitq[d][c]) : ~Live(e)
        BY <2>9, <3>1, HasWaiterIs
      <4> QED BY <2>8, <2>11, <2>12, <3>1, <4>1
    <3>2. CASE ~(d = Other(d0) /\ c = c0)
      BY <2>8, <2>10, <3>2 DEF QueueType
    <3> QED BY <3>1, <3>2
  <2>14. wq \in QueueType
    BY <2>7, <2>13 DEF Polled, QueueType
  <2>15. Sudog(g, 1) \notin Members(wq[d0][c0])
    <3>1. \A e \in Members(waitq[d0][c0]) : e.g # g
      BY <1>1, Absent DEF Woken
    <3> QED BY <2>13, <3>1 DEF Sudog
  <2>16. /\ Gains(g, 1)
         /\ \A d \in Dir, c \in ChanAddr : d # d0 \/ c # c0 => waitq'[d][c] = wq[d][c]
         /\ Members(waitq'[d0][c0]) = Members(wq[d0][c0]) \cup {Sudog(g, 1)}
    <3>1. waitq' = Enqueue(wq, g, 1) /\ 1 \in Nat
      BY <2>1, <2>7
    <3>2. \A d \in Dir, c \in ChanAddr :
             /\ Distinct(wq[d][c])
             /\ Members(wq[d][c]) \subseteq Members(waitq[d][c])
             /\ \A e \in Members(waitq[d][c]) : Live(e) => e \in Members(wq[d][c])
      BY <2>13
    <3>3. /\ Gains(g, 1)
          /\ \A d \in Dir, c \in ChanAddr :
                d # Case(g, 1).dir \/ c # Case(g, 1).c => waitq'[d][c] = wq[d][c]
          /\ Members(waitq'[Case(g, 1).dir][Case(g, 1).c]) =
                Members(wq[Case(g, 1).dir][Case(g, 1).c]) \cup {Sudog(g, 1)}
      BY <1>3, <2>2, <2>3, <2>14, <2>15, <3>1, <3>2, EnqueueGains
    <3> QED BY <2>2, <2>3, <3>3
  <2>17. QueuesOf(g)
    BY <1>1, <2>3, <2>8, <2>16 DEF QueuesOf
  <2>18. /\ pc'[g] = "parked" /\ param'[g] = 0
         /\ \A h \in Goroutine : h # g => pc'[h] = pc[h] /\ param'[h] = param[h]
    BY <1>0, <2>1 DEF TypeOK
  <2>19. Queues(g, 1)
    <3>1. \A e \in Members(waitq'[Other(d0)][c0]) : e.g = g
      BY <2>8, <2>9, <2>11, <2>12, <2>16, DirFacts
    <3> QED BY <1>1, <1>3, <2>1, <2>2, <2>3, <2>5, <2>6, <2>16, <2>17, <2>18, <3>1 DEF Queues
  <2>20. WakeInv' /\ SudogInv' /\ WaitInv'
    BY <2>19, QueueStep
  <2>21. Others(g) /\ StaysClosed /\ LocksOf(g)
    BY <1>1, <2>1, <2>18 DEF Others, Stays, StaysClosed, LocksOf
  <2>22. TypeOK'
    <3>1. pc' \in [Goroutine -> Label] /\ param' \in [Goroutine -> Nat]
      BY <1>0, <2>1 DEF TypeOK, Label
    <3>2. waitq' \in [Dir -> [ChanAddr -> Seq(Sudogs)]]
      BY <2>16 DEF Gains, QueueType
    <3>3. missed' \in [Goroutine -> BOOLEAN] /\ opened' \in [Goroutine -> BOOLEAN]
      BY <1>1, ObserveType
    <3> QED BY <1>0, <1>1, <2>1, <3>1, <3>2, <3>3 DEF TypeOK, chanvars
  <2>23. ControlInv'
    <3>1. ControlOf(g)'
      BY <1>0, <1>1, <1>2, <2>1, <2>18 DEF ControlOf, HoldsAll
    <3> QED BY <2>21, <3>1, OtherControl DEF ControlInv
  <2>24. LockInv'
    <3>1. \A c \in ChanAddr : lock'[c] # g
      BY <1>1, <1>4
    <3>2. LockOf(g)'
      BY <1>1, <1>4, <2>18, <3>1 DEF LockOf, HoldsAll
    <3> QED BY <2>21, <3>2, OtherLock DEF LockInv
  <2>25. RingExact'
    BY <2>1, RingKept
  <2>26. MissInv'
    <3>1. MissOf(g)'
      BY <1>1, <2>18, ObserveType DEF MissOf, Defaulted, SendAlone
    <3> QED BY <1>1, <2>21, <3>1, OtherMiss DEF MissInv
  <2> QED BY <2>20, <2>22, <2>23, <2>24, <2>25, <2>26 DEF IInv
<1> QED BY <1>6, <1>7, <1>8 DEF ChanOp

-----------------------------------------------------------------------------
(* selectgo, locked *)

\* Pass 1.
LEMMA SelectPass1Step ==
    ASSUME IInv, NEW g \in Goroutine, SelectPass1(g)
    PROVE  IInv'
<1>0. TypeOK /\ ControlOf(g) /\ LockOf(g)
  BY DEF IInv, ControlInv, LockInv
<1>1. pc[g] = "pass1" /\ UNCHANGED <<op, todo, parking, param, success>> /\ Observe
  BY DEF SelectPass1
<1>2. op[g] # NoOp /\ op[g].kind = "select"
  BY <1>0, <1>1 DEF ControlOf, HoldsAll
<1>3. /\ 1 \in Cases(g)
      /\ \A j \in Cases(g) : Case(g, j).c \in ChanAddr /\ Case(g, j).c \in Channels(g) /\ Case(g, j).dir \in Dir
  BY <1>0, <1>2, CallFacts
<1>4. \A j \in Cases(g) : lock[Case(g, j).c] = g
  BY <1>0, <1>1, <1>3 DEF LockOf, HoldsAll
<1>5. todo[g] = {} /\ parking[g] = {}
  BY <1>0, <1>1 DEF LockOf
<1>6. CASE /\ \E i \in Cases(g), P \in SUBSET {j \in Cases(g) : ~Ready(Case(g, j))} :
                 /\ Ready(Case(g, i))
                 /\ Proceed(g, i, P)
           /\ lock' = Unlocked(g)
  <2>1. PICK i \in Cases(g), P \in SUBSET {j \in Cases(g) : ~Ready(Case(g, j))} : Proceed(g, i, P)
    BY <1>6
  <2>2. Polling(g, i, P)
    BY <1>1, <1>4 DEF Polling
  <2>3. Locked(g)
    BY <1>1, <1>6 DEF Locked
  <2> QED BY <2>1, <2>2, <2>3, ProceedStep
<1>7. CASE NoneReady(g) /\ GiveUp(g) /\ lock' = Unlocked(g)
  <2>1. Polling(g, 1, Cases(g))
    BY <1>1, <1>3, <1>4, <1>7 DEF Polling, NoneReady
  <2>2. Locked(g)
    BY <1>1, <1>7 DEF Locked
  <2> QED BY <1>7, <2>1, <2>2, GiveUpStep
<1>8. CASE /\ NoneReady(g)
           /\ op[g].block
           /\ waitq' = Polled(g, Cases(g))
           /\ Goto(g, "pass2")
           /\ UNCHANGED <<lock, selectDone, wake, elem, ret, qcount, buf, sendx, recvx, closed>>
  <2>1. /\ waitq' = Polled(g, Cases(g)) /\ pc' = [pc EXCEPT ![g] = "pass2"]
        /\ UNCHANGED chanvars /\ UNCHANGED <<lock, selectDone, wake, elem, ret, qcount, closed>>
        /\ \A j \in Cases(g) : ~Ready(Case(g, j))
    BY <1>8 DEF Goto, chanvars, NoneReady
  <2>2. Polling(g, 1, Cases(g))
    BY <1>1, <1>3, <1>4, <2>1 DEF Polling
  <2>3. \A j \in Cases(g) : \A d \in Dir, b \in ChanAddr : Polls(g, j, d, b) => ~HasWaiter(waitq[d][b])
    BY <2>2, PollFacts
  <2>4. /\ WakeInv' /\ SudogInv' /\ Shrinks({}) /\ QueuesOf(g)
        /\ \A d \in Dir, b \in ChanAddr : \A e \in Members(waitq[d][b]) : Live(e)' <=> Live(e)
    <3>1. UNCHANGED <<op, closed, param, success, elem, selectDone, wake>>
      BY <1>1, <2>1
    <3> QED BY <1>3, <2>1, <2>2, <2>3, <3>1, SweepStep
  <2>5. pc'[g] = "pass2" /\ \A h \in Goroutine : h # g => pc'[h] = pc[h]
    BY <1>0, <2>1 DEF TypeOK
  <2>6. Pass2Of(g)'
    <3>1. Cases(g)' = Cases(g) /\ \A j : Case(g, j)' = Case(g, j)
      BY <1>1 DEF Cases, Case
    <3>2. ASSUME NEW j \in Cases(g)
          PROVE  /\ closed[Case(g, j).c] = 0
                 /\ \A e \in Members(waitq'[Other(Case(g, j).dir)][Case(g, j).c]) : e.g = g
                 /\ Case(g, j).dir = "send" => qcount[Case(g, j).c] = Cap[Case(g, j).c]
                 /\ Case(g, j).dir = "recv" => qcount[Case(g, j).c] = 0
      <4>1. PICK c \in ChanAddr : c = Case(g, j).c
        BY <1>3
      <4>2. PICK d \in Dir : d = Other(Case(g, j).dir)
        BY <1>3, DirFacts
      <4>3. closed[c] \in {0, 1} /\ qcount[c] \in 0..Cap[c] /\ Cap[c] \in Nat
        BY <1>0, ChanAssumption DEF TypeOK
      <4>4. closed[c] = 0
        BY <2>1, <4>1, <4>3 DEF Ready
      <4>5. /\ Case(g, j).dir = "send" => qcount[c] = Cap[c]
            /\ Case(g, j).dir = "recv" => qcount[c] = 0
        BY <2>1, <4>1, <4>3, <4>4 DEF Ready, Sendable, Receivable
      <4>6. Polls(g, j, d, c)
        BY <1>3, <4>1, <4>2, <4>4, DirFacts DEF Polls
      <4>7. ~HasWaiter(waitq[d][c])
        BY <2>3, <4>6
      <4>8. waitq'[d][c] = Rest(waitq[d][c])
        BY <2>1, <4>6 DEF Polled
      <4>9. waitq[d][c] \in Seq(Sudogs) /\ Distinct(waitq[d][c])
        BY DEF IInv, TypeOK, SudogInv
      <4>10. waitq'[d][c] = <<>>
        BY <4>7, <4>8, <4>9, RestFacts
      <4> QED BY <4>1, <4>2, <4>4, <4>5, <4>10 DEF Members
    <3> QED BY <2>1, <3>1, <3>2 DEF Pass2Of
  <2>7. WaitInv'
    <3>1. \A d \in Dir, c \in ChanAddr : \A e \in Members(waitq'[d][c]) : Live(e)' => Live(e)
      BY <2>4 DEF Shrinks
    <3>2. \A h \in Goroutine : h # g => pc'[h] = pc[h] /\ op'[h] = op[h]
      BY <1>1, <2>5
    <3> QED BY <1>1, <2>1, <2>4, <2>6, <3>1, <3>2, WaitStep
  <2>8. Others(g) /\ StaysClosed /\ LocksOf(g)
    BY <1>1, <2>1, <2>5 DEF Others, Stays, StaysClosed, LocksOf
  <2>9. TypeOK'
    <3>1. pc' \in [Goroutine -> Label]
      BY <1>0, <2>1 DEF TypeOK, Label
    <3>2. waitq' \in [Dir -> [ChanAddr -> Seq(Sudogs)]]
      BY <2>4 DEF Shrinks, QueueType
    <3>3. missed' \in [Goroutine -> BOOLEAN] /\ opened' \in [Goroutine -> BOOLEAN]
      BY <1>1, ObserveType
    <3> QED BY <1>0, <1>1, <2>1, <3>1, <3>2, <3>3 DEF TypeOK, chanvars
  <2>10. ControlInv'
    <3>1. op'[g].block
      BY <1>1, <1>8
    <3>2. ControlOf(g)'
      BY <1>0, <1>1, <1>2, <2>1, <2>5, <3>1 DEF ControlOf, HoldsAll
    <3> QED BY <2>8, <3>2, OtherControl DEF ControlInv
  <2>11. LockInv'
    <3>1. Channels(g)' = Channels(g)
      BY <1>1 DEF Channels, Cases, Case
    <3>2. \A c \in Channels(g) : lock'[c] = g
      BY <1>0, <1>1, <2>1 DEF LockOf, HoldsAll
    <3>3. LockOf(g)'
      <4>1. \A c \in ChanAddr : lock'[c] = g => c \in Channels(g)
        BY <1>0, <1>1, <1>5, <2>1 DEF LockOf
      <4> QED BY <1>1, <1>5, <2>5, <3>1, <3>2, <4>1 DEF LockOf, HoldsAll
    <3> QED BY <2>8, <3>3, OtherLock DEF LockInv
  <2>12. RingExact'
    BY <2>1, RingKept
  <2>13. MissInv'
    <3>1. MissOf(g)'
      BY <1>1, <2>5, ObserveType DEF MissOf, Defaulted, SendAlone
    <3> QED BY <1>1, <2>8, <3>1, OtherMiss DEF MissInv
  <2> QED BY <2>4, <2>7, <2>9, <2>10, <2>11, <2>12, <2>13 DEF IInv
<1> QED BY <1>6, <1>7, <1>8 DEF SelectPass1

\* Entries and Members are the same thing.
LEMMA EntriesAre ==
    \A q : Entries(q) = Members(q)
  BY DEF Entries, Members

\* Pass 2.
LEMMA SelectPass2Step ==
    ASSUME IInv, NEW g \in Goroutine, SelectPass2(g)
    PROVE  IInv'
<1>0. TypeOK /\ ControlOf(g) /\ LockOf(g) /\ Pass2Of(g)
  BY DEF IInv, ControlInv, LockInv, WaitInv
<1>1. /\ pc[g] = "pass2" /\ Observe
      /\ UNCHANGED <<qcount, buf, sendx, recvx, closed, lock, op, todo, selectDone, elem,
                     success, wake, ret>>
  BY DEF SelectPass2
<1>2. PICK i \in Unqueued(g) :
         /\ waitq' = Enqueue(waitq, g, i)
         /\ IF Unqueued(g) = {i}
            THEN /\ pc' = [pc EXCEPT ![g] = "parked"]
                 /\ param' = [param EXCEPT ![g] = 0]
                 /\ parking' = [parking EXCEPT ![g] = Channels(g)]
            ELSE UNCHANGED <<pc, param, parking>>
  BY DEF SelectPass2, Goto
<1>3. op[g] # NoOp /\ op[g].kind = "select"
  BY <1>0, <1>1 DEF ControlOf, HoldsAll
<1>4. /\ Cases(g) \subseteq Nat \ {0} /\ Channels(g) \subseteq ChanAddr
      /\ \A j \in Cases(g) : Case(g, j).c \in ChanAddr /\ Case(g, j).c \in Channels(g) /\ Case(g, j).dir \in Dir
  BY <1>0, <1>3, CallFacts
<1>5. /\ i \in Cases(g) /\ i \in Nat
      /\ Sudog(g, i) \notin Members(waitq[Case(g, i).dir][Case(g, i).c])
  BY <1>2, <1>4, EntriesAre DEF Unqueued
<1>6. waitq \in QueueType /\ \A d \in Dir, c \in ChanAddr : Distinct(waitq[d][c])
  BY DEF IInv, TypeOK, SudogInv, QueueType
<1>7. /\ Gains(g, i)
      /\ \A d \in Dir, c \in ChanAddr :
            d # Case(g, i).dir \/ c # Case(g, i).c => waitq'[d][c] = waitq[d][c]
      /\ Members(waitq'[Case(g, i).dir][Case(g, i).c]) =
            Members(waitq[Case(g, i).dir][Case(g, i).c]) \cup {Sudog(g, i)}
  BY <1>2, <1>4, <1>5, <1>6, EnqueueGains
<1>8. \A c \in Channels(g) : lock[c] = g
  BY <1>0, <1>1 DEF LockOf, HoldsAll
<1>9. QueuesOf(g)
  BY <1>4, <1>5, <1>7, <1>8 DEF QueuesOf
<1>10. /\ \A h \in Goroutine : h # g => pc'[h] = pc[h] /\ param'[h] = param[h] /\ parking'[h] = parking[h]
       /\ pc'[g] \in {"pass2", "parked"}
       /\ pc'[g] = "parked" => parking'[g] = Channels(g) /\ Unqueued(g) = {i}
       /\ pc'[g] = "pass2" => parking'[g] = parking[g]
  BY <1>0, <1>1, <1>2 DEF TypeOK
<1>11. ASSUME pc'[g] = "parked", NEW j \in Cases(g)
       PROVE  Sudog(g, j) \in Members(waitq'[Case(g, j).dir][Case(g, j).c])
  <2>1. CASE j = i
    BY <1>7, <2>1
  <2>2. CASE j # i
    <3>1. j \notin Unqueued(g)
      BY <1>10, <1>11, <2>2
    <3>2. Sudog(g, j) \in Members(waitq[Case(g, j).dir][Case(g, j).c])
      BY <3>1, EntriesAre DEF Unqueued
    <3>3. Case(g, j).dir \in Dir /\ Case(g, j).c \in ChanAddr
      BY <1>4
    <3> QED BY <1>7, <3>2, <3>3
  <2> QED BY <2>1, <2>2
<1>12. Queues(g, i)
  <2>1. \A e \in Members(waitq'[Other(Case(g, i).dir)][Case(g, i).c]) : e.g = g
    <3>1. Other(Case(g, i).dir) \in Dir /\ Other(Case(g, i).dir) # Case(g, i).dir
      BY <1>4, <1>5, DirFacts
    <3>2. waitq'[Other(Case(g, i).dir)][Case(g, i).c] = waitq[Other(Case(g, i).dir)][Case(g, i).c]
      BY <1>4, <1>5, <1>7, <3>1
    <3> QED BY <1>0, <1>1, <1>5, <3>2 DEF Pass2Of
  <2>2. /\ closed[Case(g, i).c] = 0
        /\ Case(g, i).dir = "send" => qcount[Case(g, i).c] = Cap[Case(g, i).c]
        /\ Case(g, i).dir = "recv" => qcount[Case(g, i).c] = 0
    BY <1>0, <1>1, <1>5 DEF Pass2Of
  <2>3. lock[Case(g, i).c] \in {Nil, g}
    BY <1>4, <1>5, <1>8
  <2> QED BY <1>1, <1>5, <1>7, <1>9, <1>10, <1>11, <2>1, <2>2, <2>3 DEF Queues
<1>13. WakeInv' /\ SudogInv' /\ WaitInv'
  BY <1>12, QueueStep
<1>14. Others(g) /\ StaysClosed /\ LocksOf(g)
  BY <1>1, <1>10 DEF Others, Stays, StaysClosed, LocksOf
<1>15. TypeOK'
  <2>1. /\ pc' \in [Goroutine -> Label] /\ param' \in [Goroutine -> Nat]
        /\ parking' \in [Goroutine -> SUBSET ChanAddr]
    <3>1. CASE Unqueued(g) = {i}
      <4>1. pc' \in [Goroutine -> Label]
        BY <1>0, <1>2, <3>1 DEF TypeOK, Label
      <4>0. param' = [param EXCEPT ![g] = 0] /\ param \in [Goroutine -> Nat]
        BY <1>0, <1>2, <3>1 DEF TypeOK
      <4>2. param' \in [Goroutine -> Nat]
        BY <4>0
      <4>3. Channels(g) \in SUBSET ChanAddr
        BY <1>4
      <4>4. parking' \in [Goroutine -> SUBSET ChanAddr]
        BY <1>0, <1>2, <3>1, <4>3 DEF TypeOK
      <4> QED BY <4>1, <4>2, <4>4
    <3>2. CASE Unqueued(g) # {i}
      BY <1>0, <1>2, <3>2 DEF TypeOK
    <3> QED BY <3>1, <3>2
  <2>2. waitq' \in [Dir -> [ChanAddr -> Seq(Sudogs)]]
    BY <1>7 DEF Gains, QueueType
  <2>3. missed' \in [Goroutine -> BOOLEAN] /\ opened' \in [Goroutine -> BOOLEAN]
    BY <1>1, ObserveType
  <2> QED BY <1>0, <1>1, <2>1, <2>2, <2>3 DEF TypeOK
<1>16. ControlInv'
  <2>1. ControlOf(g)'
    BY <1>0, <1>1, <1>3, <1>10 DEF ControlOf, HoldsAll
  <2> QED BY <1>14, <2>1, OtherControl DEF ControlInv
<1>17. LockInv'
  <2>1. Channels(g)' = Channels(g)
    BY <1>1 DEF Channels, Cases, Case
  <2>2. todo[g] = {} /\ parking[g] = {}
    BY <1>0, <1>1 DEF LockOf
  <2>3. \A c \in ChanAddr : lock[c] = g => c \in Channels(g)
    BY <1>0, <1>1, <2>2 DEF LockOf
  <2>4. CASE pc'[g] = "pass2"
    BY <1>1, <1>8, <1>10, <1>14, <2>1, <2>2, <2>3, <2>4, OtherLock DEF LockOf, LockInv, HoldsAll
  <2>5. CASE pc'[g] = "parked"
    BY <1>1, <1>3, <1>8, <1>10, <1>14, <2>1, <2>2, <2>3, <2>5, OtherLock DEF LockOf, LockInv, HoldsAll
  <2> QED BY <1>10, <2>4, <2>5
<1>18. RingExact'
  BY <1>1, RingKept DEF chanvars
<1>19. MissInv'
  <2>1. MissOf(g)'
    BY <1>1, <1>10, ObserveType DEF MissOf, Defaulted, SendAlone
  <2> QED BY <1>1, <1>14, <2>1, OtherMiss DEF MissInv
<1> QED BY <1>13, <1>15, <1>16, <1>17, <1>18, <1>19 DEF IInv

\* Pass 3 takes one of the other sudogs off its queue.
LEMMA UnqueueStep ==
    ASSUME IInv, NEW g \in Goroutine, pc[g] = "pass3", NEW i \in Unsuccessful(g),
           NEW d0, d0 = Case(g, i).dir, NEW c0, c0 = Case(g, i).c,
           NEW k \in DOMAIN waitq[d0][c0], waitq[d0][c0][k] = Sudog(g, i),
           waitq' = [waitq EXCEPT ![d0][c0] = dequeueSudoG(@, k)],
           UNCHANGED <<pc, selectDone, param, ret, lock, qcount, buf, sendx, recvx, closed, op,
                       todo, parking, elem, success, wake>>, Observe
    PROVE  IInv'
<1>0. TypeOK /\ ControlOf(g) /\ LockOf(g)
  BY DEF IInv, ControlInv, LockInv
<1>1. op[g] # NoOp /\ op[g].kind = "select" /\ i \in Cases(g)
  BY <1>0 DEF ControlOf, HoldsAll, Unsuccessful
<1>2. d0 \in Dir /\ c0 \in ChanAddr
  BY <1>0, <1>1, CallFacts
<1>3. waitq \in QueueType /\ \A d \in Dir, c \in ChanAddr : Distinct(waitq[d][c])
  BY DEF IInv, TypeOK, SudogInv, QueueType
<1>4. waitq[d0][c0] \in Seq(Sudogs)
  BY <1>2, <1>3 DEF QueueType
<1>5. PICK q : q = dequeueSudoG(waitq[d0][c0], k)
  OBVIOUS
<1>6. q \in Seq(Sudogs) /\ Distinct(q) /\ Members(q) = Members(waitq[d0][c0]) \ {Sudog(g, i)}
  BY <1>2, <1>3, <1>4, <1>5, RemoveFacts
<1>7. /\ waitq' \in QueueType /\ waitq'[d0][c0] = q
      /\ \A d \in Dir, c \in ChanAddr : d # d0 \/ c # c0 => waitq'[d][c] = waitq[d][c]
  BY <1>2, <1>3, <1>5, <1>6 DEF QueueType
<1>8. ~Live(Sudog(g, i))
  <2>1. Sudog(g, i) \in Members(waitq[d0][c0]) /\ Sudog(g, i).g = g
    BY DEF Members, Sudog
  <2> QED BY <1>2, <2>1, Waiter
<1>9. Shrinks({})
  <2>1. ASSUME NEW d \in Dir, NEW c \in ChanAddr
        PROVE  /\ Distinct(waitq'[d][c])
               /\ Members(waitq'[d][c]) \subseteq Members(waitq[d][c]) \ {}
               /\ \A e \in Members(waitq[d][c]) : Live(e) => e \in Members(waitq'[d][c]) \cup {}
    <3>1. CASE d = d0 /\ c = c0
      BY <1>6, <1>7, <1>8, <3>1
    <3>2. CASE ~(d = d0 /\ c = c0)
      BY <1>3, <1>7, <3>2
    <3> QED BY <3>1, <3>2
  <2> QED BY <1>7, <2>1 DEF Shrinks
<1>10. WakeInv' /\ SudogInv' /\ WaitInv'
  BY <1>9, StillStep
<1>11. Others(g) /\ Stays(g) /\ StaysClosed /\ \A c \in ChanAddr : lock'[c] = g <=> lock[c] = g
  BY DEF Others, Stays, StaysClosed
<1>12. LocksOf(g)
  BY DEF LocksOf
<1>13. TypeOK'
  <2>1. missed' \in [Goroutine -> BOOLEAN] /\ opened' \in [Goroutine -> BOOLEAN]
    BY ObserveType
  <2> QED BY <1>0, <1>7, <2>1 DEF TypeOK, QueueType
<1>14. ControlInv'
  BY <1>11, StayControl, OtherControl DEF ControlInv
<1>15. LockInv'
  BY <1>11, <1>12, StayLock, OtherLock DEF LockInv
<1>16. RingExact'
  BY RingKept DEF chanvars
<1>17. MissInv'
  BY <1>11, StayMiss, OtherMiss DEF MissInv
<1> QED BY <1>10, <1>13, <1>14, <1>15, <1>16, <1>17 DEF IInv

\* Pass 3 ends with no sudog of g left.
LEMMA SelectEndStep ==
    ASSUME IInv, NEW g \in Goroutine, pc[g] = "pass3", Unsuccessful(g) = {},
           selectDone' = [selectDone EXCEPT ![g] = 0],
           param' = [param EXCEPT ![g] = 0],
           ret' = [ret EXCEPT ![g] = Res(param[g], elem[g], success[g])],
           pc' = [pc EXCEPT ![g] = IF param[g] = 0 THEN "throw" ELSE "return"],
           lock' = Unlocked(g),
           UNCHANGED <<waitq, qcount, buf, sendx, recvx, closed, op, todo, parking, elem, success, wake>>,
           Observe
    PROVE  IInv'
<1>0. TypeOK /\ ControlOf(g) /\ LockOf(g) /\ SignalOf(g)
  BY DEF IInv, ControlInv, LockInv, WakeInv
<1>1. op[g] # NoOp /\ op[g].kind = "select" /\ wake[g] = <<>>
  BY <1>0 DEF ControlOf, HoldsAll
<1>2. param[g] \in Cases(g) /\ Cases(g) \subseteq Nat \ {0} /\ param[g] \in Nat
  BY <1>0, <1>1, CallFacts DEF SignalOf, Woken
<1>3. param[g] # 0 /\ param[g] > 0
  BY <1>2
<1>4. Res(param[g], elem[g], success[g]) \in ResultType /\ Res(param[g], elem[g], success[g]).casi = param[g]
  BY <1>0, <1>2 DEF Res, ResultType, TypeOK
<1>5. /\ pc'[g] = "return" /\ selectDone'[g] = 0 /\ ret'[g].casi = param[g]
      /\ \A h \in Goroutine : h # g => /\ pc'[h] = pc[h] /\ selectDone'[h] = selectDone[h]
                                       /\ ret'[h] = ret[h] /\ param'[h] = param[h]
      /\ \A c \in ChanAddr : lock'[c] = IF lock[c] = g THEN Nil ELSE lock[c]
  BY <1>0, <1>3, <1>4 DEF TypeOK, Unlocked
<1>6. ~HasWake(g)
  BY DEF IInv, WakeInv, OneWake, HasWake
<1>7. ASSUME NEW d \in Dir, NEW c \in ChanAddr, NEW e \in Members(waitq[d][c]), e.g = g
      PROVE  FALSE
  <2>1. e \in Sudogs /\ SudogOf(e, d, c)
    BY <1>7, Waiter
  <2>2. e = Sudog(g, e.casi)
    BY <1>7, <2>1, SudogEq
  <2>3. e.casi \in Cases(g) /\ Case(g, e.casi).c = c /\ Case(g, e.casi).dir = d /\ e.casi # param[g]
    BY <1>7, <2>1 DEF SudogOf, Woken
  <2>4. e.casi \notin Unqueued(g)
    BY <1>7, <2>2, <2>3, EntriesAre DEF Unqueued
  <2> QED BY <2>3, <2>4 DEF Unsuccessful
<1>8. Others(g) /\ StaysClosed /\ LocksOf(g)
  BY <1>5 DEF Others, Stays, StaysClosed, LocksOf
<1>9. Shrinks({}) /\ QueuesOf(g)
  BY KeepQueues
<1>10. /\ WakeInv' /\ SudogInv'
       /\ \A d \in Dir, c \in ChanAddr : \A e \in Members(waitq[d][c]) : Live(e)' <=> Live(e)
  BY <1>5, <1>6, <1>7, <1>8, <1>9, QuietStep DEF Woken
<1>11. WaitInv'
  <2>1. Pass2Of(g)'
    BY <1>5 DEF Pass2Of
  <2>2. \A h \in Goroutine : h # g => pc'[h] = pc[h] /\ op'[h] = op[h]
    BY <1>5
  <2> QED BY <1>9, <1>10, <2>1, <2>2, WaitStep
<1>12. TypeOK'
  <2>1. ret' \in [Goroutine -> ResultType] /\ selectDone' \in [Goroutine -> {0, 1}]
    BY <1>0, <1>4 DEF TypeOK
  <2>2. pc' \in [Goroutine -> Label] /\ param' \in [Goroutine -> Nat]
    BY <1>0 DEF TypeOK, Label
  <2>3. lock' \in [ChanAddr -> Goroutine \cup {Nil}]
    BY <1>0 DEF TypeOK, Unlocked
  <2>4. missed' \in [Goroutine -> BOOLEAN] /\ opened' \in [Goroutine -> BOOLEAN]
    BY ObserveType
  <2> QED BY <1>0, <2>1, <2>2, <2>3, <2>4 DEF TypeOK
<1>13. ControlInv'
  <2>1. ControlOf(g)'
    BY <1>1, <1>2, <1>3, <1>5 DEF ControlOf, HoldsAll
  <2> QED BY <1>8, <2>1, OtherControl DEF ControlInv
<1>14. LockInv'
  <2>1. todo[g] = {} /\ parking[g] = {}
    BY <1>0 DEF LockOf
  <2>2. \A c \in ChanAddr : lock'[c] # g
    BY <1>5, ChanAssumption
  <2>3. LockOf(g)'
    BY <1>5, <2>1, <2>2 DEF LockOf, HoldsAll
  <2> QED BY <1>8, <2>3, OtherLock DEF LockInv
<1>15. RingExact'
  BY RingKept DEF chanvars
<1>16. MissInv'
  <2>1. MissOf(g)'
    BY <1>3, <1>5, ObserveType DEF MissOf, Defaulted, SendAlone
  <2> QED BY <1>8, <2>1, OtherMiss DEF MissInv
<1> QED BY <1>10, <1>11, <1>12, <1>13, <1>14, <1>15, <1>16 DEF IInv

\* Pass 3.
LEMMA SelectPass3Step ==
    ASSUME IInv, NEW g \in Goroutine, SelectPass3(g)
    PROVE  IInv'
<1>1. /\ pc[g] = "pass3" /\ Observe
      /\ UNCHANGED <<qcount, buf, sendx, recvx, closed, op, todo, parking, elem, success, wake>>
  BY DEF SelectPass3
<1>2. CASE /\ \E i \in Unsuccessful(g) : \E k \in DOMAIN waitq[Case(g, i).dir][Case(g, i).c] :
                 /\ waitq[Case(g, i).dir][Case(g, i).c][k] = Sudog(g, i)
                 /\ waitq' = [waitq EXCEPT ![Case(g, i).dir][Case(g, i).c] = dequeueSudoG(@, k)]
           /\ UNCHANGED <<pc, selectDone, param, ret, lock>>
  <2>1. PICK i \in Unsuccessful(g) : \E k \in DOMAIN waitq[Case(g, i).dir][Case(g, i).c] :
                 /\ waitq[Case(g, i).dir][Case(g, i).c][k] = Sudog(g, i)
                 /\ waitq' = [waitq EXCEPT ![Case(g, i).dir][Case(g, i).c] = dequeueSudoG(@, k)]
    BY <1>2
  <2>2. PICK d0 : d0 = Case(g, i).dir
    OBVIOUS
  <2>3. PICK c0 : c0 = Case(g, i).c
    OBVIOUS
  <2>4. PICK k \in DOMAIN waitq[d0][c0] : /\ waitq[d0][c0][k] = Sudog(g, i)
                                          /\ waitq' = [waitq EXCEPT ![d0][c0] = dequeueSudoG(@, k)]
    BY <2>1, <2>2, <2>3
  <2> QED BY <1>1, <1>2, <2>2, <2>3, <2>4, UnqueueStep
<1>3. CASE /\ Unsuccessful(g) = {}
           /\ selectDone' = [selectDone EXCEPT ![g] = 0]
           /\ param' = [param EXCEPT ![g] = 0]
           /\ Returns(g, Res(param[g], elem[g], success[g]))
           /\ Goto(g, IF param[g] = 0 THEN "throw" ELSE "return")
           /\ lock' = Unlocked(g)
           /\ UNCHANGED waitq
  BY <1>1, <1>3, SelectEndStep DEF Returns, Goto
<1> QED BY <1>2, <1>3 DEF SelectPass3

-----------------------------------------------------------------------------
(* The invariant holds *)

\* Every step keeps the invariant.
LEMMA NextStep ==
    ASSUME IInv, [Next]_vars
    PROVE  IInv'
<1>1. CASE UNCHANGED vars
  <2>1. TypeOK' /\ ControlInv' /\ LockInv' /\ RingExact'
    <3>1. (\A h \in Goroutine : Stays(h)) /\ StaysClosed /\ UNCHANGED chanvars
      BY <1>1 DEF vars, Stays, StaysClosed, chanvars
    <3>2. \A h, c : lock'[c] = h <=> lock[c] = h
      BY <1>1 DEF vars
    <3>3. ControlInv' /\ LockInv'
      BY <3>1, <3>2, StayControl, StayLock DEF ControlInv, LockInv
    <3>4. RingExact'
      BY <3>1, RingKept
    <3>5. TypeOK'
      BY <1>1 DEF vars, IInv, TypeOK
    <3> QED BY <3>3, <3>4, <3>5
  <2>2. WakeInv' /\ SudogInv' /\ WaitInv'
    BY <1>1, KeepQueues, StillStep DEF vars
  <2>3. MissInv'
    BY <1>1, ReadySame DEF vars, IInv, MissInv, MissOf, Case, Defaulted, SendAlone
  <2> QED BY <2>1, <2>2, <2>3 DEF IInv
<1>2. ASSUME NEW g \in Goroutine, \E o \in Program[g] : Call(g, o)
      PROVE  IInv'
  BY <1>2, CallStep
<1>3. ASSUME NEW g \in Goroutine, Locking(g)
      PROVE  IInv'
  BY <1>3, ChanOpStep, CloseLockStep, SelLockStep DEF Locking
<1>4. ASSUME NEW g \in Goroutine, Running(g)
      PROVE  IInv'
  BY <1>4, FastSendStep, FastRecvStep, GoreadyStep, AwakeStep, CloseReleaseStep, SelectPass1Step,
     SelectPass2Step, SelectAwakeStep, SelectPass3Step, ReturnStep DEF Running
<1>5. ASSUME NEW g \in Goroutine, ParkCommit(g)
      PROVE  IInv'
  BY <1>5, ParkCommitStep
<1> QED BY <1>1, <1>2, <1>3, <1>4, <1>5 DEF Next

\* So the specification does.
LEMMA InvHolds ==
    Spec => []IInv
<1>1. IInv /\ [Next]_vars => IInv'
  BY NextStep
<1> QED BY <1>1, InitInv, PTL DEF Spec

-----------------------------------------------------------------------------
(* What it implies *)

\* Owed names the wakeups that are on their way.
LEMMA OwedIs ==
    ASSUME NEW g
    PROVE  /\ (Owed(g) # {}) <=> HasWake(g)
           /\ \A e \in Owed(g) : e.g = g /\ \E w \in Goroutine : e \in Wakes(w)
<1>1. \A e : e \in Owed(g) <=> e.g = g /\ \E w \in Goroutine : e \in Wakes(w)
  BY EntriesAre DEF Owed, Wakes
<1> QED BY <1>1 DEF HasWake

\* A sudog in a queue is not the one whose case was chosen.
LEMMA NotChosen ==
    ASSUME IInv, NEW d \in Dir, NEW c \in ChanAddr, NEW e \in Members(waitq[d][c])
    PROVE  OutcomeOf(e.g).casi # e.casi
<1>1. e.g \in Goroutine /\ e.casi \in Nat /\ SudogOf(e, d, c)
  BY Waiter
<1>2. pc[e.g] \in {"pass2", "parked"} \cup Woken
  BY <1>1 DEF SudogOf
<1>3. CASE pc[e.g] = "parked" /\ Owed(e.g) # {}
  <2>1. PICK f : f = CHOOSE w \in Owed(e.g) : TRUE
    OBVIOUS
  <2>2. f \in Owed(e.g)
    BY <1>3, <2>1
  <2>3. f.casi # e.casi
    BY <1>1, <2>2, OwedIs DEF SudogOf
  <2>4. OutcomeOf(e.g) = Res(f.casi, elem[e.g], f.ok)
    BY <1>3, <2>1 DEF OutcomeOf
  <2> QED BY <2>3, <2>4 DEF Res
<1>4. CASE pc[e.g] \in Woken
  <2>1. OutcomeOf(e.g) = Res(param[e.g], elem[e.g], success[e.g])
    BY <1>4 DEF OutcomeOf, Woken
  <2> QED BY <1>1, <1>4, <2>1 DEF Res, SudogOf
<1>5. CASE pc[e.g] \in {"pass2", "parked"} /\ ~(pc[e.g] = "parked" /\ Owed(e.g) # {})
  <2>1. OutcomeOf(e.g) = NoRes
    BY <1>5 DEF OutcomeOf
  <2> QED BY <1>1, <2>1 DEF NoRes, Res
<1> QED BY <1>2, <1>3, <1>4, <1>5

\* chan.go and select.go: the ring of every channel is exact, its queues hold the
\* waiting sudogs and no others, every parked goroutine is queued for each of its
\* cases or has exactly one wakeup coming, and no throw is reached, for any number
\* of goroutines, channels, capacities and programs.
THEOREM ChannelsConsistent ==
    Spec => []ChanInv
<1>1. ASSUME IInv PROVE ChanInv
  <2>1. WokenOnce
    <3> SUFFICES ASSUME NEW g \in Goroutine
                 PROVE  /\ \A v, w \in Goroutine : \A k \in DOMAIN wake[v], l \in DOMAIN wake[w] :
                              wake[v][k].g = g /\ wake[w][l].g = g => v = w /\ k = l
                        /\ Owed(g) # {} => pc[g] = "parked"
                        /\ op[g] # NoOp /\ op[g].kind = "select" =>
                              ((selectDone[g] = 1) <=> (Owed(g) # {} \/ pc[g] \in {"awake", "relock", "pass3"}))
      BY DEF WokenOnce
    <3>1. OneWake /\ SignalOf(g)
      BY <1>1 DEF IInv, WakeInv
    <3>2. ASSUME NEW v \in Goroutine, NEW w \in Goroutine,
                 NEW k \in DOMAIN wake[v], NEW l \in DOMAIN wake[w],
                 wake[v][k].g = g, wake[w][l].g = g
          PROVE  v = w /\ k = l
      <4>1. wake[v][k] \in Wakes(v) /\ wake[w][l] \in Wakes(w)
        BY DEF Wakes, Members
      <4>2. v = w /\ wake[v][k] = wake[w][l]
        BY <3>1, <3>2, <4>1 DEF OneWake
      <4> QED BY <3>1, <4>2 DEF OneWake, Distinct
    <3>3. Owed(g) # {} => pc[g] = "parked"
      BY <3>1, OwedIs DEF OneWake, HasWake
    <3>4. op[g] # NoOp /\ op[g].kind = "select" =>
             ((selectDone[g] = 1) <=> (Owed(g) # {} \/ pc[g] \in {"awake", "relock", "pass3"}))
      BY <3>1, OwedIs DEF SignalOf, Woken
    <3> QED BY <3>2, <3>3, <3>4
  <2>2. NoStaleSudog
    <3>1. ASSUME NEW c \in ChanAddr, NEW d \in Dir
          PROVE  /\ Distinct(waitq[d][c])
                 /\ \A k \in DOMAIN waitq[d][c] :
                       /\ pc[waitq[d][c][k].g] \in {"pass2", "parked", "awake", "relock", "pass3"}
                       /\ Case(waitq[d][c][k].g, waitq[d][c][k].casi).c = c
                       /\ OutcomeOf(waitq[d][c][k].g).casi # waitq[d][c][k].casi
      <4>1. Distinct(waitq[d][c])
        BY <1>1 DEF IInv, SudogInv
      <4>2. ASSUME NEW e \in Members(waitq[d][c])
            PROVE  /\ pc[e.g] \in {"pass2", "parked", "awake", "relock", "pass3"}
                   /\ Case(e.g, e.casi).c = c
                   /\ OutcomeOf(e.g).casi # e.casi
        <5>1. SudogOf(e, d, c)
          BY <1>1, Waiter
        <5> QED BY <1>1, <5>1, NotChosen DEF SudogOf, Woken
      <4> QED BY <4>1, <4>2 DEF Members
    <3> QED BY <3>1, DirFacts DEF NoStaleSudog, recvq, sendq, Distinct
  <2>3. NobodyForgotten
    BY <1>1, OwedIs, EntriesAre DEF NobodyForgotten, IInv, SudogInv, Unqueued
  <2>4. NoThrow
    BY <1>1 DEF NoThrow, IInv, ControlInv, ControlOf
  <2> QED BY <1>1, <2>1, <2>2, <2>3, <2>4 DEF IInv, ChanInv
<1> QED BY <1>1, InvHolds, PTL

\* chansend, chanrecv, closechan and selectgo never leave a goroutine waiting for
\* what is there: a value, a partner, room in the buffer or the end of the channel.
THEOREM NoLostPartner ==
    Spec => []NobodyWaitsInVain
<1>1. ASSUME IInv PROVE NobodyWaitsInVain
  <2> SUFFICES ASSUME NEW c \in ChanAddr, lock[c] = Nil
               PROVE  /\ HasWaiter(recvq[c]) =>
                            /\ closed[c] = 0
                            /\ qcount[c] = 0
                            /\ \A k \in LiveIn(recvq[c]), l \in LiveIn(sendq[c]) :
                                  recvq[c][k].g = sendq[c][l].g
                      /\ HasWaiter(sendq[c]) => closed[c] = 0 /\ qcount[c] = Cap[c]
    BY DEF NobodyWaitsInVain
  <2>1. WaitOf(c) /\ closed[c] \in {0, 1}
    BY <1>1 DEF IInv, WaitInv, TypeOK
  <2>2. \A d \in Dir : HasWaiter(waitq[d][c]) => \E e \in Members(waitq[d][c]) : Live(e)
    BY <1>1, HasWaiterIs
  <2>3. \A g \in Goroutine : ~(pc[g] = "closing" /\ c = Case(g, 1).c)
    BY <1>1, ChanAssumption DEF IInv, LockInv, LockOf
  <2>4. \A d \in Dir : HasWaiter(waitq[d][c]) => closed[c] = 0
    BY <2>1, <2>2, <2>3 DEF WaitOf
  <2>5. ASSUME NEW k \in LiveIn(recvq[c]), NEW l \in LiveIn(sendq[c])
        PROVE  recvq[c][k].g = sendq[c][l].g
    <3>1. /\ recvq[c][k] \in Members(waitq["recv"][c]) /\ Live(recvq[c][k])
          /\ sendq[c][l] \in Members(waitq["send"][c]) /\ Live(sendq[c][l])
      BY DEF LiveIn, Members, recvq, sendq
    <3> QED BY <2>1, <3>1 DEF WaitOf
  <2> QED BY <2>1, <2>2, <2>4, <2>5, DirFacts DEF WaitOf, recvq, sendq
<1> QED BY <1>1, InvHolds, PTL

\* A non-blocking operation that takes its default without the lock was blocked at
\* some moment of the call, or is a send whose channel was closed during the call.
THEOREM DefaultsJustified ==
    Spec => []DefaultJustified
<1>1. IInv => DefaultJustified
  BY DEF IInv, MissInv, MissOf, DefaultJustified
<1> QED BY <1>1, InvHolds, PTL

\* sellock, selparkcommit and selunlock: with addresses that are machine words,
\* selects never wait for each other's locks in a circle, and a goroutine woken
\* early does not get past a lock that is still to be released for it.
THEOREM SelectLocksSafe ==
    ASSUME NEW m \in Nat, ChanAddr \subseteq 0..m
    PROVE  Spec => []LocksSafe
<1>1. ASSUME IInv PROVE LocksSafe
  <2>1. ParkCommitSafe
    BY <1>1 DEF IInv, LockInv, LockOf, ParkCommitSafe
  <2>2. ASSUME NEW S \in SUBSET {c \in ChanAddr : lock[c] # Nil}, S # {}
        PROVE  \E c \in S : \/ pc[lock[c]] \notin {"sellock", "relock"}
                            \/ c \in parking[lock[c]]
                            \/ LockOrder(op[lock[c]], todo[lock[c]]) \notin S
    <3>1. S \in SUBSET (0..m)
      OBVIOUS
    <3>2. PICK c \in S : \A d \in S : d <= c
      BY <2>2, <3>1, HighestIs
    <3>3. c \in ChanAddr /\ lock[c] \in Goroutine /\ c \in Nat
      BY <1>1, ChanAssumption DEF IInv, TypeOK
    <3>4. PICK g \in Goroutine : g = lock[c]
      BY <3>3
    <3>5. TypeOK /\ LockOf(g) /\ ControlOf(g)
      BY <1>1 DEF IInv, LockInv, ControlInv
    <3> SUFFICES ASSUME pc[g] \in {"sellock", "relock"}, c \notin parking[g]
                 PROVE  LockOrder(op[g], todo[g]) \notin S
      BY <3>4
    <3>6. op[g] # NoOp /\ todo[g] # {} /\ todo[g] \subseteq Channels(g) /\ c \in Channels(g) \ todo[g]
      BY <3>3, <3>4, <3>5 DEF LockOf, ControlOf, HoldsAll
    <3>7. todo[g] \subseteq Nat
      BY <3>5, <3>6, CallFacts
    <3>8. LockOrder(op[g], todo[g]) \in todo[g]
      BY <3>6, <3>7, LowestIs DEF LockOrder
    <3>9. c < LockOrder(op[g], todo[g])
      BY <3>5, <3>6, <3>8 DEF LockOf
    <3> QED BY <3>2, <3>3, <3>7, <3>8, <3>9
  <2> QED BY <2>1, <2>2 DEF LocksSafe, NoLockCycle
<1> QED BY <1>1, InvHolds, PTL

-----------------------------------------------------------------------------
(* The values in the ring, as a queue *)

\* The q values from r on in a ring b of n slots.
Content(b, n, q, r) == [k \in 1..q |-> b[(r + k - 1) % n]]

\* They are a sequence.
LEMMA ContentSeq ==
    ASSUME NEW n \in Nat, NEW q \in 0..n, NEW b, NEW r,
           n > 0 => b \in [0..n-1 -> Value \cup {Zero}] /\ r \in 0..n-1
    PROVE  /\ Content(b, n, q, r) \in Seq(Value \cup {Zero})
           /\ Len(Content(b, n, q, r)) = q
           /\ \A k \in 1..q : Content(b, n, q, r)[k] = b[Slot(n, r, k - 1)]
           /\ (q = 0) <=> (Content(b, n, q, r) = <<>>)
<1>1. ASSUME NEW k \in 1..q
      PROVE  b[(r + k - 1) % n] \in Value \cup {Zero} /\ b[(r + k - 1) % n] = b[Slot(n, r, k - 1)]
  <2>1. n \in Nat \ {0} /\ k - 1 \in 0..n /\ r \in 0..n-1 /\ b \in [0..n-1 -> Value \cup {Zero}]
    OBVIOUS
  <2>2. Slot(n, r, k - 1) \in 0..n-1
    BY <2>1, SlotIs
  <2>3. r + k - 1 = r + (k - 1)
    BY <2>1
  <2>4. (r + k - 1) % n = Slot(n, r, k - 1)
    BY <2>3 DEF Slot
  <2> QED BY <2>1, <2>2, <2>4
<1>2. Content(b, n, q, r) \in Seq(Value \cup {Zero})
  BY <1>1 DEF Content
<1>3. Len(Content(b, n, q, r)) = q
  BY DEF Content
<1>4. \A k \in 1..q : Content(b, n, q, r)[k] = b[Slot(n, r, k - 1)]
  BY <1>1 DEF Content
<1>5. (q = 0) <=> (Content(b, n, q, r) = <<>>)
  BY <1>2, <1>3
<1> QED BY <1>2, <1>3, <1>4, <1>5

\* A value goes in at the end of the queue.
LEMMA ContentPush ==
    ASSUME NEW n \in Nat \ {0}, NEW b \in [0..n-1 -> Value \cup {Zero}], NEW q \in 0..n-1, NEW r \in 0..n-1,
           NEW v \in Value, NEW b1, Put(b1, b, n, Slot(n, r, q), v)
    PROVE  Content(b1, n, q + 1, r) = Append(Content(b, n, q, r), v)
<1>1. PICK s : s = Content(b, n, q, r)
  OBVIOUS
<1>2. PICK t : t = Content(b1, n, q + 1, r)
  OBVIOUS
<1>3. b1 \in [0..n-1 -> Value \cup {Zero}] /\ q + 1 \in 0..n /\ q \in 0..n /\ n \in Nat
  BY DEF Put
<1>4. s \in Seq(Value \cup {Zero}) /\ Len(s) = q /\ \A k \in 1..q : s[k] = b[Slot(n, r, k - 1)]
  BY <1>1, <1>3, ContentSeq
<1>5. t \in Seq(Value \cup {Zero}) /\ Len(t) = q + 1 /\ \A k \in 1..(q + 1) : t[k] = b1[Slot(n, r, k - 1)]
  BY <1>2, <1>3, ContentSeq
<1>6. /\ Append(s, v) \in Seq(Value \cup {Zero}) /\ Len(Append(s, v)) = q + 1
      /\ \A k \in 1..q : Append(s, v)[k] = s[k]
      /\ Append(s, v)[q + 1] = v
  BY <1>4, AppendProperties
<1>7. ASSUME NEW k \in 1..(q + 1)
      PROVE  t[k] = Append(s, v)[k]
  <2>1. k - 1 \in 0..n
    BY <1>3
  <2>2. /\ Slot(n, r, k - 1) = (IF r + (k - 1) < n THEN r + (k - 1) ELSE r + (k - 1) - n)
        /\ Slot(n, r, k - 1) \in 0..n-1
    BY <2>1, SlotIs
  <2>3. Slot(n, r, q) = (IF r + q < n THEN r + q ELSE r + q - n)
    BY <1>3, SlotIs
  <2>4. CASE k = q + 1
    <3>1. k - 1 = q
      BY <2>4
    <3> QED BY <1>5, <1>6, <2>4, <3>1 DEF Put
  <2>5. CASE k # q + 1
    <3>1. Slot(n, r, k - 1) # Slot(n, r, q)
      BY <2>2, <2>3, <2>5
    <3>2. k \in 1..q
      BY <2>5
    <3>3. b1[Slot(n, r, k - 1)] = b[Slot(n, r, k - 1)]
      BY <2>2, <3>1 DEF Put
    <3> QED BY <1>4, <1>5, <1>6, <3>2, <3>3
  <2> QED BY <2>4, <2>5
<1>8. t = Append(s, v)
  BY <1>5, <1>6, <1>7, SeqEqual
<1> QED BY <1>1, <1>2, <1>8

\* The oldest value leaves the queue, whatever its slot holds then.
LEMMA ContentPop ==
    ASSUME NEW n \in Nat \ {0}, NEW b \in [0..n-1 -> Value \cup {Zero}], NEW q \in 1..n, NEW r \in 0..n-1,
           NEW v \in Value \cup {Zero}, NEW b1, Put(b1, b, n, r, v)
    PROVE  /\ Content(b1, n, q - 1, After(n, r)) = Tail(Content(b, n, q, r))
           /\ Content(b, n, q, r) # <<>> /\ Head(Content(b, n, q, r)) = b[r]
<1>1. PICK s : s = Content(b, n, q, r)
  OBVIOUS
<1>2. PICK r1 : r1 = After(n, r)
  OBVIOUS
<1>3. PICK t : t = Content(b1, n, q - 1, r1)
  OBVIOUS
<1>4. b1 \in [0..n-1 -> Value \cup {Zero}] /\ q - 1 \in 0..n /\ q \in 0..n /\ n \in Nat /\ r1 \in 0..n-1
  BY <1>2 DEF Put, After
<1>5. s \in Seq(Value \cup {Zero}) /\ Len(s) = q /\ s # <<>> /\ \A k \in 1..q : s[k] = b[Slot(n, r, k - 1)]
  BY <1>1, <1>4, ContentSeq
<1>6. t \in Seq(Value \cup {Zero}) /\ Len(t) = q - 1 /\ \A k \in 1..(q - 1) : t[k] = b1[Slot(n, r1, k - 1)]
  <2>1. PICK q1 \in 0..n : q1 = q - 1
    BY <1>4
  <2>2. t = Content(b1, n, q1, r1)
    BY <1>3, <2>1
  <2>3. t \in Seq(Value \cup {Zero}) /\ Len(t) = q1 /\ \A k \in 1..q1 : t[k] = b1[Slot(n, r1, k - 1)]
    BY <1>4, <2>2, ContentSeq
  <2> QED BY <2>1, <2>3
<1>7. Tail(s) \in Seq(Value \cup {Zero}) /\ Len(Tail(s)) = q - 1 /\ \A k \in 1..(q - 1) : Tail(s)[k] = s[k + 1]
  BY <1>5, HeadTailProperties
<1>8. ASSUME NEW k \in 1..(q - 1)
      PROVE  t[k] = Tail(s)[k]
  <2>1. k - 1 \in 0..n /\ k \in 0..n /\ k + 1 \in 1..q /\ (k + 1) - 1 = k
    BY <1>4
  <2>2. Slot(n, r1, k - 1) = (IF r1 + (k - 1) < n THEN r1 + (k - 1) ELSE r1 + (k - 1) - n)
    BY <1>4, <2>1, SlotIs
  <2>3. Slot(n, r, k) = (IF r + k < n THEN r + k ELSE r + k - n) /\ Slot(n, r, k) \in 0..n-1
    BY <2>1, SlotIs
  <2>4. Slot(n, r1, k - 1) = Slot(n, r, k) /\ Slot(n, r, k) # r
    BY <1>2, <2>2, <2>3 DEF After
  <2>5. b1[Slot(n, r, k)] = b[Slot(n, r, k)]
    BY <2>3, <2>4 DEF Put
  <2> QED BY <1>5, <1>6, <1>7, <2>1, <2>4, <2>5
<1>9. t = Tail(s)
  BY <1>6, <1>7, <1>8, SeqEqual
<1>10. Head(s) = b[r]
  <2>1. Head(s) = s[1] /\ 1 \in 1..q /\ 1 - 1 = 0
    BY <1>5
  <2>2. Slot(n, r, 0) = r
    BY SlotIs
  <2> QED BY <1>5, <2>1, <2>2
<1> QED BY <1>1, <1>2, <1>3, <1>5, <1>9, <1>10

\* recv() on a full ring: the oldest value leaves and another goes in at the end.
LEMMA ContentSwap ==
    ASSUME NEW n \in Nat \ {0}, NEW b \in [0..n-1 -> Value \cup {Zero}], NEW r \in 0..n-1,
           NEW v \in Value, NEW b1, Put(b1, b, n, r, v)
    PROVE  /\ Content(b1, n, n, After(n, r)) = Tail(Append(Content(b, n, n, r), v))
           /\ Head(Append(Content(b, n, n, r), v)) = b[r]
<1>1. PICK r1 : r1 = After(n, r)
  OBVIOUS
<1>2. n \in 1..n /\ n - 1 \in 0..n-1 /\ (n - 1) + 1 = n /\ r1 \in 0..n-1 /\ n - 1 \in 0..n /\ n \in 0..n /\ n \in Nat
  BY <1>1 DEF After
<1>3. /\ Content(b, n, n, r) # <<>> /\ Head(Content(b, n, n, r)) = b[r]
      /\ Content(b1, n, n - 1, r1) = Tail(Content(b, n, n, r))
  BY <1>1, <1>2, ContentPop
<1>4. b1 \in [0..n-1 -> Value \cup {Zero}]
  BY DEF Put
<1>5. Slot(n, r1, n - 1) = r
  <2>1. Slot(n, r1, n - 1) = (IF r1 + (n - 1) < n THEN r1 + (n - 1) ELSE r1 + (n - 1) - n)
    BY <1>2, SlotIs
  <2> QED BY <1>1, <2>1 DEF After
<1>6. Put(b1, b1, n, Slot(n, r1, n - 1), v)
  BY <1>5 DEF Put
<1>7. Content(b1, n, (n - 1) + 1, r1) = Append(Content(b1, n, n - 1, r1), v)
  BY <1>2, <1>4, <1>6, ContentPush
<1>8. Content(b, n, n, r) \in Seq(Value \cup {Zero})
  BY <1>2, ContentSeq
<1>9. /\ Head(Append(Content(b, n, n, r), v)) = Head(Content(b, n, n, r))
      /\ Tail(Append(Content(b, n, n, r), v)) = Append(Tail(Content(b, n, n, r)), v)
  BY <1>3, <1>8, HeadTailAppend
<1> QED BY <1>1, <1>2, <1>3, <1>7, <1>9

-----------------------------------------------------------------------------
(* The steps of Channel *)

\* What a step does to the state of Channel: the queues stay, and only g learns of
\* an outcome, or nobody does.
SameQueues == \A c \in ChanAddr : Contents(c)' = Contents(c)
Learns(g, r) == \A h \in Goroutine : OutcomeOf(h)' = IF h = g THEN r ELSE OutcomeOf(h)
NobodyLearns == \A h \in Goroutine : OutcomeOf(h)' = OutcomeOf(h)

\* Case i of g, a dir on c, is pending.
IsPending(g, i, dir, c) ==
    /\ op[g] # NoOp /\ i \in Cases(g) /\ OutcomeOf(g) = NoRes
    /\ Case(g, i).dir = dir /\ Case(g, i).c = c

\* Nothing that Channel speaks of.
LEMMA AbsStutter ==
    ASSUME SameQueues, NobodyLearns, UNCHANGED <<closed, op>>
    PROVE  UNCHANGED Abstract!state
  BY DEF SameQueues, NobodyLearns, Abstract!state

\* A call begins.
LEMMA AbsCall ==
    ASSUME NEW g \in Goroutine, NEW o \in Program[g], op[g] = NoOp, op' = [op EXCEPT ![g] = o],
           SameQueues, NobodyLearns, UNCHANGED closed
    PROVE  Abstract!Step
<1>1. Abstract!Call(g, o)
  BY DEF Abstract!Call, SameQueues, NobodyLearns
<1> QED BY <1>1 DEF Abstract!Step

\* The outcomes, as one function.
LEMMA LearnsIs ==
    ASSUME NEW g \in Goroutine, NEW r, Learns(g, r)
    PROVE  [h \in Goroutine |-> OutcomeOf(h)'] = [[h \in Goroutine |-> OutcomeOf(h)] EXCEPT ![g] = r]
  BY DEF Learns

\* A call returns.
LEMMA AbsReturn ==
    ASSUME NEW g \in Goroutine, OutcomeOf(g) # NoRes, op' = [op EXCEPT ![g] = NoOp],
           SameQueues, Learns(g, NoRes), UNCHANGED closed
    PROVE  Abstract!Step
<1>1. Abstract!Return(g)
  BY LearnsIs DEF Abstract!Return, Abstract!Pending, Abstract!Result, NoRes, Res, SameQueues
<1> QED BY <1>1 DEF Abstract!Step

\* A call takes its default.
LEMMA AbsDefault ==
    ASSUME NEW g \in Goroutine, op[g] # NoOp, ~op[g].block, OutcomeOf(g) = NoRes,
           missed[g] \/ (SendAlone(g) /\ opened[g] /\ Case(g, 1).c \in ChanAddr /\ closed[Case(g, 1).c] = 1),
           SameQueues, Learns(g, Res(0, Zero, FALSE)), UNCHANGED <<op, closed>>
    PROVE  Abstract!Step
<1>1. g \in {h \in Goroutine : missed[h]} \/ Abstract!ClosedUnder(g)
  BY DEF Abstract!ClosedUnder, SendAlone, Case
<1>2. Abstract!Default(g)
  BY <1>1, LearnsIs DEF Abstract!Default, Abstract!Effect, Abstract!Pending, Abstract!Result, NoRes, Res, SameQueues
<1> QED BY <1>2 DEF Abstract!Step

\* A case of a pending call.
LEMMA AbsWaits ==
    ASSUME NEW g \in Goroutine, NEW i, NEW dir, NEW c, IsPending(g, i, dir, c)
    PROVE  /\ Abstract!Waits(g, i, dir, c) /\ i \in Abstract!Cases(g)
           /\ op[g].cases[i].c = c /\ op[g].cases[i].v = Case(g, i).v
  BY DEF IsPending, Abstract!Waits, Abstract!Cases, Abstract!Pending, Abstract!Result, NoRes, Res, Case, Cases

\* It meets the end of the channel.
LEMMA AbsEnded ==
    ASSUME NEW g \in Goroutine, NEW i, NEW dir \in {"send", "recv"}, NEW c \in ChanAddr,
           IsPending(g, i, dir, c), closed[c] = 1, dir = "recv" => Contents(c) = <<>>,
           SameQueues, Learns(g, Res(i, Zero, FALSE)), UNCHANGED <<op, closed>>
    PROVE  Abstract!Step
<1>1. Abstract!Waits(g, i, dir, c) /\ i \in Abstract!Cases(g) /\ op[g].cases[i].c = c
  BY AbsWaits
<1>2. Abstract!Ended(g, i, dir, c)
  BY <1>1, LearnsIs DEF Abstract!Ended, Abstract!Effect, Abstract!Result, Res, SameQueues
<1> QED BY <1>1, <1>2 DEF Abstract!Step

\* A channel is closed.
LEMMA AbsClose ==
    ASSUME NEW g \in Goroutine, NEW i, NEW c \in ChanAddr, IsPending(g, i, "close", c),
           closed \in [ChanAddr -> {0, 1}], closed' = [closed EXCEPT ![c] = 1],
           SameQueues, Learns(g, Res(i, Zero, closed[c] = 0)), UNCHANGED op
    PROVE  Abstract!Step
<1>1. Abstract!Waits(g, i, "close", c) /\ i \in Abstract!Cases(g) /\ op[g].cases[i].c = c
  BY AbsWaits
<1>2. [b \in ChanAddr |-> closed'[b] = 1] = [[b \in ChanAddr |-> closed[b] = 1] EXCEPT ![c] = TRUE]
  OBVIOUS
<1>3. Res(i, Zero, closed[c] = 0) = Abstract!Result(i, Zero, ~[b \in ChanAddr |-> closed[b] = 1][c])
  <2>1. [b \in ChanAddr |-> closed[b] = 1][c] = (closed[c] = 1)
    OBVIOUS
  <2>2. closed[c] = 0 \/ closed[c] = 1
    OBVIOUS
  <2>3. CASE closed[c] = 0
    <3>0. ~(closed[c] = 1)
      BY <2>3
    <3>1. (closed[c] = 0) = TRUE /\ (~[b \in ChanAddr |-> closed[b] = 1][c]) = TRUE
      BY <2>1, <2>3, <3>0, Zenon
    <3> QED BY <3>1, Zenon DEF Abstract!Result, Res
  <2>4. CASE closed[c] = 1
    <3>0. ~(closed[c] = 0)
      BY <2>4
    <3>1. (closed[c] = 0) = FALSE /\ (~[b \in ChanAddr |-> closed[b] = 1][c]) = FALSE
      BY <2>1, <2>4, <3>0, Zenon
    <3> QED BY <3>1, Zenon DEF Abstract!Result, Res
  <2> QED BY <2>2, <2>3, <2>4
<1>4. [b \in ChanAddr |-> Contents(b)'] = [b \in ChanAddr |-> Contents(b)]
  BY DEF SameQueues
<1>5. Abstract!Effect(g, Abstract!Result(i, Zero, ~[b \in ChanAddr |-> closed[b] = 1][c]))
  BY <1>3, LearnsIs DEF Abstract!Effect
<1>6. Abstract!Close(g, i, c)
  BY <1>1, <1>2, <1>4, <1>5 DEF Abstract!Close
<1>7. Abstract!Close(g, i, op[g].cases[i].c)
  BY <1>1, <1>6, Zenon DEF Abstract!Close
<1> QED BY <1>1, <1>7 DEF Abstract!Step

\* Only the queue of c changes.
QueueBecomes(c, q) == \A b \in ChanAddr : Contents(b)' = IF b = c THEN q ELSE Contents(b)

\* The queues, as one function.
LEMMA QueueIs ==
    ASSUME NEW c \in ChanAddr, NEW q, QueueBecomes(c, q)
    PROVE  [b \in ChanAddr |-> Contents(b)'] = [[b \in ChanAddr |-> Contents(b)] EXCEPT ![c] = q]
  BY DEF QueueBecomes

\* A value goes into the buffer.
LEMMA AbsSend ==
    ASSUME NEW g \in Goroutine, NEW i, NEW c \in ChanAddr, IsPending(g, i, "send", c),
           closed[c] = 0, Len(Contents(c)) < Cap[c],
           QueueBecomes(c, Append(Contents(c), Case(g, i).v)),
           Learns(g, Res(i, Zero, TRUE)), UNCHANGED <<op, closed>>
    PROVE  Abstract!Step
<1>1. /\ Abstract!Waits(g, i, "send", c) /\ i \in Abstract!Cases(g) /\ op[g].cases[i].c = c
      /\ op[g].cases[i].v = Case(g, i).v
  BY AbsWaits
<1>2. [b \in ChanAddr |-> Contents(b)] [c] = Contents(c) /\ ~[b \in ChanAddr |-> closed[b] = 1][c]
  <2>1. [b \in ChanAddr |-> Contents(b)] [c] = Contents(c) /\ closed[c] # 1
    OBVIOUS
  <2>2. [b \in ChanAddr |-> closed[b] = 1][c] = (closed[c] = 1)
    OBVIOUS
  <2> QED BY <2>1, <2>2, Zenon
<1>3. [b \in ChanAddr |-> Contents(b)'] =
         [[b \in ChanAddr |-> Contents(b)] EXCEPT ![c] = Append(@, op[g].cases[i].v)]
  BY <1>1, <1>2, QueueIs
<1>4. Abstract!Effect(g, Abstract!Result(i, Zero, TRUE))
  BY LearnsIs DEF Abstract!Effect, Abstract!Result, Res
<1>5. Abstract!Send(g, i, c)
  BY <1>1, <1>2, <1>3, <1>4 DEF Abstract!Send
<1> QED BY <1>1, <1>5 DEF Abstract!Step

\* The oldest value leaves the buffer.
LEMMA AbsReceive ==
    ASSUME NEW g \in Goroutine, NEW i, NEW c \in ChanAddr, IsPending(g, i, "recv", c),
           Contents(c) # <<>>, QueueBecomes(c, Tail(Contents(c))),
           Learns(g, Res(i, Head(Contents(c)), TRUE)), UNCHANGED <<op, closed>>
    PROVE  Abstract!Step
<1>1. Abstract!Waits(g, i, "recv", c) /\ i \in Abstract!Cases(g) /\ op[g].cases[i].c = c
  BY AbsWaits
<1>2. Abstract!Receive(g, i, c)
  BY <1>1, LearnsIs, QueueIs DEF Abstract!Receive, Abstract!Effect, Abstract!Result, Res
<1> QED BY <1>1, <1>2 DEF Abstract!Step

\* Two learn of an outcome.
Learn(g, r, h, t) ==
    \A k \in Goroutine : OutcomeOf(k)' = IF k = g THEN r ELSE IF k = h THEN t ELSE OutcomeOf(k)

\* A sender and a receiver meet.
LEMMA AbsTransfer ==
    ASSUME NEW g \in Goroutine, NEW i, NEW h \in Goroutine, NEW j, NEW c \in ChanAddr, g # h,
           IsPending(g, i, "send", c), IsPending(h, j, "recv", c), closed[c] = 0,
           NEW s, s = Append(Contents(c), Case(g, i).v),
           QueueBecomes(c, Tail(s)),
           Learn(g, Res(i, Zero, TRUE), h, Res(j, Head(s), TRUE)),
           UNCHANGED <<op, closed>>
    PROVE  Abstract!Step
<1>1. /\ Abstract!Waits(g, i, "send", c) /\ i \in Abstract!Cases(g) /\ op[g].cases[i].c = c
      /\ op[g].cases[i].v = Case(g, i).v
  BY AbsWaits
<1>2. Abstract!Waits(h, j, "recv", c) /\ j \in Abstract!Cases(h)
  BY AbsWaits
<1>3. [k \in Goroutine |-> OutcomeOf(k)'] =
         [[k \in Goroutine |-> OutcomeOf(k)] EXCEPT ![g] = Res(i, Zero, TRUE), ![h] = Res(j, Head(s), TRUE)]
  BY DEF Learn
<1>4. [b \in ChanAddr |-> Contents(b)] [c] = Contents(c) /\ ~[b \in ChanAddr |-> closed[b] = 1][c]
  <2>1. [b \in ChanAddr |-> Contents(b)] [c] = Contents(c) /\ closed[c] # 1
    OBVIOUS
  <2>2. [b \in ChanAddr |-> closed[b] = 1][c] = (closed[c] = 1)
    OBVIOUS
  <2> QED BY <2>1, <2>2, Zenon
<1>5. s = Append([b \in ChanAddr |-> Contents(b)] [c], op[g].cases[i].v)
  BY <1>1, <1>4
<1>6. [b \in ChanAddr |-> Contents(b)'] = [[b \in ChanAddr |-> Contents(b)] EXCEPT ![c] = Tail(s)]
  BY QueueIs
<1>7. Abstract!Transfer(g, i, h, j, c)
  <2>1. Abstract!Result(i, Zero, TRUE) = Res(i, Zero, TRUE) /\ Abstract!Result(j, Head(s), TRUE) = Res(j, Head(s), TRUE)
    BY DEF Abstract!Result, Res
  <2> QED BY <1>1, <1>2, <1>3, <1>4, <1>5, <1>6, <2>1 DEF Abstract!Transfer
<1> QED BY <1>1, <1>2, <1>7 DEF Abstract!Step

-----------------------------------------------------------------------------
(* What became of a call *)

\* Where the outcome of g's call is to be found.
OutcomeFacts(g) ==
    /\ pc[g] \in {"ready", "closing", "return"} => OutcomeOf(g) = ret[g]
    /\ pc[g] \in Woken => OutcomeOf(g) = Res(param[g], elem[g], success[g])
    /\ pc[g] = "parked" =>
          \/ ~HasWake(g) /\ OutcomeOf(g) = NoRes
          \/ \E w \in Goroutine : \E e \in Wakes(w) :
                e.g = g /\ OutcomeOf(g) = Res(e.casi, elem[g], e.ok)
    /\ pc[g] \notin {"ready", "closing", "return", "parked"} \cup Woken => OutcomeOf(g) = NoRes

\* Before a step and after it.
LEMMA OutcomeIs ==
    ASSUME NEW g
    PROVE  OutcomeFacts(g) /\ OutcomeFacts(g)'
<1>1. ASSUME pc[g] = "parked"
      PROVE  \/ ~HasWake(g) /\ OutcomeOf(g) = NoRes
             \/ \E w \in Goroutine : \E e \in Wakes(w) :
                   e.g = g /\ OutcomeOf(g) = Res(e.casi, elem[g], e.ok)
  <2>1. CASE Owed(g) = {}
    BY <1>1, <2>1, OwedIs DEF OutcomeOf
  <2>2. CASE Owed(g) # {}
    <3>1. PICK e : e = CHOOSE f \in Owed(g) : TRUE
      OBVIOUS
    <3>2. e \in Owed(g)
      BY <2>2, <3>1
    <3>3. OutcomeOf(g) = Res(e.casi, elem[g], e.ok)
      BY <1>1, <2>2, <3>1 DEF OutcomeOf
    <3> QED BY <3>2, <3>3, OwedIs
  <2> QED BY <2>1, <2>2
<1>2. OutcomeFacts(g)
  <2>1. pc[g] \in {"ready", "closing", "return"} => OutcomeOf(g) = ret[g]
    BY DEF OutcomeOf
  <2>2. pc[g] \in Woken => OutcomeOf(g) = Res(param[g], elem[g], success[g])
    BY DEF OutcomeOf, Woken
  <2>3. pc[g] \notin {"ready", "closing", "return", "parked"} \cup Woken => OutcomeOf(g) = NoRes
    BY DEF OutcomeOf, Woken
  <2> QED BY <1>1, <2>1, <2>2, <2>3 DEF OutcomeFacts
<1>3. \A e : e \in Owed(g)' <=> e.g = g /\ \E w \in Goroutine : e \in Wakes(w)'
  BY EntriesAre DEF Owed, Wakes
<1>4. ASSUME pc'[g] = "parked"
      PROVE  \/ ~HasWake(g)' /\ OutcomeOf(g)' = NoRes
             \/ \E w \in Goroutine : \E e \in Wakes(w)' :
                   e.g = g /\ OutcomeOf(g)' = Res(e.casi, elem'[g], e.ok)
  <2>1. CASE Owed(g)' = {}
    BY <1>3, <1>4, <2>1 DEF OutcomeOf, HasWake
  <2>2. CASE Owed(g)' # {}
    <3>1. PICK e : e = CHOOSE f \in Owed(g)' : TRUE
      OBVIOUS
    <3>2. e \in Owed(g)'
      BY <2>2, <3>1
    <3>3. OutcomeOf(g)' = Res(e.casi, elem'[g], e.ok)
      BY <1>4, <2>2, <3>1 DEF OutcomeOf
    <3> QED BY <1>3, <3>2, <3>3
  <2> QED BY <2>1, <2>2
<1>5. OutcomeFacts(g)'
  <2>1. pc'[g] \in {"ready", "closing", "return"} => OutcomeOf(g)' = ret'[g]
    BY DEF OutcomeOf
  <2>2. pc'[g] \in Woken => OutcomeOf(g)' = Res(param'[g], elem'[g], success'[g])
    BY DEF OutcomeOf, Woken
  <2>3. pc'[g] \notin {"ready", "closing", "return", "parked"} \cup Woken => OutcomeOf(g)' = NoRes
    BY DEF OutcomeOf, Woken
  <2>4. OutcomeFacts(g)' <=>
          /\ pc'[g] \in {"ready", "closing", "return"} => OutcomeOf(g)' = ret'[g]
          /\ pc'[g] \in Woken => OutcomeOf(g)' = Res(param'[g], elem'[g], success'[g])
          /\ pc'[g] = "parked" =>
                \/ ~HasWake(g)' /\ OutcomeOf(g)' = NoRes
                \/ \E w \in Goroutine : \E e \in Wakes(w)' :
                      e.g = g /\ OutcomeOf(g)' = Res(e.casi, elem'[g], e.ok)
          /\ pc'[g] \notin {"ready", "closing", "return", "parked"} \cup Woken => OutcomeOf(g)' = NoRes
    BY DEF OutcomeFacts, Woken, Res, NoRes
  <2> QED BY <1>4, <2>1, <2>2, <2>3, <2>4
<1> QED BY <1>2, <1>5

\* What a step leaves alone of g, and of the wakeups that it waits for.
Keeps(g) ==
    /\ pc'[g] = pc[g] /\ ret'[g] = ret[g] /\ param'[g] = param[g]
    /\ elem'[g] = elem[g] /\ success'[g] = success[g]
WakesKept(g) ==
    \A w \in Goroutine : \A e : e.g = g => (e \in Wakes(w)' <=> e \in Wakes(w))

\* Then its outcome is the same.
LEMMA OutcomeKept ==
    ASSUME NEW g, Keeps(g), WakesKept(g)
    PROVE  OutcomeOf(g)' = OutcomeOf(g)
<1>1. Owed(g)' = Owed(g)
  <2>1. \A e : e \in Owed(g)' <=> e.g = g /\ \E w \in Goroutine : e \in Wakes(w)'
    BY EntriesAre DEF Owed, Wakes
  <2>2. \A e : e \in Owed(g) <=> e.g = g /\ \E w \in Goroutine : e \in Wakes(w)
    BY EntriesAre DEF Owed, Wakes
  <2>3. \A e : e \in Owed(g)' <=> e \in Owed(g)
    BY <2>1, <2>2 DEF WakesKept
  <2> QED BY <2>3
<1> QED BY <1>1 DEF Keeps, OutcomeOf, Res, NoRes

\* In a step that adds no wakeup everybody but g keeps what it has.
LEMMA OthersKeep ==
    ASSUME NEW g, wake' = wake, \A h \in Goroutine : h # g => Keeps(h)
    PROVE  \A h \in Goroutine : h # g => OutcomeOf(h)' = OutcomeOf(h)
<1>1. \A h : WakesKept(h)
  BY DEF WakesKept, Wakes
<1> QED BY <1>1, OutcomeKept

\* Nothing happens to the rings.
LEMMA QueuesKept ==
    ASSUME UNCHANGED chanvars
    PROVE  SameQueues /\ closed' = closed
  BY DEF chanvars, SameQueues, Contents

\* A call whose place is none of those has no outcome yet.
NoOutcome == {"idle", "fast", "full", "open", "again", "lock", "close", "sellock", "pass1", "pass2"}

\* A step of g in the outcome nothing changes: g has none before and after, or the same.
LEMMA QuietSim ==
    ASSUME NEW g \in Goroutine, wake' = wake, \A h \in Goroutine : h # g => Keeps(h),
           UNCHANGED chanvars, op' = op,
           \/ pc[g] \in NoOutcome /\ pc'[g] \in NoOutcome
           \/ OutcomeOf(g)' = OutcomeOf(g)
    PROVE  UNCHANGED Abstract!state
<1>1. \A h \in Goroutine : h # g => OutcomeOf(h)' = OutcomeOf(h)
  BY OthersKeep
<1>2. OutcomeOf(g)' = OutcomeOf(g)
  <2>1. CASE pc[g] \in NoOutcome /\ pc'[g] \in NoOutcome
    <3>1. OutcomeOf(g) = NoRes
      BY <2>1 DEF OutcomeOf, NoOutcome
    <3>2. OutcomeOf(g)' = NoRes
      BY <2>1 DEF OutcomeOf, NoOutcome
    <3> QED BY <3>1, <3>2
  <2> QED BY <2>1
<1>3. NobodyLearns
  BY <1>1, <1>2 DEF NobodyLearns
<1>4. SameQueues /\ closed' = closed
  BY QueuesKept
<1> QED BY <1>3, <1>4, AbsStutter

-----------------------------------------------------------------------------
(* Every step is a step of Channel, or none *)

\* g learns r and nobody else learns anything.
LEMMA LearnsOne ==
    ASSUME NEW g \in Goroutine, wake' = wake, \A h \in Goroutine : h # g => Keeps(h),
           pc'[g] \in {"ready", "closing", "return"}
    PROVE  Learns(g, ret'[g])
<1>1. OutcomeOf(g)' = ret'[g]
  BY DEF OutcomeOf
<1> QED BY <1>1, OthersKeep DEF Learns

\* A call begins.
LEMMA CallSim ==
    ASSUME IInv, NEW g \in Goroutine, NEW o \in Program[g], Call(g, o)
    PROVE  Abstract!Step
<1>1. /\ pc[g] = "idle" /\ op' = [op EXCEPT ![g] = o]
      /\ pc' = [pc EXCEPT ![g] = CASE o.kind = "close" -> "close"
                                   [] o.kind = "select" -> "sellock"
                                   [] OTHER -> IF o.block THEN "lock" ELSE "fast"]
      /\ UNCHANGED chanvars /\ UNCHANGED <<elem, param, success, wake, ret>>
  BY DEF Call, Goto, chanvars
<1>2. op[g] = NoOp
  BY <1>1 DEF IInv, ControlInv, ControlOf
<1>3. pc'[g] \in {"close", "sellock", "lock", "fast"} /\ \A h \in Goroutine : h # g => pc'[h] = pc[h]
  BY <1>1 DEF IInv, TypeOK
<1>4. \A h \in Goroutine : h # g => Keeps(h)
  BY <1>1, <1>3 DEF Keeps
<1>5. OutcomeOf(g) = NoRes
  BY <1>1 DEF OutcomeOf
<1>6. OutcomeOf(g)' = NoRes
  BY <1>3 DEF OutcomeOf
<1>7. NobodyLearns
  BY <1>1, <1>4, <1>5, <1>6, OthersKeep DEF NobodyLearns
<1> QED BY <1>1, <1>2, <1>7, QueuesKept, AbsCall

\* A test without the lock.
LEMMA TestSim ==
    ASSUME IInv, NEW g \in Goroutine, NEW l, NEW r, Test(g, l, r),
           pc[g] \in {"fast", "full", "open", "again"}
    PROVE  /\ l \in {"full", "open", "again", "lock"} => UNCHANGED Abstract!state
           /\ l = "return" => Learns(g, r) /\ SameQueues /\ UNCHANGED <<op, closed>>
           /\ op[g] # NoOp /\ ~op[g].block /\ OutcomeOf(g) = NoRes
<1>1. /\ pc' = [pc EXCEPT ![g] = l] /\ ret' = [ret EXCEPT ![g] = IF l = "return" THEN r ELSE NoRes]
      /\ UNCHANGED chanvars /\ UNCHANGED <<op, elem, param, success, wake>>
  BY DEF Test, Goto, Returns, chanvars
<1>2. /\ pc'[g] = l /\ (l = "return" => ret'[g] = r)
      /\ \A h \in Goroutine : h # g => pc'[h] = pc[h] /\ ret'[h] = ret[h]
  BY <1>1 DEF IInv, TypeOK
<1>3. \A h \in Goroutine : h # g => Keeps(h)
  BY <1>1, <1>2 DEF Keeps
<1>4. op[g] # NoOp /\ ~op[g].block
  BY DEF IInv, ControlInv, ControlOf
<1>5. OutcomeOf(g) = NoRes
  BY DEF OutcomeOf
<1>6. l \in {"full", "open", "again", "lock"} => UNCHANGED Abstract!state
  BY <1>1, <1>2, <1>3, QuietSim DEF NoOutcome
<1>7. l = "return" => Learns(g, r) /\ SameQueues /\ UNCHANGED <<op, closed>>
  BY <1>1, <1>2, <1>3, LearnsOne, QueuesKept
<1> QED BY <1>4, <1>5, <1>6, <1>7

\* chansend and chanrecv without the lock.
LEMMA FastSim ==
    ASSUME IInv, NEW g \in Goroutine, FastSend(g) \/ FastRecv(g)
    PROVE  Abstract!Step \/ UNCHANGED Abstract!state
<1>0. PICK c : c = Case(g, 1).c
  OBVIOUS
<1>1. pc[g] \in {"fast", "full", "open", "again"}
  BY DEF FastSend, FastRecv
<1>2. ASSUME NEW l \in {"full", "open", "again", "lock"}, NEW r, Test(g, l, r)
      PROVE  UNCHANGED Abstract!state
  BY <1>1, <1>2, TestSim
<1>3. ASSUME Test(g, "return", Res(0, Zero, FALSE)),
             missed[g] \/ (pc[g] = "full" /\ closed[c] = 1)
      PROVE  Abstract!Step
  <2>1. /\ Learns(g, Res(0, Zero, FALSE)) /\ SameQueues /\ UNCHANGED <<op, closed>>
        /\ op[g] # NoOp /\ ~op[g].block /\ OutcomeOf(g) = NoRes
    BY <1>1, <1>3, TestSim
  <2>2. pc[g] = "full" => SendAlone(g) /\ opened[g]
    BY DEF IInv, ControlInv, ControlOf, MissInv, MissOf, SendAlone
  <2>3. Case(g, 1).c \in ChanAddr
    BY <2>1, CallFacts DEF IInv
  <2> QED BY <1>0, <1>3, <2>1, <2>2, <2>3, AbsDefault
<1>4. ASSUME pc[g] = "again", empty(c), Test(g, "return", Res(1, Zero, FALSE))
      PROVE  Abstract!Step
  <2>1. /\ Learns(g, Res(1, Zero, FALSE)) /\ SameQueues /\ UNCHANGED <<op, closed>>
        /\ op[g] # NoOp /\ OutcomeOf(g) = NoRes
    BY <1>1, <1>4, TestSim
  <2>2. 1 \in Cases(g) /\ c \in ChanAddr
    BY <1>0, <2>1, CallFacts DEF IInv
  <2>3. Case(g, 1).dir = "recv" /\ closed[c] = 1
    BY <1>0, <1>4 DEF IInv, ControlInv, ControlOf
  <2>4. qcount[c] = 0
    BY <1>4, <2>2, EmptyBlocks
  <2>5. Contents(c) = <<>>
    BY <2>4 DEF Contents
  <2>6. IsPending(g, 1, "recv", c)
    BY <1>0, <2>1, <2>2, <2>3 DEF IsPending
  <2> QED BY <2>1, <2>2, <2>3, <2>5, <2>6, AbsEnded
<1>5. CASE FastSend(g)
  <2>1. CASE pc[g] = "fast" /\ Test(g, IF closed[c] = 0 THEN "full" ELSE "lock", NoRes)
    <3>1. CASE closed[c] = 0
      BY <1>2, <2>1, <3>1
    <3>2. CASE closed[c] # 0
      BY <1>2, <2>1, <3>2
    <3> QED BY <3>1, <3>2
  <2>2. CASE pc[g] = "full" /\ Test(g, IF full(c) THEN "return" ELSE "lock", Res(0, Zero, FALSE))
    <3>1. CASE full(c)
      <4>1. op[g] # NoOp /\ ~op[g].block /\ Case(g, 1).dir = "send"
        BY <2>2 DEF IInv, ControlInv, ControlOf
      <4>2. c \in ChanAddr /\ Cases(g) = {1} /\ closed[c] \in {0, 1}
        BY <1>0, <2>2, <4>1, CallFacts DEF IInv, TypeOK, ControlInv, ControlOf
      <4>3. closed[c] = 0 => Blocked(g)
        BY <1>0, <3>1, <4>1, <4>2, FullBlocks DEF Blocked, Ready
      <4>4. missed[g] \/ closed[c] = 1
        BY <4>2, <4>3 DEF IInv, MissInv, MissOf
      <4> QED BY <1>3, <2>2, <3>1, <4>4
    <3>2. CASE ~full(c)
      BY <1>2, <2>2, <3>2
    <3> QED BY <3>1, <3>2
  <2> QED BY <1>0, <1>5, <2>1, <2>2 DEF FastSend
<1>6. CASE FastRecv(g)
  <2>1. CASE pc[g] = "fast" /\ Test(g, IF empty(c) THEN "open" ELSE "lock", NoRes)
    <3>1. CASE empty(c)
      BY <1>2, <2>1, <3>1
    <3>2. CASE ~empty(c)
      BY <1>2, <2>1, <3>2
    <3> QED BY <3>1, <3>2
  <2>2. CASE pc[g] = "open" /\ Test(g, IF closed[c] = 0 THEN "return" ELSE "again", Res(0, Zero, FALSE))
    <3>1. CASE closed[c] = 0
      <4>1. missed[g]
        BY <1>0, <2>2, <3>1 DEF IInv, MissInv, MissOf
      <4> QED BY <1>3, <2>2, <3>1, <4>1
    <3>2. CASE closed[c] # 0
      BY <1>2, <2>2, <3>2
    <3> QED BY <3>1, <3>2
  <2>3. CASE pc[g] = "again" /\ Test(g, IF empty(c) THEN "return" ELSE "lock", Res(1, Zero, FALSE))
    <3>1. CASE empty(c)
      BY <1>4, <2>3, <3>1
    <3>2. CASE ~empty(c)
      BY <1>2, <2>3, <3>2
    <3> QED BY <3>1, <3>2
  <2> QED BY <1>0, <1>6, <2>1, <2>2, <2>3 DEF FastRecv
<1> QED BY <1>5, <1>6

\* Locks, wakeups and sudogs are nothing to Channel.
LEMMA QuietSteps ==
    ASSUME IInv, NEW g \in Goroutine,
           \/ SelLock(g) \/ ParkCommit(g) \/ SelectAwake(g) \/ SelectPass2(g) \/ Awake(g) \/ SelectPass3(g)
    PROVE  UNCHANGED Abstract!state
<1>0. TypeOK /\ ControlOf(g) /\ SignalOf(g)
  BY DEF IInv, ControlInv, WakeInv
<1>1. UNCHANGED chanvars /\ wake' = wake /\ op' = op
  BY DEF SelLock, ParkCommit, SelectAwake, SelectPass2, Awake, SelectPass3, chanvars
<1>2. CASE SelLock(g)
  <2>1. /\ pc[g] \in {"sellock", "relock"} /\ UNCHANGED <<ret, param, elem, success>>
        /\ \E l \in {pc[g], IF pc[g] = "sellock" THEN "pass1" ELSE "pass3"} : pc' = [pc EXCEPT ![g] = l]
    BY <1>2 DEF SelLock, Goto
  <2>2. /\ \A h \in Goroutine : h # g => Keeps(h)
        /\ pc[g] = "sellock" => pc'[g] \in {"sellock", "pass1"}
        /\ pc[g] = "relock" => pc'[g] \in {"relock", "pass3"}
    BY <1>0, <2>1 DEF TypeOK, Keeps
  <2>3. CASE pc[g] = "sellock"
    BY <1>1, <2>2, <2>3, QuietSim DEF NoOutcome
  <2>4. CASE pc[g] = "relock"
    <3>1. OutcomeOf(g) = Res(param[g], elem[g], success[g]) /\ OutcomeOf(g)' = Res(param'[g], elem'[g], success'[g])
      BY <2>2, <2>4 DEF OutcomeOf, Res
    <3> QED BY <1>1, <2>1, <2>2, <3>1, QuietSim
  <2> QED BY <2>1, <2>3, <2>4
<1>3. CASE ParkCommit(g)
  <2>1. UNCHANGED <<pc, ret, param, elem, success>>
    BY <1>3 DEF ParkCommit
  <2>2. \A h : Keeps(h) /\ WakesKept(h)
    BY <1>1, <2>1 DEF Keeps, WakesKept, Wakes
  <2> QED BY <1>1, <2>2, OutcomeKept, QuietSim
<1>4. CASE SelectAwake(g)
  <2>1. pc[g] = "awake" /\ pc' = [pc EXCEPT ![g] = "relock"] /\ UNCHANGED <<ret, param, elem, success>>
    BY <1>4 DEF SelectAwake, Goto
  <2>2. pc'[g] = "relock" /\ \A h \in Goroutine : h # g => Keeps(h)
    BY <1>0, <2>1 DEF TypeOK, Keeps
  <2>3. OutcomeOf(g) = Res(param[g], elem[g], success[g]) /\ OutcomeOf(g)' = Res(param'[g], elem'[g], success'[g])
    BY <2>1, <2>2 DEF OutcomeOf, Res
  <2> QED BY <1>1, <2>1, <2>2, <2>3, QuietSim
<1>5. CASE SelectPass2(g)
  <2>1. /\ pc[g] = "pass2" /\ UNCHANGED <<ret, elem, success>>
        /\ \/ UNCHANGED <<pc, param>>
           \/ pc' = [pc EXCEPT ![g] = "parked"] /\ param' = [param EXCEPT ![g] = 0]
    BY <1>5 DEF SelectPass2, Goto
  <2>2. pc'[g] \in {"pass2", "parked"} /\ \A h \in Goroutine : h # g => Keeps(h)
    BY <1>0, <2>1 DEF TypeOK, Keeps
  <2>3. OutcomeOf(g) = NoRes
    BY <2>1 DEF OutcomeOf
  <2>4. OutcomeOf(g)' = NoRes
    <3>1. ~HasWake(g)
      BY <2>1 DEF IInv, WakeInv, OneWake, HasWake
    <3>2. \A w \in Goroutine : \A e \in Wakes(w)' : e.g # g
      BY <1>1, <3>1 DEF HasWake, Wakes
    <3>3. OutcomeFacts(g)'
      BY OutcomeIs
    <3> QED BY <2>2, <3>2, <3>3 DEF OutcomeFacts, NoRes, Res, Woken
  <2> QED BY <1>1, <2>2, <2>3, <2>4, QuietSim
<1>6. CASE Awake(g)
  <2>1. /\ pc[g] = "awake" /\ op[g].kind = "chan" /\ ret' = [ret EXCEPT ![g] = Res(1, elem[g], success[g])]
        /\ param' = [param EXCEPT ![g] = 0] /\ UNCHANGED <<elem, success>>
        /\ \E l \in {"throw", "return"} : pc' = [pc EXCEPT ![g] = l]
        /\ pc' = [pc EXCEPT ![g] = IF Case(g, 1).dir = "send" /\ ~success[g] /\ closed[Case(g, 1).c] = 0
                                   THEN "throw" ELSE "return"]
    BY <1>6 DEF Awake, Goto, Returns
  <2>2. op[g] # NoOp /\ param[g] = 1 /\ (~success[g] => closed[Case(g, 1).c] = 1)
    <3>1. op[g] # NoOp
      BY <1>0, <2>1 DEF ControlOf
    <3>2. Cases(g) = {1}
      BY <1>0, <2>1, <3>1, CallFacts
    <3> QED BY <1>0, <2>1, <3>1, <3>2 DEF SignalOf, Woken
  <2>3. /\ pc'[g] = "return" /\ ret'[g] = Res(1, elem[g], success[g])
        /\ \A h \in Goroutine : h # g => Keeps(h)
    BY <1>0, <2>1, <2>2 DEF TypeOK, Keeps
  <2>4. OutcomeOf(g) = Res(param[g], elem[g], success[g]) /\ OutcomeOf(g)' = ret'[g]
    BY <2>1, <2>3 DEF OutcomeOf
  <2> QED BY <1>1, <2>2, <2>3, <2>4, QuietSim
<1>7. CASE SelectPass3(g)
  <2>1. /\ pc[g] = "pass3" /\ UNCHANGED <<elem, success>>
        /\ \/ UNCHANGED <<pc, param, ret>>
           \/ /\ pc' = [pc EXCEPT ![g] = IF param[g] = 0 THEN "throw" ELSE "return"]
              /\ param' = [param EXCEPT ![g] = 0]
              /\ ret' = [ret EXCEPT ![g] = Res(param[g], elem[g], success[g])]
    BY <1>7 DEF SelectPass3, Goto, Returns
  <2>2. OutcomeOf(g) = Res(param[g], elem[g], success[g])
    BY <2>1 DEF OutcomeOf
  <2>3. CASE UNCHANGED <<pc, param, ret>>
    <3>1. \A h : Keeps(h) /\ WakesKept(h)
      BY <1>1, <2>1, <2>3 DEF Keeps, WakesKept, Wakes
    <3> QED BY <1>1, <3>1, OutcomeKept, QuietSim
  <2>4. CASE /\ pc' = [pc EXCEPT ![g] = IF param[g] = 0 THEN "throw" ELSE "return"]
             /\ param' = [param EXCEPT ![g] = 0]
             /\ ret' = [ret EXCEPT ![g] = Res(param[g], elem[g], success[g])]
    <3>1. param[g] # 0
      <4>1. op[g] # NoOp
        BY <1>0, <2>1 DEF ControlOf
      <4>2. Cases(g) \subseteq Nat \ {0}
        BY <1>0, <4>1, CallFacts
      <4> QED BY <1>0, <2>1, <4>2 DEF SignalOf, Woken
    <3>2. /\ pc'[g] = "return" /\ ret'[g] = Res(param[g], elem[g], success[g])
          /\ \A h \in Goroutine : h # g => Keeps(h)
      BY <1>0, <2>1, <2>4, <3>1 DEF TypeOK, Keeps
    <3>3. OutcomeOf(g)' = ret'[g]
      BY <3>2 DEF OutcomeOf
    <3> QED BY <1>1, <2>2, <3>2, <3>3, QuietSim
  <2> QED BY <2>1, <2>3, <2>4
<1> QED BY <1>2, <1>3, <1>4, <1>5, <1>6, <1>7

\* A goroutine returns from its call.
LEMMA ReturnSim ==
    ASSUME IInv, NEW g \in Goroutine, Return(g)
    PROVE  Abstract!Step
<1>1. /\ pc[g] = "return" /\ pc' = [pc EXCEPT ![g] = "idle"] /\ op' = [op EXCEPT ![g] = NoOp]
      /\ ret' = [ret EXCEPT ![g] = NoRes] /\ elem' = [elem EXCEPT ![g] = Zero]
      /\ success' = [success EXCEPT ![g] = FALSE] /\ UNCHANGED chanvars /\ UNCHANGED <<param, wake>>
  BY DEF Return, Goto, Returns, chanvars
<1>2. pc'[g] = "idle" /\ \A h \in Goroutine : h # g => Keeps(h)
  BY <1>1 DEF IInv, TypeOK, Keeps
<1>3. ret[g].casi >= 0
  BY <1>1 DEF IInv, ControlInv, ControlOf
<1>4. OutcomeOf(g) # NoRes
  <2>1. OutcomeOf(g) = ret[g]
    BY <1>1 DEF OutcomeOf
  <2>2. NoRes.casi = -1
    BY DEF NoRes, Res
  <2>3. ~(-1 >= 0)
    OBVIOUS
  <2> QED BY <1>3, <2>1, <2>2, <2>3
<1>5. Learns(g, NoRes)
  <2>1. OutcomeOf(g)' = NoRes
    BY <1>2 DEF OutcomeOf, NoRes, Res
  <2> QED BY <1>1, <1>2, <2>1, OthersKeep DEF Learns
<1> QED BY <1>1, <1>4, <1>5, QueuesKept, AbsReturn

\* closechan takes the lock and closes, or panics.
LEMMA CloseLockSim ==
    ASSUME IInv, NEW g \in Goroutine, CloseLock(g)
    PROVE  Abstract!Step
<1>0. PICK c : c = Case(g, 1).c
  OBVIOUS
<1>1. /\ pc[g] = "close" /\ ret' = [ret EXCEPT ![g] = Res(1, Zero, closed[c] = 0)]
      /\ IF closed[c] = 1
         THEN pc' = [pc EXCEPT ![g] = "return"] /\ closed' = closed
         ELSE pc' = [pc EXCEPT ![g] = "closing"] /\ closed' = [closed EXCEPT ![c] = 1]
      /\ UNCHANGED <<qcount, buf, sendx, recvx, op, elem, param, success, wake>>
  BY <1>0 DEF CloseLock, Goto, Returns
<1>2. op[g] # NoOp /\ op[g].kind = "close"
  BY <1>1 DEF IInv, ControlInv, ControlOf
<1>3. 1 \in Cases(g) /\ c \in ChanAddr /\ Case(g, 1).dir = "close"
  BY <1>0, <1>2, CallFacts DEF IInv
<1>4. closed \in [ChanAddr -> {0, 1}]
  BY DEF IInv, TypeOK
<1>5. /\ pc'[g] \in {"return", "closing"} /\ ret'[g] = Res(1, Zero, closed[c] = 0)
      /\ \A h \in Goroutine : h # g => Keeps(h)
  BY <1>1 DEF IInv, TypeOK, Keeps
<1>6. closed' = [closed EXCEPT ![c] = 1]
  BY <1>1, <1>3, <1>4
<1>7. Learns(g, Res(1, Zero, closed[c] = 0))
  BY <1>1, <1>5, LearnsOne
<1>8. OutcomeOf(g) = NoRes
  BY <1>1 DEF OutcomeOf
<1>9. IsPending(g, 1, "close", c)
  BY <1>0, <1>2, <1>3, <1>8 DEF IsPending
<1>10. SameQueues
  BY <1>1 DEF SameQueues, Contents
<1> QED BY <1>1, <1>3, <1>4, <1>6, <1>7, <1>9, <1>10, AbsClose

\* A wakeup changes hands and nothing else.
LEMMA GoreadySim ==
    ASSUME IInv, NEW g \in Goroutine, Goready(g)
    PROVE  UNCHANGED Abstract!state
<1>0. PICK e : e = Head(wake[g])
  OBVIOUS
<1>1. /\ pc[g] = "ready"
      /\ pc' = [pc EXCEPT ![e.g] = IF pc[e.g] = "parked" THEN "awake" ELSE "throw",
                          ![g] = IF Len(wake[g]) = 1 THEN "return" ELSE "ready"]
      /\ param' = [param EXCEPT ![e.g] = e.casi]
      /\ success' = [success EXCEPT ![e.g] = e.ok]
      /\ wake' = [wake EXCEPT ![g] = Tail(@)]
      /\ UNCHANGED chanvars /\ UNCHANGED <<op, elem, ret>>
  BY <1>0 DEF Goready, chanvars
<1>2. wake[g] # <<>>
  BY <1>1 DEF IInv, ControlInv, ControlOf
<1>3. /\ e \in WakeType /\ e \in Wakes(g)
      /\ \A w \in Goroutine : Wakes(w)' = IF w = g THEN Wakes(w) \ {e} ELSE Wakes(w)
  BY <1>0, <1>1, <1>2, WakeDrops
<1>4. e.g \in Goroutine /\ pc[e.g] = "parked" /\ e.g # g
  BY <1>1, <1>3 DEF WakeType, IInv, WakeInv, OneWake
<1>5. /\ pc'[e.g] = "awake" /\ pc'[g] \in {"return", "ready"} /\ param'[e.g] = e.casi /\ success'[e.g] = e.ok
      /\ \A h \in Goroutine : h # g /\ h # e.g => Keeps(h)
      /\ ret'[g] = ret[g]
  BY <1>1, <1>4 DEF IInv, TypeOK, Keeps
<1>6. ASSUME NEW h \in Goroutine, h # g, h # e.g
      PROVE  OutcomeOf(h)' = OutcomeOf(h)
  <2>1. WakesKept(h)
    BY <1>3, <1>6 DEF WakesKept
  <2> QED BY <1>5, <1>6, <2>1, OutcomeKept
<1>7. OutcomeOf(g)' = OutcomeOf(g)
  <2>1. OutcomeOf(g) = ret[g] /\ OutcomeOf(g)' = ret'[g]
    BY <1>1, <1>5 DEF OutcomeOf
  <2> QED BY <1>5, <2>1
<1>8. OutcomeOf(e.g)' = OutcomeOf(e.g)
  <2>1. OutcomeFacts(e.g)
    BY OutcomeIs
  <2>2. HasWake(e.g)
    BY <1>3 DEF HasWake
  <2>a. PICK w \in Goroutine :
           \E f \in Wakes(w) : f.g = e.g /\ OutcomeOf(e.g) = Res(f.casi, elem[e.g], f.ok)
    BY <1>4, <2>1, <2>2 DEF OutcomeFacts
  <2>3. PICK f \in Wakes(w) : f.g = e.g /\ OutcomeOf(e.g) = Res(f.casi, elem[e.g], f.ok)
    BY <2>a
  <2>4. f = e
    BY <1>3, <2>3 DEF IInv, WakeInv, OneWake
  <2>5. OutcomeOf(e.g)' = Res(param'[e.g], elem'[e.g], success'[e.g])
    BY <1>5 DEF OutcomeOf, Res
  <2> QED BY <1>1, <1>5, <2>3, <2>4, <2>5
<1>9. NobodyLearns
  BY <1>6, <1>7, <1>8 DEF NobodyLearns
<1> QED BY <1>1, <1>9, QueuesKept, AbsStutter

\* A waiter that can be signalled is pending.
LEMMA WaiterPending ==
    ASSUME IInv, NEW d \in Dir, NEW c \in ChanAddr, NEW x \in Members(waitq[d][c]), Live(x), pc[x.g] = "parked"
    PROVE  IsPending(x.g, x.casi, d, c) /\ elem[x.g] = Zero /\ ~HasWake(x.g)
<1>1. /\ x.g \in Goroutine /\ SudogOf(x, d, c) /\ op[x.g] # NoOp /\ ~HasWake(x.g)
  BY Waiter
<1>2. OutcomeFacts(x.g)
  BY OutcomeIs
<1>3. OutcomeOf(x.g) = NoRes
  BY <1>1, <1>2 DEF OutcomeFacts, HasWake
<1>4. SignalOf(x.g)
  BY <1>1 DEF IInv, WakeInv
<1>5. elem[x.g] = Zero
  BY <1>1, <1>4 DEF SignalOf, Woken
<1> QED BY <1>1, <1>3, <1>5 DEF IsPending, SudogOf

\* g adds a wakeup for x: what that tells x, and that it tells nobody else.
LEMMA SignalLearns ==
    ASSUME IInv, IInv', NEW g \in Goroutine, NEW x \in Sudogs, NEW ok \in BOOLEAN,
           ~HasWake(x.g), pc'[x.g] = "parked", x.g # g,
           wake' = [wake EXCEPT ![g] = <<Wakeup(x, ok)>> \o @],
           \A h \in Goroutine : h # g /\ h # x.g => Keeps(h)
    PROVE  /\ OutcomeOf(x.g)' = Res(x.casi, elem'[x.g], ok)
           /\ \A h \in Goroutine : h # g /\ h # x.g => OutcomeOf(h)' = OutcomeOf(h)
<1>1. PICK W : W = Wakeup(x, ok)
  OBVIOUS
<1>2. W \in WakeType /\ W.g = x.g /\ W.casi = x.casi /\ W.ok = ok
  BY <1>1 DEF Wakeup, WakeType, Sudogs
<1>3. \A w \in Goroutine : Wakes(w)' = IF w = g THEN Wakes(w) \cup {W} ELSE Wakes(w)
  BY <1>1, <1>2, WakeAdds
<1>4. ASSUME NEW h \in Goroutine, h # g, h # x.g
      PROVE  OutcomeOf(h)' = OutcomeOf(h)
  <2>1. WakesKept(h)
    BY <1>2, <1>3, <1>4 DEF WakesKept
  <2> QED BY <1>4, <2>1, OutcomeKept
<1>5. OutcomeOf(x.g)' = Res(x.casi, elem'[x.g], ok)
  <2>0. PICK k : k = x.g
    OBVIOUS
  <2>1. OutcomeFacts(k)'
    BY OutcomeIs
  <2>2. W \in Wakes(g)'
    BY <1>3
  <2>3. HasWake(k)'
    BY <1>2, <2>0, <2>2 DEF HasWake
  <2>4. pc'[k] = "parked"
    BY <2>0
  <2>a. PICK w \in Goroutine :
           \E f \in Wakes(w)' : f.g = k /\ OutcomeOf(k)' = Res(f.casi, elem'[k], f.ok)
    BY <2>1, <2>3, <2>4 DEF OutcomeFacts, Res
  <2>5. PICK f \in Wakes(w)' : f.g = k /\ OutcomeOf(k)' = Res(f.casi, elem'[k], f.ok)
    BY <2>a
  <2>6. f = W
    BY <1>2, <2>0, <2>2, <2>5 DEF IInv, WakeInv, OneWake
  <2>7. OutcomeOf(k)' = Res(x.casi, elem'[k], ok)
    BY <1>2, <2>5, <2>6
  <2> QED BY <2>0, <2>7 DEF OutcomeOf, Res, Owed, Wakes
<1> QED BY <1>4, <1>5

\* closechan takes a waiter off its queue: it has met the end of the channel.
LEMMA ReleaseSim ==
    ASSUME IInv, IInv', NEW g \in Goroutine, pc[g] = "closing", NEW d0 \in Dir,
           NEW x \in Members(waitq[d0][Case(g, 1).c]), Live(x),
           Release(g, x), UNCHANGED chanvars, UNCHANGED <<op, ret>>
    PROVE  Abstract!Step
<1>0. PICK c : c = Case(g, 1).c
  OBVIOUS
<1>1. /\ elem' = [elem EXCEPT ![x.g] = Zero] /\ param' = [param EXCEPT ![x.g] = x.casi]
      /\ success' = [success EXCEPT ![x.g] = FALSE]
      /\ wake' = [wake EXCEPT ![g] = <<Wakeup(x, FALSE)>> \o @] /\ UNCHANGED <<lock, pc>>
  BY DEF Release
<1>2. op[g] # NoOp /\ closed[c] = 1 /\ lock[c] = g
  BY <1>0 DEF IInv, ControlInv, ControlOf, LockInv, LockOf
<1>3. c \in ChanAddr
  BY <1>0, <1>2, CallFacts DEF IInv
<1>4. /\ x \in Sudogs /\ x.g \in Goroutine /\ pc[x.g] \in {"pass2", "parked"}
      /\ pc[x.g] \in {"pass2", "pass3"} => lock[c] = x.g
  BY <1>0, <1>3, Waiter
<1>5. x.g # g /\ pc[x.g] = "parked"
  BY <1>2, <1>4
<1>6. IsPending(x.g, x.casi, d0, c) /\ ~HasWake(x.g)
  BY <1>0, <1>3, <1>5, WaiterPending
<1>7. d0 = "recv" => Contents(c) = <<>>
  <2>1. d0 = "recv" => qcount[c] = 0
    BY <1>0, <1>3 DEF IInv, WaitInv, WaitOf
  <2> QED BY <2>1 DEF Contents
<1>8. elem'[x.g] = Zero /\ \A h \in Goroutine : h # x.g => Keeps(h)
  BY <1>1, <1>4 DEF IInv, TypeOK, Keeps
<1>9. /\ OutcomeOf(x.g)' = Res(x.casi, elem'[x.g], FALSE)
      /\ \A h \in Goroutine : h # g /\ h # x.g => OutcomeOf(h)' = OutcomeOf(h)
  <2>1. pc'[x.g] = "parked"
    BY <1>1, <1>5
  <2> QED BY <1>1, <1>4, <1>5, <1>6, <1>8, <2>1, SignalLearns
<1>10. OutcomeOf(g)' = OutcomeOf(g)
  <2>1. OutcomeOf(g) = ret[g] /\ OutcomeOf(g)' = ret'[g]
    BY <1>1 DEF OutcomeOf
  <2> QED BY <2>1
<1>11. Learns(x.g, Res(x.casi, Zero, FALSE))
  BY <1>8, <1>9, <1>10 DEF Learns
<1>12. d0 \in {"send", "recv"}
  BY DirFacts
<1> QED BY <1>2, <1>3, <1>4, <1>6, <1>7, <1>11, <1>12, QueuesKept, AbsEnded

\* closechan, after it has closed the channel.
LEMMA CloseReleaseSim ==
    ASSUME IInv, IInv', NEW g \in Goroutine, CloseRelease(g)
    PROVE  Abstract!Step \/ UNCHANGED Abstract!state
<1>0. PICK c : c = Case(g, 1).c
  OBVIOUS
<1>1. pc[g] = "closing" /\ UNCHANGED chanvars /\ UNCHANGED <<op, ret>>
  BY DEF CloseRelease, chanvars
<1>2. op[g] # NoOp
  BY <1>1 DEF IInv, ControlInv, ControlOf
<1>3. c \in ChanAddr
  BY <1>0, <1>2, CallFacts DEF IInv
<1>4. ASSUME NEW d \in Dir, HasWaiter(waitq[d][c])
      PROVE  Dequeued(waitq[d][c]) \in Members(waitq[d][c]) /\ Live(Dequeued(waitq[d][c]))
  <2>1. waitq[d][c] \in Seq(Sudogs) /\ Distinct(waitq[d][c])
    BY <1>3 DEF IInv, TypeOK, SudogInv
  <2> QED BY <1>4, <2>1, RestFacts
<1>5. CASE HasWaiter(recvq[c]) /\ Release(g, Dequeued(recvq[c]))
  <2>1. PICK x : x = Dequeued(waitq["recv"][c])
    OBVIOUS
  <2>2. x \in Members(waitq["recv"][c]) /\ Live(x) /\ Release(g, x)
    BY <1>4, <1>5, <2>1, DirFacts DEF recvq, Release
  <2> QED BY <1>0, <1>1, <2>2, DirFacts, ReleaseSim
<1>6. CASE HasWaiter(sendq[c]) /\ Release(g, Dequeued(sendq[c]))
  <2>1. PICK x : x = Dequeued(waitq["send"][c])
    OBVIOUS
  <2>2. x \in Members(waitq["send"][c]) /\ Live(x) /\ Release(g, x)
    BY <1>4, <1>6, <2>1, DirFacts DEF sendq, Release
  <2> QED BY <1>0, <1>1, <2>2, DirFacts, ReleaseSim
<1>7. CASE CloseEnds(g, c)
  <2>1. /\ pc' = [pc EXCEPT ![g] = IF wake[g] = <<>> THEN "return" ELSE "ready"]
        /\ UNCHANGED <<elem, param, success, wake>>
    BY <1>7 DEF CloseEnds, Goto
  <2>2. pc'[g] \in {"return", "ready"} /\ \A h \in Goroutine : h # g => Keeps(h)
    BY <1>1, <2>1 DEF IInv, TypeOK, Keeps
  <2>3. OutcomeOf(g) = ret[g] /\ OutcomeOf(g)' = ret'[g]
    BY <1>1, <2>2, SMTT(30) DEF OutcomeOf
  <2> QED BY <1>1, <2>1, <2>2, <2>3, QuietSim
<1>8. \/ HasWaiter(recvq[c]) /\ Release(g, Dequeued(recvq[c]))
      \/ HasWaiter(sendq[c]) /\ Release(g, Dequeued(sendq[c]))
      \/ CloseEnds(g, c)
  BY <1>0 DEF CloseRelease, Release, CloseEnds
<1> QED BY <1>5, <1>6, <1>7, <1>8

\* A goroutine that polls has no outcome yet.
LEMMA PollPending ==
    ASSUME IInv, NEW g \in Goroutine, NEW i, NEW P, Polling(g, i, P)
    PROVE  /\ OutcomeOf(g) = NoRes /\ op[g] # NoOp /\ i \in Cases(g)
           /\ IsPending(g, i, Case(g, i).dir, Case(g, i).c)
<1>1. pc[g] \in {"lock", "pass1"} /\ i \in Cases(g)
  BY DEF Polling
<1>2. OutcomeOf(g) = NoRes
  BY <1>1 DEF OutcomeOf
<1>3. op[g] # NoOp
  BY PollFacts
<1> QED BY <1>1, <1>2, <1>3 DEF IsPending

\* The default.
LEMMA GiveUpSim ==
    ASSUME IInv, NEW g \in Goroutine, pc[g] \in {"lock", "pass1"}, NoneReady(g), GiveUp(g),
           UNCHANGED <<op, param, success>>
    PROVE  Abstract!Step
<1>1. /\ ret' = [ret EXCEPT ![g] = Res(0, Zero, FALSE)] /\ pc' = [pc EXCEPT ![g] = "return"]
      /\ ~op[g].block /\ UNCHANGED chanvars /\ UNCHANGED <<wake, elem>>
  BY DEF GiveUp, Goto, Returns, chanvars
<1>2. /\ pc'[g] = "return" /\ ret'[g] = Res(0, Zero, FALSE)
      /\ \A h \in Goroutine : h # g => Keeps(h)
  BY <1>1 DEF IInv, TypeOK, Keeps
<1>3. Learns(g, Res(0, Zero, FALSE))
  BY <1>1, <1>2, LearnsOne
<1>4. op[g] # NoOp
  BY DEF IInv, ControlInv, ControlOf
<1>5. OutcomeOf(g) = NoRes
  BY DEF OutcomeOf
<1>6. missed[g]
  BY <1>1, <1>4 DEF IInv, MissInv, MissOf, Blocked, NoneReady
<1> QED BY <1>1, <1>3, <1>4, <1>5, <1>6, QueuesKept, AbsDefault

\* A call that blocks.
LEMMA BlockSim ==
    ASSUME IInv, NEW g \in Goroutine, pc[g] \in {"lock", "pass1"},
           NEW l \in {"parked", "pass2"}, pc' = [pc EXCEPT ![g] = l],
           UNCHANGED chanvars, UNCHANGED <<op, success, wake, elem, ret>>,
           \A h \in Goroutine : h # g => param'[h] = param[h]
    PROVE  UNCHANGED Abstract!state
<1>1. pc'[g] = l /\ \A h \in Goroutine : h # g => Keeps(h)
  BY DEF IInv, TypeOK, Keeps
<1>2. OutcomeOf(g) = NoRes
  BY DEF OutcomeOf
<1>3. OutcomeOf(g)' = NoRes
  <2>1. ~HasWake(g)
    BY DEF IInv, WakeInv, OneWake, HasWake
  <2>2. \A w \in Goroutine : \A e \in Wakes(w)' : e.g # g
    BY <2>1 DEF HasWake, Wakes
  <2>3. OutcomeFacts(g)'
    BY OutcomeIs, SMTT(30)
  <2> QED BY <1>1, <2>2, <2>3 DEF OutcomeFacts, NoRes, Res, Woken
<1> QED BY <1>1, <1>2, <1>3, QuietSim

\* g, while it polls, signals x: what the two of them learn.
LEMMA TakeOutcome ==
    ASSUME IInv, IInv', NEW g \in Goroutine, NEW i, NEW P, Polling(g, i, P),
           NEW c, c = Case(g, i).c, NEW d0 \in Dir, HasWaiter(waitq[d0][c]),
           NEW x, x = Dequeued(waitq[d0][c]), Takes(g, x),
           NEW r, ret' = [ret EXCEPT ![g] = r]
    PROVE  /\ x \in Members(waitq[d0][c]) /\ Live(x) /\ x.g \in Goroutine /\ x.g # g
           /\ c \in ChanAddr /\ closed[c] = 0
           /\ IsPending(x.g, x.casi, d0, c)
           /\ Learn(g, r, x.g, Res(x.casi, elem'[x.g], TRUE))
<1>1. /\ c \in ChanAddr /\ lock[c] \in {Nil, g} /\ wake[g] = <<>> /\ closed[c] \in {0, 1}
      /\ \A d \in Dir, b \in ChanAddr : \A e \in Members(waitq[d][b]) : e.g # g
      /\ closed[c] = 1 => \A d \in Dir : Members(waitq[d][c]) = {}
  BY PollFacts
<1>2. x \in Members(waitq[d0][c]) /\ Live(x)
  <2>1. waitq[d0][c] \in Seq(Sudogs) /\ Distinct(waitq[d0][c])
    BY <1>1 DEF IInv, TypeOK, SudogInv
  <2> QED BY <2>1, RestFacts
<1>3. /\ x \in Sudogs /\ x.g \in Goroutine /\ pc[x.g] \in {"pass2", "parked"}
      /\ pc[x.g] \in {"pass2", "pass3"} => lock[c] = x.g
  BY <1>1, <1>2, Waiter
<1>4. x.g # g /\ pc[x.g] = "parked" /\ closed[c] = 0
  BY <1>1, <1>2, <1>3, ChanAssumption
<1>5. IsPending(x.g, x.casi, d0, c) /\ ~HasWake(x.g)
  BY <1>1, <1>2, <1>4, WaiterPending
<1>6. /\ pc'[g] = "ready" /\ ret'[g] = r /\ pc'[x.g] = "parked"
      /\ \A h \in Goroutine : h # g /\ h # x.g => Keeps(h)
  BY <1>3, <1>4 DEF Takes, IInv, TypeOK, Keeps
<1>7. wake' = [wake EXCEPT ![g] = <<Wakeup(x, TRUE)>> \o @]
  <2>1. <<Wakeup(x, TRUE)>> \o wake[g] = <<Wakeup(x, TRUE)>>
    BY <1>1
  <2> QED BY <2>1 DEF Takes
<1>8. /\ OutcomeOf(x.g)' = Res(x.casi, elem'[x.g], TRUE)
      /\ \A h \in Goroutine : h # g /\ h # x.g => OutcomeOf(h)' = OutcomeOf(h)
  BY <1>3, <1>4, <1>5, <1>6, <1>7, SignalLearns
<1>9. OutcomeOf(g)' = r
  BY <1>6 DEF OutcomeOf
<1>10. Learn(g, r, x.g, Res(x.casi, elem'[x.g], TRUE))
  BY <1>8, <1>9 DEF Learn
<1> QED BY <1>1, <1>2, <1>3, <1>4, <1>5, <1>10

\* The queue of a channel, before a step and after it.
LEMMA ContentsAre ==
    ASSUME NEW c
    PROVE  /\ Contents(c) = Content(buf[c], Cap[c], qcount[c], recvx[c])
           /\ Contents(c)' = Content(buf'[c], Cap[c], qcount'[c], recvx'[c])
  BY DEF Contents, Content

\* A value goes to a waiting receiver.
LEMMA SendSim ==
    ASSUME IInv, IInv', NEW g \in Goroutine, NEW i, NEW P, Polling(g, i, P), NEW c, c = Case(g, i).c,
           Case(g, i).dir = "send", send(g, i, c), UNCHANGED <<op, param, success>>
    PROVE  Abstract!Step
<1>a. PICK x : x = Dequeued(waitq["recv"][c])
  OBVIOUS
<1>b. PICK v : v = Case(g, i).v
  OBVIOUS
<1>1. /\ closed[c] = 0 /\ HasWaiter(waitq["recv"][c])
      /\ elem' = [elem EXCEPT ![x.g] = v]
      /\ selectDone' = Signalled(x)
      /\ wake' = [wake EXCEPT ![g] = <<Wakeup(x, TRUE)>>]
      /\ ret' = [ret EXCEPT ![g] = Res(i, Zero, TRUE)]
      /\ pc' = [pc EXCEPT ![g] = "ready"]
      /\ UNCHANGED chanvars
  BY <1>a, <1>b DEF send, Goto, Returns, recvq
<1>2. Takes(g, x)
  <2>1. \A h \in Goroutine : h # x.g => elem'[h] = elem[h]
    BY <1>1 DEF IInv, TypeOK
  <2> QED BY <1>1, <2>1 DEF Takes, chanvars
<1>3. /\ x \in Members(waitq["recv"][c]) /\ Live(x) /\ x.g \in Goroutine /\ x.g # g /\ c \in ChanAddr
      /\ IsPending(x.g, x.casi, "recv", c)
      /\ Learn(g, Res(i, Zero, TRUE), x.g, Res(x.casi, elem'[x.g], TRUE))
  <2>1. PICK r : r = Res(i, Zero, TRUE)
    OBVIOUS
  <2>2. PICK d0 \in Dir : d0 = "recv"
    BY DirFacts
  <2>3. ret' = [ret EXCEPT ![g] = r] /\ HasWaiter(waitq[d0][c]) /\ x = Dequeued(waitq[d0][c])
    BY <1>1, <1>a, <2>1, <2>2
  <2>4. /\ x \in Members(waitq[d0][c]) /\ Live(x) /\ x.g \in Goroutine /\ x.g # g /\ c \in ChanAddr
        /\ IsPending(x.g, x.casi, d0, c)
        /\ Learn(g, r, x.g, Res(x.casi, elem'[x.g], TRUE))
    BY <1>2, <2>3, TakeOutcome
  <2> QED BY <2>1, <2>2, <2>4
<1>4. elem'[x.g] = v
  BY <1>1, <1>3 DEF IInv, TypeOK
<1>5. Contents(c) = <<>>
  <2>1. qcount[c] = 0
    BY <1>3 DEF IInv, WaitInv, WaitOf
  <2> QED BY <2>1 DEF Contents
<1>6. PICK s : s = Append(Contents(c), v)
  OBVIOUS
<1>7. Tail(s) = <<>> /\ Head(s) = v
  BY <1>5, <1>6
<1>8. QueueBecomes(c, Tail(s))
  BY <1>1, <1>5, <1>7, QueuesKept DEF QueueBecomes, SameQueues
<1>9. IsPending(g, i, "send", c)
  BY PollPending
<1>10. PICK h \in Goroutine : h = x.g
  BY <1>3
<1>11. PICK j : j = x.casi
  OBVIOUS
<1>12. /\ g # h /\ IsPending(h, j, "recv", c) /\ s = Append(Contents(c), Case(g, i).v)
       /\ Learn(g, Res(i, Zero, TRUE), h, Res(j, Head(s), TRUE))
       /\ UNCHANGED <<op, closed>> /\ closed[c] = 0 /\ c \in ChanAddr
  BY <1>1, <1>3, <1>4, <1>6, <1>7, <1>10, <1>11, <1>b DEF chanvars
<1> QED BY <1>8, <1>9, <1>12, AbsTransfer

\* The channel is closed.
LEMMA OnclosedSim ==
    ASSUME IInv, NEW g \in Goroutine, NEW i, NEW P, Polling(g, i, P), NEW c, c = Case(g, i).c,
           onclosed(g, i, c), UNCHANGED <<op, param, success>>
    PROVE  Abstract!Step
<1>1. /\ closed[c] = 1 /\ (Case(g, i).dir = "recv" => qcount[c] = 0)
      /\ ret' = [ret EXCEPT ![g] = Res(i, Zero, FALSE)]
      /\ pc' = [pc EXCEPT ![g] = "return"]
      /\ UNCHANGED chanvars /\ UNCHANGED <<wake, elem>>
  BY DEF onclosed, Goto, Returns, chanvars
<1>2. pc'[g] = "return" /\ ret'[g] = Res(i, Zero, FALSE) /\ \A h \in Goroutine : h # g => Keeps(h)
  BY <1>1 DEF IInv, TypeOK, Keeps
<1>3. Learns(g, Res(i, Zero, FALSE))
  BY <1>1, <1>2, LearnsOne
<1>4. PICK dir : dir = Case(g, i).dir
  OBVIOUS
<1>5. IsPending(g, i, dir, c)
  BY <1>4, PollPending
<1>6. c \in ChanAddr /\ dir \in {"send", "recv"}
  BY <1>4, PollFacts, DirFacts
<1>7. dir = "recv" => Contents(c) = <<>>
  BY <1>1, <1>4 DEF Contents
<1> QED BY <1>1, <1>3, <1>5, <1>6, <1>7, QueuesKept, AbsEnded

\* The queue of c, as a ring.
LEMMA RingAt ==
    ASSUME IInv, NEW c \in ChanAddr
    PROVE  /\ Cap[c] \in Nat /\ qcount[c] \in 0..Cap[c]
           /\ RingType
           /\ Cap[c] # 0 => /\ Cap[c] \in Nat \ {0} /\ Cap[c] > 0
                            /\ buf[c] \in [0..Cap[c]-1 -> Value \cup {Zero}]
                            /\ recvx[c] \in 0..Cap[c]-1 /\ sendx[c] \in 0..Cap[c]-1
                            /\ sendx[c] = Slot(Cap[c], recvx[c], qcount[c])
           /\ Len(Contents(c)) = qcount[c] /\ Contents(c) \in Seq(Value \cup {Zero})
<1>1. Cap[c] \in Nat /\ RingType /\ RingExact
  BY ChanAssumption DEF IInv, TypeOK, RingType
<1>2. qcount[c] \in 0..Cap[c]
  BY <1>1 DEF RingType
<1>3. Cap[c] # 0 => /\ Cap[c] \in Nat \ {0} /\ Cap[c] > 0
                    /\ buf[c] \in [0..Cap[c]-1 -> Value \cup {Zero}]
                    /\ recvx[c] \in 0..Cap[c]-1 /\ sendx[c] \in 0..Cap[c]-1
                    /\ sendx[c] = Slot(Cap[c], recvx[c], qcount[c])
  BY <1>1 DEF RingType, RingExact, Slot
<1>4. Len(Content(buf[c], Cap[c], qcount[c], recvx[c])) = qcount[c]
  <2>1. PICK n \in Nat : n = Cap[c]
    BY <1>1
  <2>2. PICK q \in 0..n : q = qcount[c]
    BY <1>2, <2>1
  <2>3. n > 0 => buf[c] \in [0..n-1 -> Value \cup {Zero}] /\ recvx[c] \in 0..n-1
    BY <1>3, <2>1
  <2>4. Len(Content(buf[c], n, q, recvx[c])) = q
    BY <2>3, ContentSeq
  <2> QED BY <2>1, <2>2, <2>4
<1>5. Content(buf[c], Cap[c], qcount[c], recvx[c]) \in Seq(Value \cup {Zero})
  <2>1. PICK n \in Nat : n = Cap[c]
    BY <1>1
  <2>2. PICK q \in 0..n : q = qcount[c]
    BY <1>2, <2>1
  <2>3. n > 0 => buf[c] \in [0..n-1 -> Value \cup {Zero}] /\ recvx[c] \in 0..n-1
    BY <1>3, <2>1
  <2>4. Content(buf[c], n, q, recvx[c]) \in Seq(Value \cup {Zero})
    BY <2>3, ContentSeq
  <2> QED BY <2>1, <2>2, <2>4
<1> QED BY <1>1, <1>2, <1>3, <1>4, <1>5, ContentsAre

\* Only the ring of c changes.
LEMMA OtherQueues ==
    ASSUME NEW c \in ChanAddr, NEW q, Contents(c)' = q,
           \A b \in ChanAddr : b # c => /\ qcount'[b] = qcount[b] /\ buf'[b] = buf[b] /\ recvx'[b] = recvx[b]
    PROVE  QueueBecomes(c, q)
<1>1. \A b \in ChanAddr : b # c => Contents(b)' = Contents(b)
  BY ContentsAre
<1>2. ASSUME NEW b \in ChanAddr
      PROVE  Contents(b)' = IF b = c THEN q ELSE Contents(b)
  BY <1>1
<1> QED BY <1>2 DEF QueueBecomes

\* A value goes into the buffer.
LEMMA BufsendSim ==
    ASSUME IInv, NEW g \in Goroutine, NEW i, NEW P, Polling(g, i, P), NEW c, c = Case(g, i).c,
           Case(g, i).dir = "send", bufsend(g, i, c), UNCHANGED <<op, param, success>>
    PROVE  Abstract!Step
<1>b. PICK v : v = Case(g, i).v
  OBVIOUS
<1>1. /\ closed[c] = 0 /\ qcount[c] < Cap[c]
      /\ buf' = [buf EXCEPT ![c][sendx[c]] = v]
      /\ qcount' = [qcount EXCEPT ![c] = @ + 1]
      /\ ret' = [ret EXCEPT ![g] = Res(i, Zero, TRUE)]
      /\ pc' = [pc EXCEPT ![g] = "return"]
      /\ UNCHANGED <<recvx, closed, wake, elem>>
  BY <1>b DEF bufsend, Goto, Returns
<1>2. op[g] # NoOp /\ c \in ChanAddr /\ IsPending(g, i, "send", c) /\ i \in Cases(g)
  BY PollFacts, PollPending
<1>3. v \in Value
  BY <1>2, <1>b, CallFacts DEF IInv
<1>4. /\ Cap[c] \in Nat /\ qcount[c] \in 0..Cap[c] /\ RingType /\ Len(Contents(c)) = qcount[c]
      /\ Cap[c] # 0 => /\ Cap[c] \in Nat \ {0} /\ buf[c] \in [0..Cap[c]-1 -> Value \cup {Zero}]
                       /\ recvx[c] \in 0..Cap[c]-1 /\ sendx[c] \in 0..Cap[c]-1
                       /\ sendx[c] = Slot(Cap[c], recvx[c], qcount[c])
  BY <1>2, RingAt
<1>5. PICK n \in Nat \ {0} : n = Cap[c]
  BY <1>1, <1>4
<1>6. PICK q \in 0..n-1 : q = qcount[c]
  BY <1>1, <1>4, <1>5
<1>7. PICK b \in [0..n-1 -> Value \cup {Zero}] : b = buf[c]
  BY <1>4, <1>5
<1>8. PICK r \in 0..n-1 : r = recvx[c]
  BY <1>4, <1>5
<1>9. sendx[c] = Slot(n, r, q) /\ sendx[c] \in 0..n-1
  BY <1>4, <1>5, <1>6, <1>8
<1>10. /\ Put(buf'[c], b, n, sendx[c], v) /\ qcount'[c] = q + 1 /\ recvx'[c] = r
       /\ \A d \in ChanAddr : d # c => /\ qcount'[d] = qcount[d] /\ buf'[d] = buf[d] /\ recvx'[d] = recvx[d]
  BY <1>1, <1>2, <1>3, <1>4, <1>6, <1>7, <1>8, <1>9 DEF RingType, Put
<1>11. Content(buf'[c], n, q + 1, r) = Append(Content(b, n, q, r), v)
  <2>1. PICK b1 : b1 = buf'[c]
    OBVIOUS
  <2>2. Put(b1, b, n, Slot(n, r, q), v)
    BY <1>9, <1>10, <2>1
  <2> QED BY <1>3, <2>1, <2>2, ContentPush
<1>12. Contents(c) = Content(b, n, q, r) /\ Contents(c)' = Content(buf'[c], n, q + 1, r)
  BY <1>5, <1>6, <1>7, <1>8, <1>10, ContentsAre
<1>13. Contents(c)' = Append(Contents(c), Case(g, i).v)
  BY <1>11, <1>12, <1>b
<1>14. QueueBecomes(c, Append(Contents(c), Case(g, i).v))
  BY <1>2, <1>10, <1>13, OtherQueues
<1>15. pc'[g] = "return" /\ ret'[g] = Res(i, Zero, TRUE) /\ \A h \in Goroutine : h # g => Keeps(h)
  BY <1>1 DEF IInv, TypeOK, Keeps
<1>16. Learns(g, Res(i, Zero, TRUE))
  BY <1>1, <1>15, LearnsOne
<1>17. UNCHANGED <<op, closed>> /\ Len(Contents(c)) < Cap[c] /\ closed[c] = 0
  BY <1>1, <1>4
<1> QED BY <1>2, <1>14, <1>16, <1>17, AbsSend

\* The oldest value comes out of the buffer.
LEMMA BufrecvSim ==
    ASSUME IInv, NEW g \in Goroutine, NEW i, NEW P, Polling(g, i, P), NEW c, c = Case(g, i).c,
           Case(g, i).dir = "recv", bufrecv(g, i, c), UNCHANGED <<op, param, success>>
    PROVE  Abstract!Step
<1>1. /\ qcount[c] > 0
      /\ buf' = [buf EXCEPT ![c][recvx[c]] = Zero]
      /\ recvx' = [recvx EXCEPT ![c] = Inc(c, @)]
      /\ qcount' = [qcount EXCEPT ![c] = @ - 1]
      /\ ret' = [ret EXCEPT ![g] = Res(i, buf[c][recvx[c]], TRUE)]
      /\ pc' = [pc EXCEPT ![g] = "return"]
      /\ UNCHANGED <<closed, wake, elem>>
  BY DEF bufrecv, Goto, Returns
<1>2. c \in ChanAddr /\ IsPending(g, i, "recv", c)
  BY PollFacts, PollPending
<1>4. /\ Cap[c] \in Nat /\ qcount[c] \in 0..Cap[c] /\ RingType
      /\ Cap[c] # 0 => /\ Cap[c] \in Nat \ {0} /\ buf[c] \in [0..Cap[c]-1 -> Value \cup {Zero}]
                       /\ recvx[c] \in 0..Cap[c]-1
  BY <1>2, RingAt
<1>5. PICK n \in Nat \ {0} : n = Cap[c]
  BY <1>1, <1>4
<1>6. PICK q \in 1..n : q = qcount[c]
  BY <1>1, <1>4, <1>5
<1>7. PICK b \in [0..n-1 -> Value \cup {Zero}] : b = buf[c]
  BY <1>4, <1>5
<1>8. PICK r \in 0..n-1 : r = recvx[c]
  BY <1>4, <1>5
<1>9. Inc(c, r) = After(n, r)
  BY <1>5 DEF Inc, After
<1>10. /\ Put(buf'[c], b, n, r, Zero) /\ qcount'[c] = q - 1 /\ recvx'[c] = After(n, r)
       /\ \A d \in ChanAddr : d # c => /\ qcount'[d] = qcount[d] /\ buf'[d] = buf[d] /\ recvx'[d] = recvx[d]
  BY <1>1, <1>2, <1>4, <1>6, <1>7, <1>8, <1>9 DEF RingType, Put
<1>11. /\ Content(buf'[c], n, q - 1, After(n, r)) = Tail(Content(b, n, q, r))
       /\ Content(b, n, q, r) # <<>> /\ Head(Content(b, n, q, r)) = b[r]
  <2>1. PICK b1 : b1 = buf'[c]
    OBVIOUS
  <2>2. PICK z \in Value \cup {Zero} : z = Zero
    OBVIOUS
  <2>3. Put(b1, b, n, r, z)
    BY <1>10, <2>1, <2>2
  <2>4. /\ Content(b1, n, q - 1, After(n, r)) = Tail(Content(b, n, q, r))
        /\ Content(b, n, q, r) # <<>> /\ Head(Content(b, n, q, r)) = b[r]
    BY <2>3, ContentPop
  <2> QED BY <2>1, <2>4
<1>12. Contents(c) = Content(b, n, q, r) /\ Contents(c)' = Content(buf'[c], n, q - 1, After(n, r))
  BY <1>5, <1>6, <1>7, <1>8, <1>10, ContentsAre
<1>13. Contents(c)' = Tail(Contents(c)) /\ Contents(c) # <<>> /\ Head(Contents(c)) = buf[c][recvx[c]]
  BY <1>7, <1>8, <1>11, <1>12
<1>14. QueueBecomes(c, Tail(Contents(c)))
  BY <1>2, <1>10, <1>13, OtherQueues
<1>15. pc'[g] = "return" /\ ret'[g] = Res(i, Head(Contents(c)), TRUE) /\ \A h \in Goroutine : h # g => Keeps(h)
  BY <1>1, <1>13 DEF IInv, TypeOK, Keeps
<1>16. Learns(g, Res(i, Head(Contents(c)), TRUE))
  BY <1>1, <1>15, LearnsOne
<1>17. UNCHANGED <<op, closed>>
  BY <1>1
<1> QED BY <1>2, <1>13, <1>14, <1>16, <1>17, AbsReceive

\* The oldest value is received and the waiting sender's value goes in.
LEMMA RecvSim ==
    ASSUME IInv, IInv', NEW g \in Goroutine, NEW i, NEW P, Polling(g, i, P), NEW c, c = Case(g, i).c,
           Case(g, i).dir = "recv", recv(g, i, c), UNCHANGED <<op, param, success>>
    PROVE  Abstract!Step
<1>a. PICK x : x = Dequeued(waitq["send"][c])
  OBVIOUS
<1>b. PICK v : v = Case(x.g, x.casi).v
  OBVIOUS
<1>c. PICK u : u = IF Cap[c] = 0 THEN v ELSE buf[c][recvx[c]]
  OBVIOUS
<1>1. /\ HasWaiter(waitq["send"][c])
      /\ selectDone' = Signalled(x)
      /\ wake' = [wake EXCEPT ![g] = <<Wakeup(x, TRUE)>>]
      /\ pc' = [pc EXCEPT ![g] = "ready"]
      /\ ret' = [ret EXCEPT ![g] = Res(i, u, TRUE)]
      /\ UNCHANGED <<elem, closed, qcount>>
      /\ IF Cap[c] = 0
         THEN UNCHANGED chanvars
         ELSE /\ buf' = [buf EXCEPT ![c][recvx[c]] = v]
              /\ recvx' = [recvx EXCEPT ![c] = Inc(c, @)]
  BY <1>a, <1>b, <1>c DEF recv, Goto, Returns, sendq, HasSender, chanvars
<1>2. Takes(g, x)
  BY <1>1 DEF Takes
<1>3. /\ x \in Members(waitq["send"][c]) /\ Live(x) /\ x.g \in Goroutine /\ x.g # g
      /\ c \in ChanAddr /\ closed[c] = 0 /\ elem[x.g] = Zero
      /\ IsPending(x.g, x.casi, "send", c)
      /\ Learn(g, Res(i, u, TRUE), x.g, Res(x.casi, elem'[x.g], TRUE))
  <2>1. PICK r : r = Res(i, u, TRUE)
    OBVIOUS
  <2>2. PICK d0 \in Dir : d0 = "send"
    BY DirFacts
  <2>3. ret' = [ret EXCEPT ![g] = r] /\ HasWaiter(waitq[d0][c]) /\ x = Dequeued(waitq[d0][c])
    BY <1>1, <1>a, <2>1, <2>2
  <2>4. /\ x \in Members(waitq[d0][c]) /\ Live(x) /\ x.g \in Goroutine /\ x.g # g /\ c \in ChanAddr
        /\ IsPending(x.g, x.casi, d0, c)
        /\ Learn(g, r, x.g, Res(x.casi, elem'[x.g], TRUE))
    BY <1>2, <2>3, TakeOutcome
  <2>5. closed[c] = 0
    BY <1>2, <2>3, TakeOutcome
  <2>6. elem[x.g] = Zero
    <3>1. lock[c] \in {Nil, g}
      BY PollFacts
    <3>2. pc[x.g] \in {"pass2", "parked"} /\ (pc[x.g] \in {"pass2", "pass3"} => lock[c] = x.g)
      BY <2>4, Waiter
    <3>3. pc[x.g] = "parked"
      BY <2>4, <3>1, <3>2, ChanAssumption
    <3> QED BY <2>4, <3>3, WaiterPending
  <2> QED BY <2>1, <2>2, <2>4, <2>5, <2>6
<1>4. qcount[c] = Cap[c] /\ v \in Value
  <2>1. qcount[c] = Cap[c]
    BY <1>3 DEF IInv, WaitInv, WaitOf
  <2>2. SudogOf(x, "send", c) /\ op[x.g] # NoOp
    BY <1>3, DirFacts, Waiter
  <2>3. v \in Value
    BY <1>3, <1>b, <2>2, CallFacts DEF IInv, SudogOf
  <2> QED BY <2>1, <2>3
<1>5. PICK s : s = Append(Contents(c), v)
  OBVIOUS
<1>6. QueueBecomes(c, Tail(s)) /\ Head(s) = u
  <2>1. CASE Cap[c] = 0
    <3>1. Contents(c) = <<>>
      BY <1>4, <2>1 DEF Contents
    <3>2. Tail(s) = <<>> /\ Head(s) = v
      BY <1>5, <3>1
    <3>3. SameQueues
      BY <1>1, <2>1, QueuesKept
    <3> QED BY <1>c, <2>1, <3>1, <3>2, <3>3 DEF QueueBecomes, SameQueues
  <2>2. CASE Cap[c] # 0
    <3>1. /\ Cap[c] \in Nat \ {0} /\ buf[c] \in [0..Cap[c]-1 -> Value \cup {Zero}] /\ RingType
          /\ recvx[c] \in 0..Cap[c]-1
      BY <1>3, <2>2, RingAt
    <3>2. PICK n \in Nat \ {0} : n = Cap[c]
      BY <3>1
    <3>3. PICK b \in [0..n-1 -> Value \cup {Zero}] : b = buf[c]
      BY <3>1, <3>2
    <3>4. PICK r \in 0..n-1 : r = recvx[c]
      BY <3>1, <3>2
    <3>5. Inc(c, r) = After(n, r)
      BY <3>2 DEF Inc, After
    <3>6. buf' = [buf EXCEPT ![c][r] = v] /\ recvx' = [recvx EXCEPT ![c] = After(n, r)] /\ qcount' = qcount
      BY <1>1, <2>2, <3>4, <3>5
    <3>7. /\ Put(buf'[c], b, n, r, v) /\ qcount'[c] = n /\ recvx'[c] = After(n, r)
          /\ \A d \in ChanAddr : d # c => /\ qcount'[d] = qcount[d] /\ buf'[d] = buf[d] /\ recvx'[d] = recvx[d]
      BY <1>3, <1>4, <3>1, <3>2, <3>3, <3>6 DEF RingType, Put
    <3>8. /\ Content(buf'[c], n, n, After(n, r)) = Tail(Append(Content(b, n, n, r), v))
          /\ Head(Append(Content(b, n, n, r), v)) = b[r]
      <4>1. PICK b1 : b1 = buf'[c]
        OBVIOUS
      <4>2. Put(b1, b, n, r, v)
        BY <3>7, <4>1
      <4>3. /\ Content(b1, n, n, After(n, r)) = Tail(Append(Content(b, n, n, r), v))
            /\ Head(Append(Content(b, n, n, r), v)) = b[r]
        BY <1>4, <4>2, ContentSwap
      <4> QED BY <4>1, <4>3
    <3>9. Contents(c) = Content(b, n, n, r) /\ Contents(c)' = Content(buf'[c], n, n, After(n, r))
      BY <1>4, <3>2, <3>3, <3>4, <3>7, ContentsAre
    <3>10. Contents(c)' = Tail(s) /\ Head(s) = b[r]
      BY <1>5, <3>8, <3>9
    <3>11. QueueBecomes(c, Tail(s))
      BY <1>3, <3>7, <3>10, OtherQueues
    <3> QED BY <1>c, <2>2, <3>3, <3>4, <3>10, <3>11
  <2> QED BY <2>1, <2>2
<1>7. IsPending(g, i, "recv", c)
  BY PollPending
<1>8. PICK h \in Goroutine : h = x.g
  BY <1>3
<1>9. PICK j : j = x.casi
  OBVIOUS
<1>10. elem'[x.g] = Zero
  BY <1>1, <1>3
<1>11. Learn(h, Res(j, Zero, TRUE), g, Res(i, Head(s), TRUE))
  BY <1>3, <1>6, <1>8, <1>9, <1>10 DEF Learn
<1>12. /\ h # g /\ IsPending(h, j, "send", c) /\ s = Append(Contents(c), Case(h, j).v)
       /\ UNCHANGED <<op, closed>> /\ closed[c] = 0 /\ c \in ChanAddr /\ QueueBecomes(c, Tail(s))
  BY <1>1, <1>3, <1>5, <1>6, <1>8, <1>9, <1>b
<1> QED BY <1>7, <1>11, <1>12, AbsTransfer

\* One of these happens when a case proceeds.
LEMMA ProceedSim ==
    ASSUME IInv, IInv', NEW g \in Goroutine, NEW i, NEW P, Polling(g, i, P), Proceed(g, i, P),
           UNCHANGED <<op, param, success>>
    PROVE  Abstract!Step
<1>a. PICK c : c = Case(g, i).c
  OBVIOUS
<1>1. \/ Case(g, i).dir = "send" /\ (send(g, i, c) \/ bufsend(g, i, c))
      \/ Case(g, i).dir = "recv" /\ (recv(g, i, c) \/ bufrecv(g, i, c))
      \/ onclosed(g, i, c)
  BY <1>a DEF Proceed
<1> QED BY <1>1, <1>a, SendSim, BufsendSim, RecvSim, BufrecvSim, OnclosedSim

\* The locked part of chansend and chanrecv.
LEMMA ChanOpSim ==
    ASSUME IInv, IInv', NEW g \in Goroutine, ChanOp(g)
    PROVE  Abstract!Step \/ UNCHANGED Abstract!state
<1>1. pc[g] = "lock" /\ lock[Case(g, 1).c] = Nil /\ UNCHANGED <<op, success>>
  BY DEF ChanOp
<1>2. op[g] # NoOp /\ op[g].kind = "chan"
  BY <1>1 DEF IInv, ControlInv, ControlOf
<1>3. Cases(g) = {1}
  BY <1>2, CallFacts DEF IInv
<1>4. CASE Proceed(g, 1, {}) /\ UNCHANGED param
  <2>1. Polling(g, 1, {})
    BY <1>1, <1>3 DEF Polling
  <2> QED BY <1>1, <1>4, <2>1, ProceedSim
<1>5. CASE NoneReady(g) /\ GiveUp(g) /\ UNCHANGED param
  BY <1>1, <1>5, GiveUpSim
<1>6. CASE Park(g)
  <2>1. /\ pc' = [pc EXCEPT ![g] = "parked"] /\ param' = [param EXCEPT ![g] = 0]
        /\ UNCHANGED chanvars /\ UNCHANGED <<wake, elem, ret>>
    BY <1>6 DEF Park, Goto, chanvars
  <2>2. \A h \in Goroutine : h # g => param'[h] = param[h]
    BY <2>1 DEF IInv, TypeOK
  <2> QED BY <1>1, <2>1, <2>2, BlockSim
<1> QED BY <1>4, <1>5, <1>6 DEF ChanOp

\* Pass 1 of selectgo.
LEMMA SelectPass1Sim ==
    ASSUME IInv, IInv', NEW g \in Goroutine, SelectPass1(g)
    PROVE  Abstract!Step \/ UNCHANGED Abstract!state
<1>0. LockOf(g)
  BY DEF IInv, LockInv
<1>1. pc[g] = "pass1" /\ UNCHANGED <<op, param, success>>
  BY DEF SelectPass1
<1>2. op[g] # NoOp
  BY <1>1 DEF IInv, ControlInv, ControlOf, HoldsAll
<1>3. \A j \in Cases(g) : Case(g, j).c \in Channels(g)
  BY <1>2, CallFacts DEF IInv
<1>4. \A j \in Cases(g) : lock[Case(g, j).c] = g
  BY <1>0, <1>1, <1>3 DEF LockOf, HoldsAll
<1>5. CASE \E i \in Cases(g), P \in SUBSET {j \in Cases(g) : ~Ready(Case(g, j))} :
              /\ Ready(Case(g, i))
              /\ Proceed(g, i, P)
  <2>1. PICK i \in Cases(g), P \in SUBSET {j \in Cases(g) : ~Ready(Case(g, j))} : Proceed(g, i, P)
    BY <1>5
  <2>2. Polling(g, i, P)
    BY <1>1, <1>4 DEF Polling
  <2> QED BY <1>1, <2>1, <2>2, ProceedSim
<1>6. CASE NoneReady(g) /\ GiveUp(g)
  BY <1>1, <1>6, GiveUpSim
<1>7. CASE /\ Goto(g, "pass2")
           /\ UNCHANGED <<wake, elem, ret, qcount, buf, sendx, recvx, closed>>
  <2>1. pc' = [pc EXCEPT ![g] = "pass2"] /\ UNCHANGED chanvars /\ UNCHANGED <<wake, elem, ret>>
    BY <1>7 DEF Goto, chanvars
  <2> QED BY <1>1, <2>1, BlockSim
<1> QED BY <1>5, <1>6, <1>7 DEF SelectPass1

\* What a step of Chan does to the channels and the calls.
LEMMA StepSim ==
    ASSUME IInv, IInv', [Next]_vars
    PROVE  Abstract!Step \/ UNCHANGED Abstract!state
<1>1. CASE UNCHANGED vars
  <2>1. UNCHANGED chanvars /\ UNCHANGED <<op, pc, ret, param, elem, success, wake>>
    BY <1>1 DEF vars, chanvars
  <2>2. \A h : Keeps(h) /\ WakesKept(h)
    BY <2>1 DEF Keeps, WakesKept, Wakes
  <2>3. NobodyLearns
    BY <2>2, OutcomeKept DEF NobodyLearns
  <2> QED BY <2>1, <2>3, QueuesKept, AbsStutter
<1>2. CASE Next
  <2>0. PICK g \in Goroutine :
           \/ \E o \in Program[g] : Call(g, o)
           \/ Locking(g) \/ Running(g) \/ ParkCommit(g)
    BY <1>2 DEF Next
  <2>1. CASE \E o \in Program[g] : Call(g, o)
    BY <2>1, CallSim
  <2>2. CASE ChanOp(g)
    BY <2>2, ChanOpSim
  <2>3. CASE CloseLock(g)
    BY <2>3, CloseLockSim
  <2>4. CASE SelLock(g) \/ ParkCommit(g) \/ SelectAwake(g) \/ SelectPass2(g) \/ Awake(g) \/ SelectPass3(g)
    BY <2>4, QuietSteps
  <2>5. CASE FastSend(g) \/ FastRecv(g)
    BY <2>5, FastSim
  <2>6. CASE Goready(g)
    BY <2>6, GoreadySim
  <2>7. CASE CloseRelease(g)
    BY <2>7, CloseReleaseSim
  <2>8. CASE SelectPass1(g)
    BY <2>8, SelectPass1Sim
  <2>9. CASE Return(g)
    BY <2>9, ReturnSim
  <2> QED BY <2>0, <2>1, <2>2, <2>3, <2>4, <2>5, <2>6, <2>7, <2>8, <2>9 DEF Locking, Running
<1> QED BY <1>1, <1>2

-----------------------------------------------------------------------------
(* Who waits, and what has been seen of a call *)

\* A goroutine that waits has a live sudog in the queue of each of its cases.
LEMMA WaitingQueued ==
    ASSUME IInv, NEW h \in Waiting, NEW j \in Cases(h)
    PROVE  /\ h \in Goroutine /\ op[h] # NoOp /\ Case(h, j).dir \in Dir /\ Case(h, j).c \in ChanAddr
           /\ Sudog(h, j) \in Members(waitq[Case(h, j).dir][Case(h, j).c])
           /\ Live(Sudog(h, j)) /\ Sudog(h, j).g = h
           /\ HasWaiter(waitq[Case(h, j).dir][Case(h, j).c])
<1>1. h \in Goroutine /\ pc[h] = "parked" /\ OutcomeOf(h) = NoRes
  BY DEF Waiting
<1>2. op[h] # NoOp /\ op[h].kind \in {"chan", "select"}
  BY <1>1 DEF IInv, ControlInv, ControlOf
<1>3. Case(h, j).dir \in Dir /\ Case(h, j).c \in ChanAddr
  BY <1>1, <1>2, CallFacts DEF IInv, Dir
<1>4. ~HasWake(h)
  <2>1. \A w \in Goroutine : \A e \in Wakes(w) : e.g = h => e.casi \in Nat
    BY <1>1, <1>2, CallFacts DEF IInv, WakeInv, OneWake
  <2>2. CASE HasWake(h)
    <3>1. Owed(h) # {}
      BY <2>2, OwedIs
    <3>2. PICK e : e = CHOOSE f \in Owed(h) : TRUE
      OBVIOUS
    <3>3. e \in Owed(h)
      BY <3>1, <3>2
    <3>4. OutcomeOf(h) = Res(e.casi, elem[h], e.ok)
      BY <1>1, <3>1, <3>2 DEF OutcomeOf
    <3>5. e.casi \in Nat
      BY <2>1, <3>3, OwedIs
    <3> QED BY <1>1, <3>4, <3>5 DEF Res, NoRes
  <2> QED BY <2>2
<1>5. Sudog(h, j) \in Members(waitq[Case(h, j).dir][Case(h, j).c])
  BY <1>1, <1>4 DEF IInv, SudogInv
<1>6. Sudog(h, j).g = h
  BY DEF Sudog
<1>7. Live(Sudog(h, j))
  <2>1. selectDone[h] # 1
    BY <1>1, <1>4 DEF IInv, WakeInv, SignalOf, Woken
  <2>2. selectDone[h] \in {0, 1}
    BY <1>1 DEF IInv, TypeOK
  <2> QED BY <1>6, <2>1, <2>2 DEF Live
<1> QED BY <1>1, <1>2, <1>3, <1>5, <1>6, <1>7, HasWaiterIs

\* A case that finds no value, no room, no partner and no close cannot proceed in
\* Channel either.
LEMMA CannotProceed ==
    ASSUME IInv, NEW k, k.c \in ChanAddr, closed[k.c] = 0,
           k.dir = "send" => qcount[k.c] >= Cap[k.c],
           k.dir = "recv" => qcount[k.c] = 0,
           \A h \in Waiting : \A j \in Cases(h) :
              ~(Case(h, j).c = k.c /\ {k.dir, Case(h, j).dir} = {"send", "recv"})
    PROVE  ~Abstract!CanProceed(k)
<1>1. qcount[k.c] \in Nat /\ Cap[k.c] \in Nat
  BY ChanAssumption DEF IInv, TypeOK
<1>2. ~[c \in ChanAddr |-> closed[c] = 1][k.c]
  <2>1. closed[k.c] # 1
    OBVIOUS
  <2>2. (closed[k.c] = 1) = FALSE
    BY <2>1, Zenon
  <2>3. [c \in ChanAddr |-> closed[c] = 1][k.c] = (closed[k.c] = 1)
    BY Zenon
  <2> QED BY <2>2, <2>3, Zenon
<1>3. Contents(k.c) \in Seq(Value \cup {Zero}) /\ Len(Contents(k.c)) = qcount[k.c]
  <2>1. /\ Cap[k.c] > 0 => /\ buf[k.c] \in [0..Cap[k.c]-1 -> Value \cup {Zero}]
                           /\ recvx[k.c] \in 0..Cap[k.c]-1
        /\ qcount[k.c] \in 0..Cap[k.c]
    BY DEF IInv, TypeOK
  <2> QED BY <1>1, <2>1, ContentSeq, ContentsAre
<1>4. [c \in ChanAddr |-> Contents(c)][k.c] = Contents(k.c)
  OBVIOUS
<1>5. ~(k.dir = "send" /\ Len([c \in ChanAddr |-> Contents(c)][k.c]) < Cap[k.c])
  BY <1>1, <1>3, <1>4
<1>6. ~(k.dir = "recv" /\ [c \in ChanAddr |-> Contents(c)][k.c] # <<>>)
  BY <1>1, <1>3, <1>4
<1>7. ASSUME NEW h \in Waiting, NEW j \in Abstract!Cases(h), op[h].cases[j].c = k.c,
             {k.dir, op[h].cases[j].dir} = {"send", "recv"}
      PROVE  FALSE
  <2>1. j \in Cases(h)
    BY DEF Abstract!Cases, Cases
  <2> QED BY <1>7, <2>1 DEF Case
<1> QED BY <1>2, <1>5, <1>6, <1>7 DEF Abstract!CanProceed

\* A call none of whose cases is ready is stuck.
LEMMA NotReadyStuck ==
    ASSUME IInv, NEW g \in Goroutine, op[g] # NoOp, NoneReady(g)
    PROVE  Abstract!Stuck(g)
<1> SUFFICES ASSUME NEW i \in Cases(g)  PROVE ~Abstract!CanProceed(Case(g, i))
  BY DEF Abstract!Stuck, Abstract!Cases, Cases, Case
<1> DEFINE k == Case(g, i)
<1>1. k.c \in ChanAddr
  BY CallFacts DEF IInv
<1>2. ~Ready(k)
  BY DEF NoneReady
<1>3. closed[k.c] = 0 /\ qcount[k.c] \in Nat /\ Cap[k.c] \in Nat
  BY <1>1, <1>2, ChanAssumption DEF Ready, IInv, TypeOK
<1>4. /\ k.dir = "send" => ~HasWaiter(waitq["recv"][k.c]) /\ qcount[k.c] >= Cap[k.c]
      /\ k.dir = "recv" => ~HasWaiter(waitq["send"][k.c]) /\ qcount[k.c] = 0
  BY <1>2, <1>3 DEF Ready, Sendable, Receivable, recvq, sendq
<1>5. ASSUME NEW h \in Waiting, NEW j \in Cases(h), Case(h, j).c = k.c,
             {k.dir, Case(h, j).dir} = {"send", "recv"}
      PROVE  FALSE
  <2>1. HasWaiter(waitq[Case(h, j).dir][k.c])
    BY <1>5, WaitingQueued
  <2>2. \/ k.dir = "send" /\ Case(h, j).dir = "recv"
        \/ k.dir = "recv" /\ Case(h, j).dir = "send"
    BY <1>5
  <2> QED BY <1>4, <2>1, <2>2
<1> QED BY <1>1, <1>3, <1>4, <1>5, CannotProceed

\* So is a select that holds its locks and queues its sudogs.
LEMMA Pass2Stuck ==
    ASSUME IInv, NEW g \in Goroutine, pc[g] = "pass2"
    PROVE  Abstract!Stuck(g)
<1>0. op[g] # NoOp /\ op[g].kind = "select"
  BY DEF IInv, ControlInv, ControlOf, HoldsAll
<1> SUFFICES ASSUME NEW i \in Cases(g)  PROVE ~Abstract!CanProceed(Case(g, i))
  BY <1>0 DEF Abstract!Stuck, Abstract!Cases, Cases, Case
<1> DEFINE k == Case(g, i)
<1>1. k.c \in ChanAddr /\ k.dir \in Dir
  BY <1>0, CallFacts DEF IInv, Dir
<1>2. /\ closed[k.c] = 0
      /\ \A e \in Members(waitq[Other(k.dir)][k.c]) : e.g = g
      /\ k.dir = "send" => qcount[k.c] = Cap[k.c]
      /\ k.dir = "recv" => qcount[k.c] = 0
  BY DEF IInv, WaitInv, Pass2Of
<1>3. k.dir = "send" => qcount[k.c] >= Cap[k.c]
  <2>1. qcount[k.c] \in Nat /\ Cap[k.c] \in Nat
    BY <1>1, ChanAssumption DEF IInv, TypeOK
  <2> QED BY <1>2, <2>1
<1>4. ASSUME NEW h \in Waiting, NEW j \in Cases(h), Case(h, j).c = k.c,
             {k.dir, Case(h, j).dir} = {"send", "recv"}
      PROVE  FALSE
  <2>1. Case(h, j).dir = Other(k.dir)
    BY <1>4 DEF Other
  <2>2. Sudog(h, j) \in Members(waitq[Other(k.dir)][k.c]) /\ Sudog(h, j).g = h
    BY <1>4, <2>1, WaitingQueued
  <2> QED BY <1>2, <2>2 DEF Waiting
<1> QED BY <1>1, <1>2, <1>3, <1>4, CannotProceed

\* Whoever records that it is blocked is stuck, and whoever records that its channels
\* are open has them open.
BlockedStuck ==
    \A g \in Goroutine : /\ Blocked(g) => Abstract!Stuck(g)
                         /\ Open(g) => Abstract!Open(g)

LEMMA BlockedIsStuck == IInv => BlockedStuck
<1> SUFFICES ASSUME IInv, NEW g \in Goroutine
             PROVE  /\ Blocked(g) => Abstract!Stuck(g)
                    /\ Open(g) => Abstract!Open(g)
  BY DEF BlockedStuck
<1>1. Blocked(g) => Abstract!Stuck(g)
  BY NotReadyStuck DEF Blocked, NoneReady
<1>2. ASSUME Open(g)
      PROVE  Abstract!Open(g)
  <2>1. op[g] # NoOp /\ \A i \in Cases(g) : closed[Case(g, i).c] = 0
    BY <1>2 DEF Open
  <2>2. ASSUME NEW i \in Cases(g)
        PROVE  ~[c \in ChanAddr |-> closed[c] = 1][Case(g, i).c]
    <3>1. closed[Case(g, i).c] # 1
      BY <2>1
    <3>2. Case(g, i).c \in ChanAddr
      BY <2>1, CallFacts DEF IInv
    <3>3. (closed[Case(g, i).c] = 1) = FALSE
      BY <3>1, Zenon
    <3>4. [c \in ChanAddr |-> closed[c] = 1][Case(g, i).c] = (closed[Case(g, i).c] = 1)
      BY <3>2, Zenon
    <3> QED BY <3>3, <3>4, Zenon
  <2>3. ASSUME NEW i \in Abstract!Cases(g)
        PROVE  i \in Cases(g) /\ op[g].cases[i] = Case(g, i)
    BY <2>1, <2>3 DEF Abstract!Cases, Cases, Case
  <2>4. \A i \in Abstract!Cases(g) : ~[c \in ChanAddr |-> closed[c] = 1][op[g].cases[i].c]
    BY <2>2, <2>3, Zenon
  <2> QED BY <2>1, <2>4 DEF Abstract!Open
<1> QED BY <1>1, <1>2

\* What a step records.
LEMMA ObserveSim ==
    ASSUME BlockedStuck', Observe
    PROVE  Abstract!Witness
<1>1. ASSUME NEW g \in Goroutine, missed'[g]
      PROVE  op'[g] # NoOp /\ (missed[g] \/ Abstract!Stuck(g)')
  BY <1>1 DEF Observe, BlockedStuck, Blocked
<1>2. ASSUME NEW g \in Goroutine, opened'[g]
      PROVE  op'[g] # NoOp /\ (opened[g] \/ Abstract!Open(g)')
  <2>1. Open(g)' \/ (opened[g] /\ op'[g] # NoOp)
    BY <1>2 DEF Observe
  <2>2. Open(g)' => Abstract!Open(g)'
    BY DEF BlockedStuck
  <2> QED BY <2>1, <2>2 DEF Open
<1> QED BY <1>1, <1>2 DEF Abstract!Witness

\* An outcome is forgotten only when the call returns.
LEMMA OutcomeStays ==
    ASSUME IInv, Abstract!Step \/ UNCHANGED Abstract!state, NEW h \in Goroutine,
           OutcomeOf(h) # NoRes, op'[h] # NoOp
    PROVE  OutcomeOf(h)' # NoRes
<1> DEFINE o == [g \in Goroutine |-> OutcomeOf(g)]
           o1 == [g \in Goroutine |-> OutcomeOf(g)']
<1>1. Abstract!Pending = NoRes
  BY DEF Abstract!Pending, Abstract!Result, NoRes, Res
<1>2. o[h] = OutcomeOf(h) /\ o1[h] = OutcomeOf(h)' /\ o[h] # NoRes
  OBVIOUS
<1>3. CASE UNCHANGED Abstract!state
  BY <1>2, <1>3 DEF Abstract!state
<1>4. ASSUME NEW g \in Goroutine, \E x \in Program[g] : Abstract!Call(g, x)
      PROVE  o1[h] # NoRes
  BY <1>2, <1>4 DEF Abstract!Call
<1>5. ASSUME NEW g \in Goroutine, Abstract!Return(g)
      PROVE  o1[h] # NoRes
  <2>1. g # h
    <3>1. op' = [op EXCEPT ![g] = NoOp] /\ DOMAIN op = Goroutine
      BY <1>5 DEF Abstract!Return, IInv, TypeOK
    <3> QED BY <3>1
  <2> QED BY <1>2, <1>5, <2>1 DEF Abstract!Return
<1>6. ASSUME NEW g \in Goroutine, NEW r, o[g] = NoRes, o1 = [o EXCEPT ![g] = r]
      PROVE  o1[h] # NoRes
  BY <1>2, <1>6
<1>7. ASSUME NEW g \in Goroutine, Abstract!Default(g)
      PROVE  o1[h] # NoRes
  BY <1>1, <1>6, <1>7 DEF Abstract!Default, Abstract!Effect
<1>9. ASSUME NEW g \in Goroutine, NEW i, NEW x \in Goroutine, NEW j, NEW c, Abstract!Transfer(g, i, x, j, c)
      PROVE  o1[h] # NoRes
  <2>1. h # g /\ h # x
    BY <1>1, <1>2, <1>9 DEF Abstract!Transfer, Abstract!Waits
  <2>2. PICK r, q : o1 = [o EXCEPT ![g] = r, ![x] = q]
    BY <1>9 DEF Abstract!Transfer
  <2>3. o1[h] = o[h]
    BY <2>1, <2>2
  <2> QED BY <1>2, <2>3
<1>10. ASSUME Abstract!Step
       PROVE  o1[h] # NoRes
  <2>1. PICK g \in Goroutine :
           \/ \E x \in Program[g] : Abstract!Call(g, x)
           \/ Abstract!Return(g)
           \/ Abstract!Default(g)
           \/ \E i \in Abstract!Cases(g) :
                 \/ Abstract!Send(g, i, op[g].cases[i].c)
                 \/ Abstract!Receive(g, i, op[g].cases[i].c)
                 \/ \E x \in Goroutine : \E j \in Abstract!Cases(x) :
                       Abstract!Transfer(g, i, x, j, op[g].cases[i].c)
                 \/ \E dir \in {"send", "recv"} : Abstract!Ended(g, i, dir, op[g].cases[i].c)
                 \/ Abstract!Close(g, i, op[g].cases[i].c)
    BY <1>10 DEF Abstract!Step
  <2>2. CASE (\E x \in Program[g] : Abstract!Call(g, x)) \/ Abstract!Return(g) \/ Abstract!Default(g)
    BY <1>4, <1>5, <1>7, <2>2
  <2>4. ASSUME NEW i, NEW c,
               \E x \in Goroutine : \E j \in Abstract!Cases(x) : Abstract!Transfer(g, i, x, j, c)
        PROVE  o1[h] # NoRes
    BY <1>9, <2>4
  <2> HIDE DEF o1
  <2>5. ASSUME ~((\E x \in Program[g] : Abstract!Call(g, x)) \/ Abstract!Return(g) \/ Abstract!Default(g))
        PROVE  o1[h] # NoRes
    <3>1. PICK i \in Abstract!Cases(g) :
                 \/ Abstract!Send(g, i, op[g].cases[i].c)
                 \/ Abstract!Receive(g, i, op[g].cases[i].c)
                 \/ \E x \in Goroutine : \E j \in Abstract!Cases(x) :
                       Abstract!Transfer(g, i, x, j, op[g].cases[i].c)
                 \/ \E dir \in {"send", "recv"} : Abstract!Ended(g, i, dir, op[g].cases[i].c)
                 \/ Abstract!Close(g, i, op[g].cases[i].c)
      BY <2>1, <2>5, Zenon
    <3>2. CASE \E x \in Goroutine : \E j \in Abstract!Cases(x) :
                  Abstract!Transfer(g, i, x, j, op[g].cases[i].c)
      BY <2>4, <3>2
    <3>3. CASE \/ Abstract!Send(g, i, op[g].cases[i].c)
               \/ Abstract!Receive(g, i, op[g].cases[i].c)
               \/ \E dir \in {"send", "recv"} : Abstract!Ended(g, i, dir, op[g].cases[i].c)
               \/ Abstract!Close(g, i, op[g].cases[i].c)
      <4>1. o[g] = NoRes /\ \E r : o1 = [o EXCEPT ![g] = r]
        BY <1>1, <3>3 DEF o1, Abstract!Send, Abstract!Receive, Abstract!Ended, Abstract!Close,
           Abstract!Effect, Abstract!Waits
      <4> QED BY <1>6, <4>1 DEF o1
    <3> QED BY <3>1, <3>2, <3>3, Zenon
  <2> QED BY <2>2, <2>5
<1>11. o1[h] # NoRes
  BY <1>2, <1>3, <1>10
<1> QED BY <1>2, <1>11

\* A step in which nobody parks: whoever waits does so until it is met.
LEMMA WaitingKept ==
    ASSUME IInv, IInv', Abstract!Step \/ UNCHANGED Abstract!state,
           \A h \in Goroutine : pc'[h] = "parked" => pc[h] = "parked",
           \A h \in Goroutine : pc[h] = "parked" /\ OutcomeOf(h) = NoRes => pc'[h] = "parked"
    PROVE  Waiting' = {h \in Waiting : OutcomeOf(h)' = NoRes}
<1>1. ASSUME NEW h \in Goroutine, pc'[h] = "parked", OutcomeOf(h)' = NoRes
      PROVE  OutcomeOf(h) = NoRes
  <2>1. op'[h] # NoOp
    BY <1>1 DEF IInv, ControlInv, ControlOf
  <2> QED BY <1>1, <2>1, OutcomeStays
<1> QED BY <1>1 DEF Waiting

\* g parks.
LEMMA ParkSim ==
    ASSUME IInv, NEW g \in Goroutine, Abstract!Stuck(g), op[g].block, UNCHANGED Abstract!state,
           pc[g] \in {"lock", "pass2"}, pc' = [pc EXCEPT ![g] = "parked"]
    PROVE  Abstract!Wait(g)
<1>1. \A h \in Goroutine : OutcomeOf(h)' = OutcomeOf(h)
  BY DEF Abstract!state
<1>2. OutcomeOf(g) = NoRes
  BY DEF OutcomeOf
<1>3. pc'[g] = "parked" /\ \A h \in Goroutine : h # g => pc'[h] = pc[h]
  BY DEF IInv, TypeOK
<1>4. Waiting' = Waiting \cup {g}
  BY <1>1, <1>2, <1>3 DEF Waiting
<1>5. Abstract!Pending = NoRes
  BY DEF Abstract!Pending, Abstract!Result, NoRes, Res
<1> QED BY <1>2, <1>4, <1>5 DEF Abstract!Wait

\* Who waits after a step.
LEMMA WaitSim ==
    ASSUME IInv, IInv', Next, Abstract!Step \/ UNCHANGED Abstract!state
    PROVE  Waiting' = {h \in Waiting : OutcomeOf(h)' = NoRes} \/ \E g \in Goroutine : Abstract!Wait(g)
<1>0. PICK g \in Goroutine :
         \/ \E o \in Program[g] : Call(g, o)
         \/ Locking(g) \/ Running(g) \/ ParkCommit(g)
  BY DEF Next
<1>1. CASE ChanOp(g) /\ NoneReady(g) /\ Park(g)
  <2>1. /\ pc[g] = "lock" /\ op[g].block /\ pc' = [pc EXCEPT ![g] = "parked"]
        /\ param' = [param EXCEPT ![g] = 0] /\ op' = op
        /\ UNCHANGED chanvars /\ UNCHANGED <<success, wake, elem, ret>>
    BY <1>1 DEF ChanOp, Park, Goto, chanvars
  <2>2. op[g] # NoOp
    BY <2>1 DEF IInv, ControlInv, ControlOf
  <2>3. \A h \in Goroutine : h # g => param'[h] = param[h]
    BY <2>1 DEF IInv, TypeOK
  <2>4. UNCHANGED Abstract!state
    BY <2>1, <2>3, BlockSim
  <2> QED BY <1>1, <2>1, <2>2, <2>4, NotReadyStuck, ParkSim
<1>2. CASE SelectPass2(g) /\ pc' = [pc EXCEPT ![g] = "parked"]
  <2>1. pc[g] = "pass2"
    BY <1>2 DEF SelectPass2
  <2>2. op[g].block
    BY <2>1 DEF IInv, ControlInv, ControlOf
  <2>3. UNCHANGED Abstract!state
    BY <1>2, QuietSteps
  <2> QED BY <1>2, <2>1, <2>2, <2>3, Pass2Stuck, ParkSim
<1>3. CASE Goready(g)
  <2>1. PICK e : e = Head(wake[g])
    OBVIOUS
  <2>2. /\ pc[g] = "ready"
        /\ pc' = [pc EXCEPT ![e.g] = IF pc[e.g] = "parked" THEN "awake" ELSE "throw",
                            ![g] = IF Len(wake[g]) = 1 THEN "return" ELSE "ready"]
    BY <1>3, <2>1 DEF Goready
  <2>3. wake[g] # <<>> /\ wake[g] \in Seq(WakeType)
    BY <2>2 DEF IInv, ControlInv, ControlOf, TypeOK, WakeType
  <2>4. e \in Wakes(g) /\ e.g \in Goroutine
    <3>1. e = wake[g][1] /\ 1 \in DOMAIN wake[g]
      BY <2>1, <2>3
    <3>2. e \in Wakes(g)
      BY <3>1 DEF Wakes, Members
    <3>3. e \in WakeType
      BY <2>3, <3>2, MembersIn DEF Wakes
    <3> QED BY <3>2, <3>3 DEF WakeType
  <2>5. OutcomeOf(e.g) # NoRes
    <3>1. pc[e.g] = "parked" /\ HasWake(e.g)
      BY <2>4 DEF IInv, WakeInv, OneWake, HasWake
    <3>2. OutcomeFacts(e.g)
      BY OutcomeIs
    <3>3. PICK w \in Goroutine : \E f \in Wakes(w) : OutcomeOf(e.g) = Res(f.casi, elem[e.g], f.ok)
      BY <3>1, <3>2 DEF OutcomeFacts
    <3>4. PICK f \in Wakes(w) : OutcomeOf(e.g) = Res(f.casi, elem[e.g], f.ok)
      BY <3>3
    <3>5. f.casi \in Nat
      <4>1. wake[w] \in Seq(WakeType)
        BY DEF IInv, TypeOK, WakeType
      <4>2. f \in WakeType
        BY <4>1, MembersIn DEF Wakes
      <4> QED BY <4>2 DEF WakeType
    <3> QED BY <3>4, <3>5 DEF Res, NoRes
  <2>6. pc \in [Goroutine -> Label]
    BY DEF IInv, TypeOK
  <2>7. \A h \in Goroutine : /\ pc'[h] = "parked" => pc[h] = "parked"
                             /\ pc[h] = "parked" /\ OutcomeOf(h) = NoRes => pc'[h] = "parked"
    BY <2>2, <2>4, <2>5, <2>6
  <2> QED BY <2>7, WaitingKept
<1>4. ASSUME pc[g] # "parked" \/ pc' = pc, pc'[g] # "parked" \/ pc' = pc,
             pc' = pc \/ \E l : pc' = [pc EXCEPT ![g] = l]
      PROVE  Waiting' = {h \in Waiting : OutcomeOf(h)' = NoRes}
  <2>1. pc \in [Goroutine -> Label]
    BY DEF IInv, TypeOK
  <2>2. \A h \in Goroutine : h # g => pc'[h] = pc[h]
    BY <1>4, <2>1
  <2>3. \A h \in Goroutine : pc'[h] = "parked" <=> pc[h] = "parked"
    BY <1>4, <2>2
  <2> QED BY <2>3, WaitingKept
<1>5. CASE (\E o \in Program[g] : Call(g, o)) \/ CloseLock(g) \/ SelLock(g)
  <2>1. pc \in [Goroutine -> Label]
    BY DEF IInv, TypeOK
  <2> QED BY <1>4, <1>5, <2>1 DEF Call, CloseLock, SelLock, Goto
<1>6. CASE ChanOp(g) /\ ~(NoneReady(g) /\ Park(g))
  <2>1. pc \in [Goroutine -> Label] /\ pc[g] = "lock"
    BY <1>6 DEF IInv, TypeOK, ChanOp
  <2>2. Proceed(g, 1, {}) \/ GiveUp(g)
    BY <1>6 DEF ChanOp
  <2>3. \E l \in {"ready", "return"} : pc' = [pc EXCEPT ![g] = l]
    BY <2>2 DEF Proceed, GiveUp, send, recv, bufsend, bufrecv, onclosed, Goto
  <2> QED BY <1>4, <2>1, <2>3
<1>7. CASE SelectPass1(g)
  <2>1. pc \in [Goroutine -> Label] /\ pc[g] = "pass1"
    BY <1>7 DEF IInv, TypeOK, SelectPass1
  <2>2. (\E i, P : Proceed(g, i, P)) \/ GiveUp(g) \/ Goto(g, "pass2")
    BY <1>7 DEF SelectPass1
  <2>3. \E l \in {"ready", "return", "pass2"} : pc' = [pc EXCEPT ![g] = l]
    BY <2>2 DEF Proceed, GiveUp, send, recv, bufsend, bufrecv, onclosed, Goto
  <2> QED BY <1>4, <2>1, <2>3
<1>8. CASE SelectPass2(g) /\ pc' = pc
  BY <1>4, <1>8
<1>9. CASE FastSend(g) \/ FastRecv(g)
  <2>1. pc \in [Goroutine -> Label] /\ pc[g] # "parked"
    BY <1>9 DEF IInv, TypeOK, FastSend, FastRecv
  <2>2. \E l \in {"full", "lock", "return", "open", "again"} : pc' = [pc EXCEPT ![g] = l]
    BY <1>9 DEF FastSend, FastRecv, Test, Goto
  <2> QED BY <1>4, <2>1, <2>2
<1>10. CASE Awake(g) \/ CloseRelease(g) \/ SelectAwake(g) \/ SelectPass3(g) \/ Return(g) \/ ParkCommit(g)
  <2>1. pc \in [Goroutine -> Label]
    BY DEF IInv, TypeOK
  <2>2. pc' = pc \/ (pc[g] # "parked" /\ \E l \in {"throw", "return", "ready", "relock", "idle"} : pc' = [pc EXCEPT ![g] = l])
    BY <1>10 DEF Awake, CloseRelease, CloseEnds, Release, SelectAwake, SelectPass3, Return, ParkCommit, Goto
  <2> QED BY <1>4, <2>1, <2>2
<1>11. SelectPass2(g) => pc' = pc \/ pc' = [pc EXCEPT ![g] = "parked"]
  BY DEF SelectPass2, Goto
<1> QED BY <1>0, <1>1, <1>2, <1>3, <1>5, <1>6, <1>7, <1>8, <1>9, <1>10, <1>11 DEF Locking, Running

\* Every step of Chan is one of Channel, or nothing to it.
LEMMA NextSim ==
    ASSUME IInv, IInv', BlockedStuck', [Next]_vars
    PROVE  [Abstract!Next]_(Abstract!vars)
<1>1. CASE UNCHANGED vars
  <2>1. UNCHANGED chanvars /\ UNCHANGED <<op, pc, ret, param, elem, success, wake, missed, opened>>
    BY <1>1 DEF vars, chanvars
  <2>2. \A h : Keeps(h) /\ WakesKept(h)
    BY <2>1 DEF Keeps, WakesKept, Wakes
  <2>3. NobodyLearns
    BY <2>2, OutcomeKept DEF NobodyLearns
  <2>4. UNCHANGED Abstract!state
    BY <2>1, <2>3, QueuesKept, AbsStutter
  <2>5. Waiting' = Waiting
    BY <2>1, <2>3 DEF Waiting, NobodyLearns
  <2> QED BY <2>1, <2>4, <2>5 DEF Abstract!vars, Abstract!state
<1>2. CASE Next
  <2>1. Abstract!Step \/ UNCHANGED Abstract!state
    BY StepSim
  <2>2. Observe
    BY <1>2 DEF Next, Locking, Running, Call, ChanOp, CloseLock, SelLock, FastSend, FastRecv, Test,
       Goready, Awake, CloseRelease, SelectPass1, SelectPass2, SelectAwake, SelectPass3, Return, ParkCommit
  <2>3. Abstract!Witness
    BY <2>2, ObserveSim
  <2>4. Abstract!Pending = NoRes
    BY DEF Abstract!Pending, Abstract!Result, NoRes, Res
  <2>6. CASE Waiting' = {h \in Waiting : OutcomeOf(h)' = NoRes}
    BY <2>1, <2>3, <2>4, <2>6 DEF Abstract!Next, Waiting
  <2>7. CASE \E g \in Goroutine : Abstract!Wait(g)
    BY <2>3, <2>7 DEF Abstract!Next
  <2> QED BY <1>2, <2>1, <2>6, <2>7, WaitSim
<1> QED BY <1>1, <1>2

\* Channels that were just made are empty and open, and nobody calls.
LEMMA InitSim ==
    ASSUME Init
    PROVE  Abstract!Init
<1>1. \A c \in ChanAddr : Contents(c) = <<>>
  BY DEF Init, Contents
<1>2. \A g \in Goroutine : OutcomeOf(g) = NoRes
  BY DEF Init, OutcomeOf
<1>3. [c \in ChanAddr |-> Contents(c)] = [c \in ChanAddr |-> <<>>]
  BY <1>1
<1>4. [g \in Goroutine |-> OutcomeOf(g)] = [g \in Goroutine |-> Abstract!Pending]
  BY <1>2 DEF Abstract!Pending, Abstract!Result, NoRes, Res
<1>5. [c \in ChanAddr |-> closed[c] = 1] = [c \in ChanAddr |-> FALSE]
  <2>1. \A c \in ChanAddr : closed[c] # 1
    BY DEF Init
  <2>2. \A c \in ChanAddr : (closed[c] = 1) = FALSE
    BY <2>1, Zenon
  <2> QED BY <2>2, Zenon
<1>6. op = [g \in Goroutine |-> NoOp]
  BY DEF Init
<1>7. /\ Waiting = {} /\ {g \in Goroutine : missed[g]} = {} /\ {g \in Goroutine : opened[g]} = {}
  BY DEF Init, Waiting
<1> QED BY <1>3, <1>4, <1>5, <1>6, <1>7 DEF Abstract!Init

\* chan.go and select.go implement the channel of module Channel, for any number
\* of goroutines, channels, capacities and cases: values leave in the order in
\* which they came, none is lost or delivered twice, a select takes one case, a
\* closed channel ends only once it is drained, a call begins to wait only if none
\* of its cases can proceed, and a default is taken only by a call that was stuck at
\* some moment or by a send whose channel was closed after it began.
THEOREM ChanIsChannel == Spec => ImplementsChannel
<1>1. Init => Abstract!Init
  BY InitSim
<1>2. IInv /\ IInv' /\ BlockedStuck' /\ [Next]_vars => [Abstract!Next]_(Abstract!vars)
  BY NextSim
<1> QED BY <1>1, <1>2, BlockedIsStuck, InvHolds, PTL DEF Spec, ImplementsChannel, Abstract!Spec

=============================================================================
