----------------------------- MODULE MutexProofs -----------------------------
(***************************************************************************)
(* MutexInv is an inductive invariant of Mutex, for every set of goroutines *)
(* and every bound on active spinning.  Mutual exclusion, the absence of    *)
(* the two throws and the uniqueness of the wakeup follow from it, and with *)
(* it that no waiter is stranded and that Mutex implements Locker.          *)
(*                                                                         *)
(* None of the three is inductive alone.  The lock bit is given away in     *)
(* starvation mode without a compare-and-swap (Grab), so exclusion needs    *)
(* that only one goroutine can be there: that is SingleWakeup, which needs  *)
(* the mode of the word (StarvationInv), what a goroutine remembers of it   *)
(* (LocalInv) and that the queue holds sleepers only (QueueInv).  That the  *)
(* waiter count is exact is proved last, for finitely many goroutines.      *)
(***************************************************************************)
EXTENDS Mutex, FiniteSetTheorems, TLAPS

-----------------------------------------------------------------------------
(* How a count changes when one element joins or leaves *)

\* A part of a finite set has a number of elements, zero only if it is empty.
LEMMA CountNat ==
    ASSUME NEW G, IsFiniteSet(G), NEW S \in SUBSET G
    PROVE  IsFiniteSet(S) /\ Cardinality(S) \in Nat /\ (Cardinality(S) = 0 <=> S = {})
  BY FS_Subset, FS_CardinalityType, FS_EmptySet

\* One element joins.
LEMMA CountJoin ==
    ASSUME NEW S, IsFiniteSet(S), NEW x, x \notin S, NEW T, T = S \cup {x}
    PROVE  IsFiniteSet(T) /\ Cardinality(T) = Cardinality(S) + 1
  BY FS_AddElement

\* One element leaves.
LEMMA CountLeave ==
    ASSUME NEW S, IsFiniteSet(S), NEW x, x \in S, NEW T, T = S \ {x}
    PROVE  IsFiniteSet(T) /\ Cardinality(T) = Cardinality(S) - 1
  BY FS_RemoveElement

\* One element may join or leave.
LEMMA CountStep ==
    ASSUME NEW S, IsFiniteSet(S), NEW x, NEW T, T \ {x} = S \ {x}
    PROVE  /\ IsFiniteSet(T) /\ Cardinality(S) \in Nat /\ Cardinality(T) \in Nat
           /\ Cardinality(T) + (IF x \in S THEN 1 ELSE 0)
                = Cardinality(S) + (IF x \in T THEN 1 ELSE 0)
<1>1. Cardinality(S) \in Nat
  BY FS_CardinalityType
<1>2. CASE x \in T /\ x \notin S
  <2>1. T = S \cup {x}
    BY <1>2
  <2> QED BY <1>1, <1>2, <2>1, CountJoin
<1>3. CASE x \notin T /\ x \in S
  <2>1. T = S \ {x}
    BY <1>3
  <2>2. IsFiniteSet(T) /\ Cardinality(T) = Cardinality(S) - 1
    BY <1>3, <2>1, CountLeave
  <2>3. Cardinality(T) \in Nat
    BY <2>2, FS_CardinalityType
  <2> QED BY <1>1, <1>3, <2>2, <2>3
<1>4. CASE x \in T <=> x \in S
  <2>1. T = S
    BY <1>4
  <2> QED BY <1>1, <1>4, <2>1
<1> QED BY <1>2, <1>3, <1>4

-----------------------------------------------------------------------------
(* Queues that gain or lose an entry *)

\* The members of a queue.
Members(q) == {q[i] : i \in DOMAIN q}

\* Nobody is in the queue twice.
Distinct(q) == \A i, j \in DOMAIN q : q[i] = q[j] => i = j

\* A newcomer at the end.
LEMMA AppendAdds ==
    ASSUME NEW S, NEW q \in Seq(S), NEW x \in S, x \notin Members(q), Distinct(q)
    PROVE  /\ Append(q, x) \in Seq(S) /\ Append(q, x) # <<>>
           /\ Members(Append(q, x)) = Members(q) \cup {x}
           /\ Distinct(Append(q, x))
<1> DEFINE r == Append(q, x)
<1>1. /\ r \in Seq(S) /\ r # <<>> /\ Len(q) \in Nat /\ DOMAIN q = 1..Len(q)
      /\ DOMAIN r = 1..(Len(q) + 1) /\ r[Len(q) + 1] = x
      /\ \A i \in 1..Len(q) : r[i] = q[i]
  OBVIOUS
<1>2. \A i \in 1..(Len(q) + 1) : i \in 1..Len(q) \/ i = Len(q) + 1
  BY <1>1
<1>3. \A i \in 1..Len(q) : i \in DOMAIN r
  BY <1>1
<1>4. Len(q) + 1 \in DOMAIN r
  BY <1>1
<1> HIDE DEF r
<1>5. Members(r) = Members(q) \cup {x}
  BY <1>1, <1>2, <1>3, <1>4 DEF Members
<1>6. Distinct(r)
  BY <1>1, <1>2 DEF Distinct, Members
<1> QED BY <1>1, <1>5, <1>6 DEF r

\* A newcomer at the head.
LEMMA PrependAdds ==
    ASSUME NEW S, NEW q \in Seq(S), NEW x \in S, x \notin Members(q), Distinct(q)
    PROVE  /\ <<x>> \o q \in Seq(S) /\ <<x>> \o q # <<>>
           /\ Members(<<x>> \o q) = Members(q) \cup {x}
           /\ Distinct(<<x>> \o q)
<1> DEFINE r == <<x>> \o q
<1>1. /\ r \in Seq(S) /\ r # <<>> /\ Len(q) \in Nat /\ DOMAIN q = 1..Len(q)
      /\ DOMAIN r = 1..(Len(q) + 1) /\ r[1] = x
  OBVIOUS
<1>2. \A i \in 2..(Len(q) + 1) : r[i] = q[i - 1]
  OBVIOUS
<1> HIDE DEF r
<1>3. \A i \in DOMAIN r : i = 1 \/ (i \in 2..(Len(q) + 1) /\ i - 1 \in DOMAIN q)
  BY <1>1
<1>4. \A i \in DOMAIN q : i + 1 \in DOMAIN r /\ i + 1 \in 2..(Len(q) + 1) /\ (i + 1) - 1 = i
  BY <1>1
<1>5. Members(r) = Members(q) \cup {x}
  <2>1. \A y : y \in Members(r) => y \in Members(q) \cup {x}
    BY <1>1, <1>2, <1>3 DEF Members
  <2>2. \A i \in DOMAIN q : r[i + 1] = q[i]
    BY <1>2, <1>4
  <2>3. x \in Members(r)
    BY <1>1 DEF Members
  <2>4. \A y \in Members(q) : y \in Members(r)
    BY <1>4, <2>2 DEF Members
  <2> QED BY <2>1, <2>3, <2>4
<1>6. Distinct(r)
  <2> SUFFICES ASSUME NEW i \in DOMAIN r, NEW j \in DOMAIN r, r[i] = r[j]
               PROVE  i = j
    BY DEF Distinct
  <2>1. \A k \in 2..(Len(q) + 1) : k - 1 \in DOMAIN q => r[k] # x
    BY <1>2 DEF Members
  <2>2. CASE i = 1 \/ j = 1
    BY <1>1, <1>3, <2>1, <2>2
  <2>3. CASE i # 1 /\ j # 1
    <3>1. i - 1 \in DOMAIN q /\ j - 1 \in DOMAIN q /\ q[i - 1] = q[j - 1]
      BY <1>2, <1>3, <2>3
    <3>2. i - 1 = j - 1
      BY <3>1 DEF Distinct
    <3> QED BY <1>1, <3>2
  <2> QED BY <2>2, <2>3
<1> QED BY <1>1, <1>5, <1>6 DEF r

-----------------------------------------------------------------------------
(* The word *)

\* The fields of a word built by MkWord.
LEMMA WordFields ==
    ASSUME NEW l, NEW w, NEW st, NEW n
    PROVE  /\ MkWord(l, w, st, n).locked = l
           /\ MkWord(l, w, st, n).woken = w
           /\ MkWord(l, w, st, n).starving = st
           /\ MkWord(l, w, st, n).waiters = n
  BY DEF MkWord

\* Three bits and a count make a word.
LEMMA WordType ==
    ASSUME NEW l \in 0..1, NEW w \in 0..1, NEW st \in 0..1, NEW n \in Nat
    PROVE  MkWord(l, w, st, n) \in Word
  BY DEF MkWord, Word

\* A word is three bits and a count.
LEMMA WordRange ==
    ASSUME NEW w \in Word
    PROVE  w.locked \in 0..1 /\ w.woken \in 0..1 /\ w.starving \in 0..1 /\ w.waiters \in Nat
  BY DEF Word

\* Zero is a word.
LEMMA ZeroWord == Zero \in Word
  BY WordType DEF Zero

\* Leaving a function keeps the locals in their types.
LEMMA LeaveType ==
    ASSUME TypeOK, NEW g \in Goroutine, NEW l \in PC, Leave(g, l)
    PROVE  /\ pc' \in [Goroutine -> PC] /\ old' \in [Goroutine -> Word]
           /\ awoke' \in [Goroutine -> BOOLEAN] /\ starving' \in [Goroutine -> BOOLEAN]
           /\ iter' \in [Goroutine -> 0..ActiveSpin] /\ waited' \in [Goroutine -> BOOLEAN]
           /\ queueLifo' \in [Goroutine -> BOOLEAN]
  BY ZeroWord, MutexAssumption DEF TypeOK, Leave, Goto

-----------------------------------------------------------------------------
(* The queue *)

\* Queueing at either end adds one sleeper and keeps the entries distinct.
LEMMA EnqueueAdds ==
    ASSUME NEW q \in Seq(Goroutine), NEW g \in Goroutine, g \notin Members(q), Distinct(q),
           NEW lifo \in BOOLEAN
    PROVE  /\ Enqueue(q, g, lifo) \in Seq(Goroutine)
           /\ Members(Enqueue(q, g, lifo)) = Members(q) \cup {g}
           /\ Distinct(Enqueue(q, g, lifo))
<1>1. CASE lifo
  BY <1>1, PrependAdds DEF Enqueue
<1>2. CASE ~lifo
  BY <1>2, AppendAdds DEF Enqueue
<1> QED BY <1>1, <1>2

-----------------------------------------------------------------------------
(* How a step can treat the wakeup that is under way *)

\* The wakeup stays where it is.
LEMMA WakeupStays ==
    ASSUME SingleWakeup, \A x \in Goroutine : Carries(x)' <=> Carries(x),
           sema'[mSema] = sema[mSema], WakeupAnnounced' <=> WakeupAnnounced
    PROVE  SingleWakeup'
  BY DEF SingleWakeup, WakeupUnderWay, mSema

\* Its only carrier g lays it down: it took the mutex or went back to sleep.
LEMMA WakeupEnds ==
    ASSUME SingleWakeup, sema \in [{mSema} -> Nat], NEW g \in Goroutine, Carries(g),
           \A x \in Goroutine : Carries(x)' <=> (Carries(x) /\ x # g),
           sema'[mSema] = sema[mSema], ~WakeupAnnounced'
    PROVE  SingleWakeup'
<1>1. sema[mSema] = 0
  BY DEF SingleWakeup, mSema
<1>2. \A x \in Goroutine : ~Carries(x)'
  BY DEF SingleWakeup
<1> QED BY <1>1, <1>2 DEF SingleWakeup, WakeupUnderWay, mSema

\* There was none, and g starts one.
LEMMA WakeupBegins ==
    ASSUME SingleWakeup, sema \in [{mSema} -> Nat], ~WakeupAnnounced, NEW g \in Goroutine,
           \A x \in Goroutine : Carries(x)' <=> (Carries(x) \/ x = g),
           sema'[mSema] = sema[mSema], WakeupAnnounced'
    PROVE  SingleWakeup'
<1>1. sema[mSema] = 0 /\ \A x \in Goroutine : ~Carries(x)
  BY DEF SingleWakeup, WakeupUnderWay, mSema
<1> QED BY <1>1 DEF SingleWakeup, WakeupUnderWay, mSema

-----------------------------------------------------------------------------
(* One lemma per action: it preserves MutexInv. *)

\* Lock's fast path and its entry into lockSlow.
LEMMA LockKeeps ==
    ASSUME MutexInv, NEW g \in Goroutine, Lock(g)  PROVE MutexInv'
<1> USE MutexAssumption DEF MutexInv, sem, locals, mSema
<1>1. CASE m = Zero /\ m' = MkWord(1, m.woken, m.starving, m.waiters) /\ Goto(g, "cs")
  <2>1. /\ m.locked = 0 /\ m.woken = 0 /\ m.starving = 0 /\ m.waiters = 0
        /\ m'.locked = 1 /\ m'.woken = 0 /\ m'.starving = 0 /\ m'.waiters = 0 /\ m' \in Word
    BY <1>1, WordFields, WordType DEF Zero
  <2>2. TypeOK' BY <1>1, <2>1 DEF Lock, Goto, TypeOK, PC, SemaTypeOK
  <2>3. NoThrow' BY <1>1 DEF Lock, Goto, NoThrow, TypeOK
  <2>4. OwnerInv' BY <1>1, <2>1 DEF Lock, Goto, OwnerInv, MutualExclusion, TypeOK
  <2>5. \A x \in Goroutine : Carries(x)' <=> Carries(x)
    BY <1>1 DEF Lock, Goto, Carries, TypeOK, QueueInv
  <2>6. SingleWakeup' BY <2>1, <2>5, WakeupStays DEF Lock, WakeupAnnounced
  <2>7. StarvationInv' BY <1>1, <2>1 DEF Lock, Goto, StarvationInv, TypeOK
  <2>8. LocalInv' /\ QueueInv' BY <1>1 DEF Lock, Goto, LocalInv, QueueInv, TypeOK
  <2> QED BY <2>2, <2>3, <2>4, <2>6, <2>7, <2>8
<1>2. CASE m # Zero /\ Goto(g, "load") /\ UNCHANGED m
  <2>1. TypeOK' BY <1>2 DEF Lock, Goto, TypeOK, PC, SemaTypeOK
  <2>2. NoThrow' BY <1>2 DEF Lock, Goto, NoThrow, TypeOK
  <2>3. OwnerInv' BY <1>2 DEF Lock, Goto, OwnerInv, MutualExclusion, TypeOK
  <2>4. \A x \in Goroutine : Carries(x)' <=> Carries(x)
    BY <1>2 DEF Lock, Goto, Carries, TypeOK, LocalInv
  <2>5. SingleWakeup' BY <1>2, <2>4, WakeupStays DEF Lock, WakeupAnnounced
  <2>6. StarvationInv' BY <1>2 DEF Lock, Goto, StarvationInv, LocalInv, TypeOK
  <2>7. LocalInv' /\ QueueInv' BY <1>2 DEF Lock, Goto, LocalInv, QueueInv, TypeOK
  <2> QED BY <2>1, <2>2, <2>3, <2>5, <2>6, <2>7
<1> QED BY <1>1, <1>2 DEF Lock

\* lockSlow rereads the word.
LEMMA LoadKeeps ==
    ASSUME MutexInv, NEW g \in Goroutine, Load(g)  PROVE MutexInv'
<1> USE MutexAssumption DEF MutexInv, sem, locals, mSema, Load, Goto, TypeOK
<1>1. TypeOK' BY DEF PC, SemaTypeOK
<1>2. NoThrow' BY DEF NoThrow
<1>3. OwnerInv' BY DEF OwnerInv, MutualExclusion
<1>4. \A x \in Goroutine : Carries(x)' <=> Carries(x) BY DEF Carries
<1>5. SingleWakeup' BY <1>4, WakeupStays DEF WakeupAnnounced
<1>6. StarvationInv' BY DEF StarvationInv
<1>7. m.woken = 1 \/ ~awoke[g]
  BY DEF StarvationInv, SingleWakeup, WakeupAnnounced, WakeupUnderWay, Carries
<1>8. LocalInv' BY <1>7 DEF LocalInv
<1>9. QueueInv' BY DEF QueueInv
<1> QED BY <1>1, <1>2, <1>3, <1>5, <1>6, <1>8, <1>9

\* A spinner: it may raise mutexWoken, and then it is the one to be woken.
LEMMA SpinKeeps ==
    ASSUME MutexInv, NEW g \in Goroutine, Spin(g)  PROVE MutexInv'
<1> USE MutexAssumption DEF MutexInv, sem, locals, mSema
<1>1. /\ m.locked \in 0..1 /\ m.woken \in 0..1 /\ m.starving \in 0..1 /\ m.waiters \in Nat
  BY WordRange DEF TypeOK
<1>2. TypeOK'
  <2>1. m' \in Word BY <1>1, WordType DEF Spin, TypeOK
  <2>2. iter' \in [Goroutine -> 0..ActiveSpin] BY DEF Spin, TypeOK
  <2>3. awoke' \in [Goroutine -> BOOLEAN] BY DEF Spin, TypeOK
  <2> QED BY <2>1, <2>2, <2>3 DEF Spin, Goto, TypeOK, SemaTypeOK, PC
<1>3. NoThrow' BY DEF Spin, Goto, NoThrow, TypeOK
<1>4. m'.locked = m.locked /\ m'.starving = m.starving /\ m'.waiters = m.waiters
  BY WordFields DEF Spin
<1>5. OwnerInv' BY <1>4 DEF Spin, Goto, OwnerInv, MutualExclusion, TypeOK
<1>6. CASE ~MarksWoken(g) /\ UNCHANGED <<m, awoke>>
  <2>1. \A x \in Goroutine : Carries(x)' <=> Carries(x) BY <1>6 DEF Spin, Goto, Carries, TypeOK
  <2>2. SingleWakeup' BY <1>6, <2>1, WakeupStays DEF Spin, WakeupAnnounced
  <2>3. StarvationInv' BY <1>6 DEF Spin, Goto, StarvationInv, TypeOK
  <2>4. LocalInv' /\ QueueInv' BY <1>6 DEF Spin, Goto, LocalInv, QueueInv, TypeOK
  <2> QED BY <1>2, <1>3, <1>5, <2>2, <2>3, <2>4
<1>7. CASE /\ MarksWoken(g)
           /\ m' = MkWord(m.locked, 1, m.starving, m.waiters)
           /\ awoke' = [awoke EXCEPT ![g] = TRUE]
  <2>1. m = old[g] /\ m.starving = 0 /\ m.woken = 0 /\ m'.woken = 1
    BY <1>7, WordFields DEF Spin, MarksWoken
  <2>2. \A x \in Goroutine : Carries(x)' <=> (Carries(x) \/ x = g)
    BY <1>7 DEF Spin, Goto, Carries, TypeOK
  <2>3. SingleWakeup' BY <1>4, <2>1, <2>2, WakeupBegins DEF Spin, WakeupAnnounced, TypeOK, SemaTypeOK
  <2>4. StarvationInv' BY <1>4, <1>7, <2>1 DEF Spin, Goto, StarvationInv, TypeOK
  <2>5. LocalInv' /\ QueueInv' BY <1>7 DEF Spin, Goto, LocalInv, QueueInv, TypeOK
  <2> QED BY <1>2, <1>3, <1>5, <2>3, <2>4, <2>5
<1> QED BY <1>6, <1>7 DEF Spin

\* The compare-and-swap of lockSlow: take the mutex, queue up, or retry.
LEMMA CompareAndSwapKeeps ==
    ASSUME MutexInv, NEW g \in Goroutine, CompareAndSwap(g)  PROVE MutexInv'
<1> USE MutexAssumption DEF MutexInv, sem, locals, mSema
<1>1. /\ m.locked \in 0..1 /\ m.woken \in 0..1 /\ m.starving \in 0..1 /\ m.waiters \in Nat
  BY WordRange DEF TypeOK
<1>2. pc[g] = "try" /\ UNCHANGED <<handoff, s, sem>> /\ ~(awoke[g] /\ old[g].woken = 0)
  BY DEF CompareAndSwap, LocalInv, TypeOK
<1>3. Carries(g) <=> awoke[g] BY <1>2 DEF Carries, QueueInv
<1>4. CASE m # old[g] /\ Goto(g, "load") /\ UNCHANGED <<m, locals>>
  <2>1. TypeOK' BY <1>2, <1>4 DEF Goto, TypeOK, PC, SemaTypeOK
  <2>2. NoThrow' BY <1>4 DEF Goto, NoThrow, TypeOK
  <2>3. OwnerInv' BY <1>2, <1>4 DEF Goto, OwnerInv, MutualExclusion, TypeOK
  <2>4. \A x \in Goroutine : Carries(x)' <=> Carries(x) BY <1>2, <1>4 DEF Goto, Carries, TypeOK
  <2>5. SingleWakeup' BY <1>2, <1>4, <2>4, WakeupStays DEF WakeupAnnounced
  <2>6. StarvationInv' BY <1>2, <1>4 DEF Goto, StarvationInv, TypeOK
  <2>7. LocalInv' /\ QueueInv' BY <1>2, <1>4 DEF Goto, LocalInv, QueueInv, TypeOK
  <2> QED BY <2>1, <2>2, <2>3, <2>5, <2>6, <2>7
<1>5. CASE m = old[g] /\ m' = NewWord(g) /\ ~Held(old[g]) /\ Leave(g, "cs")
  <2>1. /\ m.locked = 0 /\ m.starving = 0 /\ m' \in Word
        /\ m'.locked = 1 /\ m'.starving = 0 /\ m'.woken = IF awoke[g] THEN 0 ELSE m.woken
    BY <1>1, <1>5, WordFields, WordType DEF NewWord, Held
  <2>2. TypeOK' BY <1>2, <1>5, <2>1, LeaveType DEF TypeOK, PC, SemaTypeOK
  <2>3. NoThrow' BY <1>5 DEF Leave, Goto, NoThrow, TypeOK
  <2>4. OwnerInv' BY <1>5, <2>1 DEF Leave, Goto, OwnerInv, MutualExclusion, TypeOK
  <2>5. \A x \in Goroutine : Carries(x)' <=> (Carries(x) /\ x # g)
    BY <1>2, <1>5 DEF Leave, Goto, Carries, TypeOK, QueueInv
  <2>6. SingleWakeup'
    <3>1. CASE awoke[g]
      BY <1>2, <1>3, <2>1, <2>5, <3>1, WakeupEnds DEF WakeupAnnounced, TypeOK, SemaTypeOK
    <3>2. CASE ~awoke[g]
      BY <1>2, <1>3, <2>1, <2>5, <3>2, WakeupStays DEF WakeupAnnounced
    <3> QED BY <3>1, <3>2
  <2>7. StarvationInv' BY <1>5, <2>1 DEF Leave, Goto, StarvationInv, TypeOK
  <2>8. LocalInv' /\ QueueInv' BY <1>2, <1>5 DEF Leave, Goto, LocalInv, QueueInv, TypeOK
  <2> QED BY <2>2, <2>3, <2>4, <2>6, <2>7, <2>8
<1>6. CASE /\ m = old[g] /\ m' = NewWord(g) /\ Held(old[g])
           /\ queueLifo' = [queueLifo EXCEPT ![g] = waited[g]]
           /\ waited' = [waited EXCEPT ![g] = TRUE]
           /\ Goto(g, "sleep") /\ UNCHANGED <<old, awoke, starving, iter>>
  <2>1. /\ m' \in Word /\ m'.waiters = m.waiters + 1 /\ m'.locked = m.locked
        /\ m'.woken = (IF awoke[g] THEN 0 ELSE m.woken)
        /\ m'.starving = IF starving[g] /\ m.locked = 1 THEN 1 ELSE m.starving
    BY <1>1, <1>6, WordFields, WordType DEF NewWord, Held
  <2>2. TypeOK'
    <3>1. queueLifo' \in [Goroutine -> BOOLEAN] /\ waited' \in [Goroutine -> BOOLEAN]
      BY <1>6 DEF TypeOK
    <3> QED BY <1>2, <1>6, <2>1, <3>1 DEF Goto, TypeOK, PC, SemaTypeOK
  <2>3. NoThrow' BY <1>6 DEF Goto, NoThrow, TypeOK
  <2>4. OwnerInv' BY <1>2, <1>6, <2>1 DEF Goto, OwnerInv, MutualExclusion, TypeOK
  <2>5. \A x \in Goroutine : Carries(x)' <=> (Carries(x) /\ x # g)
    BY <1>2, <1>6 DEF Goto, Carries, TypeOK, QueueInv
  <2>6. CASE awoke[g]
    <3>1. m.starving = 0 /\ m.locked = 1
      BY <1>1, <1>2, <1>6, <2>6 DEF StarvationInv, Held
    <3>2. \A x \in Goroutine : ~Carries(x)' BY <1>3, <2>5, <2>6 DEF SingleWakeup
    <3>3. SingleWakeup'
      BY <1>2, <1>3, <2>1, <2>5, <2>6, <3>1, WakeupEnds DEF WakeupAnnounced, TypeOK, SemaTypeOK
    <3>4. StarvationInv' BY <1>1, <1>2, <1>6, <2>1, <2>6, <3>1, <3>2 DEF Goto, StarvationInv, TypeOK, Carries
    <3>5. LocalInv' /\ QueueInv' BY <1>2, <1>6 DEF Goto, LocalInv, QueueInv, TypeOK
    <3> QED BY <2>2, <2>3, <2>4, <3>3, <3>4, <3>5
  <2>7. CASE ~awoke[g]
    <3>1. ~starving[g] BY <1>2, <2>7 DEF LocalInv
    <3>2. SingleWakeup'
      BY <1>2, <1>3, <2>1, <2>5, <2>7, <3>1, WakeupStays DEF WakeupAnnounced
    <3>3. StarvationInv' BY <1>1, <1>2, <1>6, <2>1, <2>7, <3>1 DEF Goto, StarvationInv, TypeOK, Word
    <3>4. LocalInv' /\ QueueInv' BY <1>2, <1>6 DEF Goto, LocalInv, QueueInv, TypeOK
    <3> QED BY <2>2, <2>3, <2>4, <3>2, <3>3, <3>4
  <2> QED BY <2>6, <2>7
<1> QED BY <1>2, <1>4, <1>5, <1>6 DEF CompareAndSwap

\* runtime_SemacquireMutex: fall asleep, or return with a ticket or a unit.
LEMMA SleepKeeps ==
    ASSUME MutexInv, NEW g \in Goroutine, Sleep(g)  PROVE MutexInv'
<1> USE MutexAssumption DEF MutexInv, sem, locals, mSema
<1>1. pc[g] = "sleep" /\ UNCHANGED <<m, locals, handoff, s>> /\ (WakeupAnnounced' <=> WakeupAnnounced)
  BY DEF Sleep, WakeupAnnounced
<1>2. CASE SemSleep(g, mSema, queueLifo[g]) /\ UNCHANGED pc
  <2> DEFINE q == waitq[mSema]
             r == Enqueue(q, g, queueLifo[g])
  <2>1. q \in Seq(Goroutine) /\ queueLifo[g] \in BOOLEAN BY DEF TypeOK, SemaTypeOK
  <2>2. /\ sudog[g] = "none" /\ sema' = sema /\ sudog' = [sudog EXCEPT ![g] = "queued"]
        /\ waitq' = [waitq EXCEPT ![mSema] = r] /\ waitq'[mSema] = r
    BY <1>2 DEF SemSleep, TypeOK, SemaTypeOK
  <2>3. g \notin Members(q) BY <2>2 DEF QueueInv, Members
  <2>4. r \in Seq(Goroutine) /\ Members(r) = Members(q) \cup {g} /\ Distinct(r)
    BY <2>1, <2>3, EnqueueAdds DEF QueueInv, Distinct
  <2> HIDE DEF r
  <2>5. TypeOK' BY <1>1, <1>2, <2>2, <2>4 DEF TypeOK, PC, SemaTypeOK, SudogState
  <2>6. NoThrow' /\ OwnerInv' BY <1>1, <1>2 DEF NoThrow, OwnerInv, MutualExclusion
  <2>7. \A x \in Goroutine : Carries(x)' <=> Carries(x)
    BY <1>1, <1>2, <2>2 DEF Carries, TypeOK, SemaTypeOK
  <2>8. SingleWakeup' BY <1>1, <2>2, <2>7, WakeupStays
  <2>9. StarvationInv' /\ LocalInv' BY <1>1, <1>2 DEF StarvationInv, LocalInv
  <2>10. QueueInv'
    <3>0. \A x \in Members(q) : x \in Goroutine /\ sudog[x] = "queued"
      BY <2>1 DEF QueueInv, Members
    <3>1. \A x \in Members(r) : sudog'[x] = "queued"
      BY <2>2, <2>4, <3>0 DEF TypeOK, SemaTypeOK
    <3>2. \A x \in Goroutine : sudog'[x] # "none" => pc'[x] = "sleep"
      BY <1>1, <1>2, <2>2 DEF QueueInv, TypeOK, SemaTypeOK
    <3> QED BY <2>2, <2>4, <3>1, <3>2 DEF QueueInv, Members, Distinct
  <2> QED BY <2>5, <2>6, <2>8, <2>9, <2>10
<1>3. CASE SemAcquired(g, mSema) /\ Goto(g, "woke") /\ sudog[g] = "ticket"
  <2>1. UNCHANGED <<sema, waitq>> /\ sudog' = [sudog EXCEPT ![g] = "none"]
    BY <1>3 DEF SemAcquired
  <2>2. TypeOK' BY <1>1, <1>3, <2>1 DEF Goto, TypeOK, PC, SemaTypeOK, SudogState
  <2>3. NoThrow' BY <1>3 DEF Goto, NoThrow, TypeOK
  <2>4. OwnerInv' BY <1>1, <1>3 DEF Goto, OwnerInv, MutualExclusion, TypeOK
  <2>5. \A x \in Goroutine : Carries(x)' <=> Carries(x)
    BY <1>1, <1>3, <2>1 DEF Goto, Carries, TypeOK, SemaTypeOK
  <2>6. SingleWakeup' BY <1>1, <2>1, <2>5, WakeupStays
  <2>7. StarvationInv' /\ LocalInv' BY <1>1, <1>3 DEF Goto, StarvationInv, LocalInv, TypeOK
  <2>8. QueueInv' BY <1>1, <1>3, <2>1 DEF Goto, QueueInv, TypeOK, SemaTypeOK
  <2> QED BY <2>2, <2>3, <2>4, <2>6, <2>7, <2>8
<1>4. CASE SemAcquired(g, mSema) /\ Goto(g, "woke") /\ sudog[g] = "none" /\ cansemacquire(mSema)
  <2>1. /\ sema[mSema] = 1 /\ sema' = [sema EXCEPT ![mSema] = @ - 1] /\ sema'[mSema] = 0
        /\ waitq' = waitq /\ sudog' = [sudog EXCEPT ![g] = "none"]
    BY <1>4 DEF SemAcquired, cansemacquire, SingleWakeup, TypeOK, SemaTypeOK
  <2>2. sema' \in [{mSema} -> Nat] BY <2>1 DEF TypeOK, SemaTypeOK
  <2>3. TypeOK' BY <1>1, <1>4, <2>1, <2>2 DEF Goto, TypeOK, PC, SemaTypeOK, SudogState
  <2>4. NoThrow' BY <1>4 DEF Goto, NoThrow, TypeOK
  <2>5. OwnerInv' BY <1>1, <1>4 DEF Goto, OwnerInv, MutualExclusion, TypeOK
  <2>6. \A x \in Goroutine : ~Carries(x) BY <2>1 DEF SingleWakeup
  <2>7. \A x \in Goroutine : Carries(x)' <=> x = g
    BY <1>1, <1>4, <2>1, <2>6 DEF Goto, Carries, TypeOK, SemaTypeOK
  <2>8. SingleWakeup' BY <1>1, <2>1, <2>7 DEF SingleWakeup, WakeupUnderWay
  <2>9. StarvationInv' /\ LocalInv' BY <1>1, <1>4 DEF Goto, StarvationInv, LocalInv, TypeOK
  <2>10. QueueInv' BY <1>1, <1>4, <2>1 DEF Goto, QueueInv, TypeOK, SemaTypeOK
  <2> QED BY <2>3, <2>4, <2>5, <2>8, <2>9, <2>10
<1> QED BY <1>2, <1>3, <1>4 DEF Sleep, SemAcquired

\* A waiter that has just been woken.
LEMMA WokeKeeps ==
    ASSUME MutexInv, NEW g \in Goroutine, NEW late \in BOOLEAN, Woke(g, late)  PROVE MutexInv'
<1> USE MutexAssumption DEF MutexInv, sem, locals, mSema
<1>1. /\ m.locked \in 0..1 /\ m.woken \in 0..1 /\ m.starving \in 0..1 /\ m.waiters \in Nat
  BY WordRange DEF TypeOK
<1>2. Carries(g) /\ WakeupAnnounced BY DEF Woke, Carries, SingleWakeup, WakeupUnderWay
<1>3. ~(m.starving = 1 /\ (m.locked = 1 \/ m.woken = 1 \/ m.waiters = 0))
  BY <1>2, <1>1 DEF WakeupAnnounced, StarvationInv
<1>4. TypeOK'
  <2>1. starving' \in [Goroutine -> BOOLEAN] BY Zenon DEF Woke, TypeOK
  <2>2. awoke' \in [Goroutine -> BOOLEAN] BY DEF Woke, TypeOK
  <2>3. iter' \in [Goroutine -> 0..ActiveSpin] BY DEF Woke, TypeOK
  <2>4. pc' \in [Goroutine -> PC] BY DEF Woke, Goto, TypeOK, PC
  <2> QED BY <2>1, <2>2, <2>3, <2>4 DEF Woke, TypeOK, SemaTypeOK
<1>5. NoThrow' BY <1>3 DEF Woke, Goto, NoThrow, TypeOK
<1>6. OwnerInv' BY DEF Woke, Goto, OwnerInv, MutualExclusion, TypeOK
<1>7. \A x \in Goroutine : Carries(x)' <=> Carries(x)
  BY <1>2, <1>3 DEF Woke, Goto, Carries, TypeOK
<1>8. SingleWakeup' BY <1>7, WakeupStays DEF Woke, WakeupAnnounced
<1>9. StarvationInv' BY <1>1, <1>3 DEF Woke, Goto, StarvationInv, TypeOK
<1>10. LocalInv' BY <1>1, <1>2, <1>3 DEF Woke, Goto, LocalInv, TypeOK, WakeupAnnounced
<1>11. QueueInv' BY DEF Woke, Goto, QueueInv, TypeOK
<1> QED BY <1>4, <1>5, <1>6, <1>8, <1>9, <1>10, <1>11

\* The mutex handed off in starvation mode is taken by an addition.
LEMMA GrabKeeps ==
    ASSUME MutexInv, NEW g \in Goroutine, Grab(g)  PROVE MutexInv'
<1> USE MutexAssumption DEF MutexInv, sem, locals, mSema
<1>1. /\ m.starving = 1 /\ m.locked = 0 /\ m.woken = 0 /\ m.waiters \in Nat
      /\ old[g].waiters \in Nat /\ old[g].waiters >= 1 /\ m.waiters >= old[g].waiters
  BY WordRange DEF Grab, StarvationInv, SingleWakeup, WakeupAnnounced, WakeupUnderWay, Carries, TypeOK
<1>2. /\ m' \in Word /\ m'.locked = 1 /\ m'.woken = 0 /\ m'.waiters = m.waiters - 1
      /\ m'.starving = IF ExitsStarvation(g) THEN 0 ELSE 1
  BY <1>1, WordType, WordFields DEF Grab
<1>3. TypeOK' BY <1>2, LeaveType DEF Grab, TypeOK, PC, SemaTypeOK
<1>4. NoThrow' BY DEF Grab, Leave, Goto, NoThrow, TypeOK
<1>5. OwnerInv' BY <1>1, <1>2 DEF Grab, Leave, Goto, OwnerInv, MutualExclusion, TypeOK
<1>6. Carries(g) /\ \A x \in Goroutine : Carries(x)' <=> (Carries(x) /\ x # g)
  BY DEF Grab, Leave, Goto, Carries, TypeOK, QueueInv
<1>7. SingleWakeup' BY <1>2, <1>6, WakeupEnds DEF Grab, WakeupAnnounced, TypeOK, SemaTypeOK
<1>8. \A x \in Goroutine : ~Carries(x)' BY <1>6 DEF SingleWakeup
<1>9. StarvationInv'
  <2>1. m'.starving = 1 => m'.waiters >= 1 BY <1>1, <1>2 DEF ExitsStarvation
  <2> QED BY <1>2, <1>8, <2>1 DEF StarvationInv, Carries
<1>10. LocalInv' /\ QueueInv' BY DEF Grab, Leave, Goto, LocalInv, QueueInv, TypeOK
<1> QED BY <1>3, <1>4, <1>5, <1>7, <1>9, <1>10

\* TryLock gives up or remembers the word.
LEMMA TryLockLoadKeeps ==
    ASSUME MutexInv, NEW g \in Goroutine, TryLockLoad(g)  PROVE MutexInv'
<1> USE MutexAssumption DEF MutexInv, sem, locals, mSema, TryLockLoad, Goto, TypeOK
<1>1. TypeOK' BY DEF PC, SemaTypeOK
<1>2. NoThrow' BY DEF NoThrow
<1>3. OwnerInv' BY DEF OwnerInv, MutualExclusion
<1>4. \A x \in Goroutine : Carries(x)' <=> Carries(x) BY DEF Carries
<1>5. SingleWakeup' BY <1>4, WakeupStays DEF WakeupAnnounced
<1>6. StarvationInv' BY DEF StarvationInv
<1>7. LocalInv' /\ QueueInv' BY DEF LocalInv, QueueInv, Held
<1> QED BY <1>1, <1>2, <1>3, <1>5, <1>6, <1>7

\* TryLock's compare-and-swap.
LEMMA TryLockCASKeeps ==
    ASSUME MutexInv, NEW g \in Goroutine, TryLockCAS(g)  PROVE MutexInv'
<1> USE MutexAssumption DEF MutexInv, sem, locals, mSema
<1>1. \A x \in Goroutine : Carries(x)' <=> Carries(x)
  BY DEF TryLockCAS, Leave, Goto, Carries, TypeOK, QueueInv
<1>2. NoThrow' /\ LocalInv' /\ QueueInv'
  BY DEF TryLockCAS, Leave, Goto, NoThrow, LocalInv, QueueInv, TypeOK
<1>3. CASE m = old[g] /\ m' = MkWord(1, m.woken, m.starving, m.waiters) /\ Leave(g, "cs")
  <2>0. /\ m.locked = 0 /\ m.starving = 0 /\ m.woken \in 0..1 /\ m.waiters \in Nat
    BY <1>3, WordRange DEF TryLockCAS, LocalInv, Held, TypeOK
  <2>1. /\ m' \in Word /\ m'.locked = 1 /\ m'.starving = 0
        /\ m'.woken = m.woken /\ m'.waiters = m.waiters
    BY <1>3, <2>0, WordType, WordFields
  <2>2. TypeOK' BY <1>3, <2>0, <2>1, LeaveType DEF TryLockCAS, TypeOK, PC, SemaTypeOK
  <2>3. OwnerInv' BY <1>3, <2>0, <2>1 DEF Leave, Goto, OwnerInv, MutualExclusion, TypeOK
  <2>4. SingleWakeup' BY <1>1, <2>0, <2>1, WakeupStays DEF TryLockCAS, WakeupAnnounced
  <2>5. StarvationInv' BY <1>3, <2>0, <2>1 DEF Leave, Goto, StarvationInv, TypeOK
  <2> QED BY <1>2, <2>2, <2>3, <2>4, <2>5
<1>4. CASE m # old[g] /\ UNCHANGED m /\ Leave(g, "idle")
  <2>1. TypeOK' BY <1>4, LeaveType DEF TryLockCAS, TypeOK, PC, SemaTypeOK
  <2>2. OwnerInv' BY <1>4 DEF TryLockCAS, Leave, Goto, OwnerInv, MutualExclusion, TypeOK
  <2>3. SingleWakeup' BY <1>1, <1>4, WakeupStays DEF TryLockCAS, WakeupAnnounced
  <2>4. StarvationInv' BY <1>4 DEF Leave, Goto, StarvationInv, TypeOK
  <2> QED BY <1>2, <2>1, <2>2, <2>3, <2>4
<1> QED BY <1>3, <1>4 DEF TryLockCAS

\* Another goroutine becomes the one that will unlock.
LEMMA PassKeeps ==
    ASSUME MutexInv, NEW g \in Goroutine, NEW h \in Goroutine, Pass(g, h)  PROVE MutexInv'
<1> USE MutexAssumption DEF MutexInv, sem, locals, mSema, Pass, TypeOK
<1>1. TypeOK' BY DEF PC, SemaTypeOK
<1>2. NoThrow' BY DEF NoThrow
<1>3. OwnerInv' BY DEF OwnerInv, MutualExclusion
<1>4. \A x \in Goroutine : Carries(x)' <=> Carries(x) BY DEF Carries
<1>5. SingleWakeup' BY <1>4, WakeupStays DEF WakeupAnnounced
<1>6. StarvationInv' BY DEF StarvationInv
<1>7. LocalInv' /\ QueueInv' BY DEF LocalInv, QueueInv
<1> QED BY <1>1, <1>2, <1>3, <1>5, <1>6, <1>7

\* Unlock clears the lock bit; in starvation mode that starts the handoff.
LEMMA UnlockKeeps ==
    ASSUME MutexInv, NEW g \in Goroutine, Unlock(g)  PROVE MutexInv'
<1> USE MutexAssumption DEF MutexInv, sem, locals, mSema
<1>1. /\ pc[g] = "cs" /\ m.locked = 1 /\ m.woken \in 0..1 /\ m.starving \in 0..1
      /\ m.waiters \in Nat
  BY WordRange DEF Unlock, OwnerInv, TypeOK
<1>2. /\ m' \in Word /\ m'.locked = 0 /\ m'.woken = m.woken /\ m'.starving = m.starving
      /\ m'.waiters = m.waiters
  BY <1>1, WordType, WordFields DEF Unlock
<1>3. PICK l \in {"idle", "unlock", "release"} : Goto(g, l) BY DEF Unlock
<1>4. UNCHANGED <<awoke, starving, iter, waited, queueLifo, s, sem>> BY DEF Unlock
<1>5. TypeOK'
  <2>1. old' \in [Goroutine -> Word] /\ handoff' \in [Goroutine -> BOOLEAN]
    BY <1>2 DEF Unlock, TypeOK
  <2> QED BY <1>2, <1>3, <1>4, <2>1 DEF Goto, TypeOK, PC, SemaTypeOK
<1>6. NoThrow' BY <1>3 DEF Goto, NoThrow, TypeOK
<1>7. OwnerInv'
  <2>1. \A x \in Goroutine : pc'[x] # "cs"
    BY <1>1, <1>3 DEF Goto, OwnerInv, MutualExclusion, TypeOK
  <2> QED BY <1>2, <2>1 DEF OwnerInv, MutualExclusion
<1>8. SingleWakeup'
  <2>1. CASE m.starving = 0
    <3>1. Goto(g, "idle") \/ Goto(g, "unlock") BY <2>1 DEF Unlock
    <3>2. \A x \in Goroutine : Carries(x)' <=> Carries(x)
      BY <1>1, <1>4, <3>1 DEF Goto, Carries, TypeOK
    <3> QED BY <1>2, <1>4, <2>1, <3>2, WakeupStays DEF WakeupAnnounced
  <2>2. CASE m.starving = 1
    <3>1. Goto(g, "release") BY <1>2, <2>2, WordFields DEF Unlock, Zero
    <3>2. \A x \in Goroutine : Carries(x)' <=> (Carries(x) \/ x = g)
      BY <1>1, <1>4, <3>1 DEF Goto, Carries, TypeOK
    <3> QED BY <1>1, <1>2, <1>4, <2>2, <3>2, WakeupBegins DEF WakeupAnnounced, TypeOK, SemaTypeOK
  <2> QED BY <1>1, <2>1, <2>2
<1>9. StarvationInv'
  <2>1. \A x \in Goroutine : x # g => old'[x] = old[x] BY DEF Unlock, TypeOK
  <2> QED BY <1>1, <1>2, <1>3, <1>4, <2>1 DEF Goto, StarvationInv, TypeOK
<1>10. LocalInv'
  <2>1. \A x \in Goroutine : x # g => old'[x] = old[x] BY DEF Unlock, TypeOK
  <2> QED BY <1>1, <1>3, <1>4, <2>1 DEF Goto, LocalInv, TypeOK
<1>11. QueueInv' BY <1>1, <1>3, <1>4 DEF Goto, QueueInv, TypeOK
<1> QED BY <1>5, <1>6, <1>7, <1>8, <1>9, <1>10, <1>11

\* unlockSlow returns, wins the right to wake somebody, or retries.
LEMMA UnlockSlowKeeps ==
    ASSUME MutexInv, NEW g \in Goroutine, UnlockSlow(g)  PROVE MutexInv'
<1> USE MutexAssumption DEF MutexInv, sem, locals, mSema
<1>1. pc[g] = "unlock" /\ UNCHANGED <<handoff, s, sem>> BY DEF UnlockSlow
<1>2. CASE NothingToWake(old[g]) /\ Leave(g, "idle") /\ UNCHANGED m
  <2>1. TypeOK' BY <1>1, <1>2, LeaveType DEF TypeOK, PC, SemaTypeOK
  <2>2. NoThrow' BY <1>2 DEF Leave, Goto, NoThrow, TypeOK
  <2>3. OwnerInv' BY <1>1, <1>2 DEF Leave, Goto, OwnerInv, MutualExclusion, TypeOK
  <2>4. \A x \in Goroutine : Carries(x)' <=> Carries(x)
    BY <1>1, <1>2 DEF Leave, Goto, Carries, TypeOK
  <2>5. SingleWakeup' BY <1>1, <1>2, <2>4, WakeupStays DEF WakeupAnnounced
  <2>6. StarvationInv' BY <1>1, <1>2 DEF Leave, Goto, StarvationInv, TypeOK
  <2>7. LocalInv' /\ QueueInv' BY <1>1, <1>2 DEF Leave, Goto, LocalInv, QueueInv, TypeOK
  <2> QED BY <2>1, <2>2, <2>3, <2>5, <2>6, <2>7
<1>3. CASE /\ ~NothingToWake(old[g]) /\ m = old[g]
           /\ m' = MkWord(m.locked, 1, m.starving, m.waiters - 1) /\ Leave(g, "release")
  <2>0. m \in Word BY DEF TypeOK
  <2>1. m.locked = 0 /\ m.woken = 0 /\ m.starving = 0 /\ m.waiters \in Nat /\ m.waiters # 0
    BY <1>3, <2>0, WordRange DEF NothingToWake
  <2>2. m.waiters - 1 \in Nat BY <2>1
  <2>3. /\ m' \in Word /\ m'.locked = 0 /\ m'.woken = 1 /\ m'.starving = 0
    BY <1>3, <2>1, <2>2, WordType, WordFields
  <2>4. TypeOK' BY <1>1, <1>3, <2>3, LeaveType DEF TypeOK, PC, SemaTypeOK
  <2>5. NoThrow' BY <1>3 DEF Leave, Goto, NoThrow, TypeOK
  <2>6. OwnerInv' BY <1>1, <1>3, <2>1, <2>3 DEF Leave, Goto, OwnerInv, MutualExclusion, TypeOK
  <2>7. \A x \in Goroutine : Carries(x)' <=> (Carries(x) \/ x = g)
    BY <1>1, <1>3 DEF Leave, Goto, Carries, TypeOK
  <2>8. SingleWakeup'
    BY <1>1, <2>1, <2>3, <2>7, WakeupBegins DEF WakeupAnnounced, TypeOK, SemaTypeOK
  <2>9. StarvationInv' BY <1>1, <1>3, <2>1, <2>3 DEF Leave, Goto, StarvationInv, TypeOK
  <2>10. LocalInv' /\ QueueInv' BY <1>1, <1>3 DEF Leave, Goto, LocalInv, QueueInv, TypeOK
  <2> QED BY <2>4, <2>5, <2>6, <2>8, <2>9, <2>10
<1>4. CASE Goto(g, "reload") /\ UNCHANGED <<m, locals>>
  <2>1. TypeOK' BY <1>1, <1>4 DEF Goto, TypeOK, PC, SemaTypeOK
  <2>2. NoThrow' BY <1>4 DEF Goto, NoThrow, TypeOK
  <2>3. OwnerInv' BY <1>1, <1>4 DEF Goto, OwnerInv, MutualExclusion, TypeOK
  <2>4. \A x \in Goroutine : Carries(x)' <=> Carries(x)
    BY <1>1, <1>4 DEF Goto, Carries, TypeOK
  <2>5. SingleWakeup' BY <1>1, <1>4, <2>4, WakeupStays DEF WakeupAnnounced
  <2>6. StarvationInv' BY <1>1, <1>4 DEF Goto, StarvationInv, TypeOK
  <2>7. LocalInv' /\ QueueInv' BY <1>1, <1>4 DEF Goto, LocalInv, QueueInv, TypeOK
  <2> QED BY <2>1, <2>2, <2>3, <2>5, <2>6, <2>7
<1> QED BY <1>2, <1>3, <1>4 DEF UnlockSlow

\* unlockSlow rereads the word.
LEMMA UnlockReloadKeeps ==
    ASSUME MutexInv, NEW g \in Goroutine, UnlockReload(g)  PROVE MutexInv'
<1> USE MutexAssumption DEF MutexInv, sem, locals, mSema, UnlockReload, Goto, TypeOK
<1>1. TypeOK' BY DEF PC, SemaTypeOK
<1>2. NoThrow' BY DEF NoThrow
<1>3. OwnerInv' BY DEF OwnerInv, MutualExclusion
<1>4. \A x \in Goroutine : Carries(x)' <=> Carries(x) BY DEF Carries
<1>5. SingleWakeup' BY <1>4, WakeupStays DEF WakeupAnnounced
<1>6. StarvationInv' BY DEF StarvationInv
<1>7. LocalInv' /\ QueueInv' BY DEF LocalInv, QueueInv
<1> QED BY <1>1, <1>2, <1>3, <1>5, <1>6, <1>7

\* runtime_Semrelease publishes the unit: the wakeup moves from g to the count.
LEMMA SemreleaseKeeps ==
    ASSUME MutexInv, NEW g \in Goroutine, Semrelease(g)  PROVE MutexInv'
<1> USE MutexAssumption DEF MutexInv, sem, locals, mSema
<1>1. Carries(g) /\ sema[mSema] = 0 BY DEF Semrelease, Carries, SingleWakeup, TypeOK, SemaTypeOK
<1>2. sema'[mSema] = 1 /\ sema' \in [{mSema} -> Nat]
  BY <1>1 DEF Semrelease, SemXadd, TypeOK, SemaTypeOK
<1>3. TypeOK' BY <1>2 DEF Semrelease, SemXadd, Goto, TypeOK, PC, SemaTypeOK
<1>4. NoThrow' BY DEF Semrelease, Goto, NoThrow, TypeOK
<1>5. OwnerInv' BY DEF Semrelease, Goto, OwnerInv, MutualExclusion, TypeOK
<1>6. \A x \in Goroutine : ~Carries(x)'
  BY <1>1 DEF Semrelease, SemXadd, Goto, Carries, SingleWakeup, TypeOK, QueueInv
<1>7. SingleWakeup'
  BY <1>1, <1>2, <1>6 DEF Semrelease, SingleWakeup, WakeupUnderWay, WakeupAnnounced
<1>8. StarvationInv' /\ LocalInv' BY DEF Semrelease, Goto, StarvationInv, LocalInv, TypeOK
<1>9. QueueInv' BY DEF Semrelease, SemXadd, Goto, QueueInv, TypeOK
<1> QED BY <1>3, <1>4, <1>5, <1>7, <1>8, <1>9

\* The releaser finds nobody, or takes the first sleeper off the queue.
LEMMA SemreleaseDequeueKeeps ==
    ASSUME MutexInv, NEW g \in Goroutine, SemreleaseDequeue(g)  PROVE MutexInv'
<1> USE MutexAssumption DEF MutexInv, sem, locals, mSema
<1>1. /\ pc[g] = "dequeue" /\ UNCHANGED <<m, locals, sema>>
  BY DEF SemreleaseDequeue, SemNoWaiter, SemDequeue
<1>2. CASE SemNoWaiter(mSema) /\ SemReturn(g)
  <2>1. TypeOK' BY <1>1, <1>2 DEF SemNoWaiter, SemReturn, Goto, TypeOK, PC, SemaTypeOK
  <2>2. NoThrow' BY <1>2 DEF SemReturn, Goto, NoThrow, TypeOK
  <2>3. OwnerInv' BY <1>1, <1>2 DEF SemReturn, Goto, OwnerInv, MutualExclusion, TypeOK
  <2>4. \A x \in Goroutine : Carries(x)' <=> Carries(x)
    BY <1>1, <1>2 DEF SemNoWaiter, SemReturn, Goto, Carries, TypeOK
  <2>5. SingleWakeup' BY <1>1, <2>4, WakeupStays DEF WakeupAnnounced
  <2>6. StarvationInv' BY <1>1, <1>2 DEF SemReturn, Goto, StarvationInv, TypeOK
  <2>7. LocalInv' BY <1>1, <1>2 DEF SemReturn, Goto, LocalInv, TypeOK
  <2>8. QueueInv' BY <1>1, <1>2 DEF SemNoWaiter, SemReturn, Goto, QueueInv, TypeOK
  <2> QED BY <2>1, <2>2, <2>3, <2>5, <2>6, <2>7, <2>8
<1>3. ASSUME NEW h \in BOOLEAN, SemDequeue(mSema, h),
             \/ SemReturn(g)
             \/ Goto(g, "handoff") /\ s' = [s EXCEPT ![g] = Head(waitq[mSema])] /\ UNCHANGED handoff
      PROVE MutexInv'
  <2> DEFINE q == waitq[mSema]
             f == Head(q)
  <2>1. q \in Seq(Goroutine) /\ q # <<>> BY <1>3 DEF SemDequeue, TypeOK, SemaTypeOK
  <2>2. f \in Goroutine /\ f = q[1] /\ 1 \in DOMAIN q BY <2>1
  <2>3. sudog[f] = "queued" /\ pc[f] = "sleep" /\ f # g BY <1>1, <2>2 DEF QueueInv
  <2>4. /\ waitq' = [waitq EXCEPT ![mSema] = Tail(q)] /\ waitq'[mSema] = Tail(q)
        /\ sudog' = [sudog EXCEPT ![f] = IF h THEN "picked" ELSE "none"]
    BY <1>3 DEF SemDequeue, TypeOK, SemaTypeOK
  <2>5. /\ Tail(q) \in Seq(Goroutine) /\ DOMAIN Tail(q) = 1..(Len(q) - 1) /\ DOMAIN q = 1..Len(q)
        /\ Len(q) \in Nat /\ \A i \in 1..(Len(q) - 1) : Tail(q)[i] = q[i + 1] /\ q[i + 1] \in Goroutine
    BY <2>1
  <2> HIDE DEF f
  <2>6. PICK l \in {"idle", "handoff"} : pc' = [pc EXCEPT ![g] = l]
    BY <1>3 DEF SemReturn, Goto
  <2>7. /\ s' \in [Goroutine -> Goroutine \cup {Nil}] /\ (l = "handoff" => s'[g] \in Goroutine)
        /\ \A x \in Goroutine : x # g => s'[x] = s[x]
    <3>1. CASE SemReturn(g)
      <4>1. l = "idle" BY <2>6, <3>1 DEF SemReturn, Goto, TypeOK
      <4> QED BY <3>1, <4>1 DEF SemReturn, TypeOK
    <3>2. CASE s' = [s EXCEPT ![g] = f] BY <2>2, <3>2 DEF TypeOK
    <3> QED BY <1>3, <3>1, <3>2 DEF f
  <2>8. handoff' \in [Goroutine -> BOOLEAN] BY <1>3 DEF SemReturn, TypeOK
  <2>9. TypeOK'
    <3>1. waitq' \in [{mSema} -> Seq(Goroutine)] BY <2>4, <2>5 DEF TypeOK, SemaTypeOK
    <3>2. sudog' \in [Goroutine -> SudogState] BY <2>4 DEF TypeOK, SemaTypeOK, SudogState
    <3>3. pc' \in [Goroutine -> PC] BY <2>6 DEF TypeOK, PC
    <3> QED BY <1>1, <2>7, <2>8, <3>1, <3>2, <3>3 DEF TypeOK, SemaTypeOK
  <2>10. NoThrow' BY <2>6 DEF NoThrow, TypeOK
  <2>11. OwnerInv' BY <1>1, <2>6 DEF OwnerInv, MutualExclusion, TypeOK
  <2>12. \A x \in Goroutine : Carries(x)' <=> Carries(x)
    BY <1>1, <2>2, <2>3, <2>4, <2>6 DEF Carries, TypeOK, SemaTypeOK
  <2>13. SingleWakeup' BY <1>1, <2>12, WakeupStays DEF WakeupAnnounced
  <2>14. StarvationInv' BY <1>1, <2>6 DEF StarvationInv, TypeOK
  <2>15. LocalInv' BY <1>1, <2>6, <2>7 DEF LocalInv, TypeOK
  <2>16. QueueInv'
    <3>1. \A i \in 1..(Len(q) - 1) : i + 1 \in DOMAIN q /\ Tail(q)[i] = q[i + 1] /\ q[i + 1] # f
      BY <2>2, <2>5 DEF QueueInv
    <3>2. \A i \in DOMAIN waitq'[mSema] : sudog'[waitq'[mSema][i]] = "queued"
      BY <2>2, <2>4, <2>5, <3>1 DEF QueueInv, TypeOK, SemaTypeOK
    <3>3. \A i, j \in DOMAIN waitq'[mSema] : waitq'[mSema][i] = waitq'[mSema][j] => i = j
      <4> SUFFICES ASSUME NEW i \in 1..(Len(q) - 1), NEW j \in 1..(Len(q) - 1), q[i + 1] = q[j + 1]
                   PROVE  i = j
        <5>1. /\ DOMAIN waitq'[mSema] = 1..(Len(q) - 1)
              /\ \A i \in 1..(Len(q) - 1) : waitq'[mSema][i] = q[i + 1]
          BY <2>4, <2>5
        <5> HIDE DEF q
        <5> QED BY <5>1
      <4>1. i + 1 = j + 1 BY <3>1 DEF QueueInv
      <4> QED BY <2>5, <4>1
    <3>4. \A x \in Goroutine : sudog'[x] # "none" => pc'[x] = "sleep"
      BY <1>1, <2>2, <2>3, <2>4, <2>6 DEF QueueInv, TypeOK, SemaTypeOK
    <3> QED BY <3>2, <3>3, <3>4 DEF QueueInv
  <2> QED BY <2>9, <2>10, <2>11, <2>13, <2>14, <2>15, <2>16
<1> QED BY <1>2, <1>3 DEF SemreleaseDequeue

\* With handoff: the unit becomes the dequeued waiter's ticket, or somebody
\* else has taken it and the waiter competes.
LEMMA SemreleaseHandoffKeeps ==
    ASSUME MutexInv, NEW g \in Goroutine, SemreleaseHandoff(g)  PROVE MutexInv'
<1> USE MutexAssumption DEF MutexInv, sem, locals, mSema, SemreleaseHandoff
<1>1. s[g] \in Goroutine /\ sudog[s[g]] = "picked" /\ pc[s[g]] = "sleep" /\ waitq' = waitq
  BY DEF SemHandoff, LocalInv, QueueInv
<1>2. TypeOK'
  <2>1. sema' \in [{mSema} -> Nat] BY DEF SemHandoff, cansemacquire, TypeOK, SemaTypeOK
  <2> QED BY <2>1 DEF SemHandoff, SemReturn, Goto, TypeOK, PC, SemaTypeOK, SudogState
<1>3. NoThrow' BY DEF SemReturn, Goto, NoThrow, TypeOK
<1>4. OwnerInv' BY DEF SemReturn, Goto, OwnerInv, MutualExclusion, TypeOK
<1>5. SingleWakeup'
  <2>1. CASE cansemacquire(mSema) /\ sudog' = [sudog EXCEPT ![s[g]] = "ticket"]
    <3>1. sema[mSema] = 1 /\ sema'[mSema] = 0
      BY <2>1 DEF cansemacquire, SingleWakeup, TypeOK, SemaTypeOK
    <3>2. \A x \in Goroutine : ~Carries(x) BY <3>1 DEF SingleWakeup
    <3>3. \A x \in Goroutine : Carries(x)' <=> x = s[g]
      BY <1>1, <2>1, <3>2 DEF SemReturn, Goto, Carries, TypeOK, SemaTypeOK
    <3> QED BY <1>1, <3>1, <3>3 DEF SingleWakeup, WakeupUnderWay, WakeupAnnounced
  <2>2. CASE sema[mSema] = 0 /\ sudog' = [sudog EXCEPT ![s[g]] = "none"] /\ UNCHANGED sema
    <3>1. \A x \in Goroutine : Carries(x)' <=> Carries(x)
      BY <1>1, <2>2 DEF SemReturn, Goto, Carries, TypeOK, SemaTypeOK
    <3> QED BY <2>2, <3>1, WakeupStays DEF WakeupAnnounced
  <2> QED BY <2>1, <2>2 DEF SemHandoff
<1>6. StarvationInv' BY DEF SemReturn, Goto, StarvationInv, TypeOK
<1>7. LocalInv' BY DEF SemReturn, Goto, LocalInv, TypeOK
<1>8. QueueInv' BY <1>1 DEF SemHandoff, SemReturn, Goto, QueueInv, TypeOK, SemaTypeOK
<1> QED BY <1>2, <1>3, <1>4, <1>5, <1>6, <1>7, <1>8

-----------------------------------------------------------------------------
(* The theorems *)

\* The initial state satisfies the inductive invariant.
LEMMA InitInv == Init => MutexInv
<1> SUFFICES ASSUME Init  PROVE MutexInv
  OBVIOUS
<1> USE MutexAssumption DEF Init, SemaInit, mSema
<1>1. m.locked = 0 /\ m.woken = 0 /\ m.starving = 0 /\ m.waiters = 0
  BY WordFields DEF Zero
<1>2. TypeOK BY ZeroWord DEF TypeOK, PC, SemaTypeOK, SudogState
<1>3. NoThrow /\ OwnerInv BY <1>1 DEF NoThrow, OwnerInv, MutualExclusion
<1>4. SingleWakeup BY <1>1 DEF SingleWakeup, WakeupUnderWay, WakeupAnnounced, Carries
<1>5. StarvationInv /\ LocalInv BY <1>1 DEF StarvationInv, LocalInv
<1>6. QueueInv BY DEF QueueInv
<1> QED BY <1>2, <1>3, <1>4, <1>5, <1>6 DEF MutexInv

\* Every step preserves it.
LEMMA NextKeeps == ASSUME MutexInv, [Next]_vars  PROVE MutexInv'
<1>1. CASE UNCHANGED vars
  BY <1>1 DEF vars, locals, sem, mSema, MutexInv, TypeOK, SemaTypeOK, NoThrow, OwnerInv,
     MutualExclusion, SingleWakeup, WakeupUnderWay, WakeupAnnounced, Carries, StarvationInv,
     LocalInv, QueueInv
<1>2. ASSUME NEW g \in Goroutine,
             Lock(g) \/ LockStep(g) \/ TryLockLoad(g) \/ TryLockCAS(g) \/ UnlockStep(g)
      PROVE  MutexInv'
  BY <1>2, LockKeeps, LoadKeeps, SpinKeeps, CompareAndSwapKeeps, SleepKeeps, WokeKeeps, GrabKeeps,
     TryLockLoadKeeps, TryLockCASKeeps, UnlockKeeps, UnlockSlowKeeps, UnlockReloadKeeps,
     SemreleaseKeeps, SemreleaseDequeueKeeps, SemreleaseHandoffKeeps DEF LockStep, UnlockStep
<1>3. ASSUME NEW g \in Goroutine, NEW h \in Goroutine, Pass(g, h)  PROVE MutexInv'
  BY <1>3, PassKeeps
<1> QED BY <1>1, <1>2, <1>3 DEF Next

\* MutexInv holds in every reachable state of Lock, TryLock and Unlock.
THEOREM MutexInvariant == Spec => []MutexInv
  BY InitInv, NextKeeps, PTL DEF Spec

\* The state word stays a word: no flag bit of m.state over- or underflows
\* when Unlock and Grab add to it, and the waiter count never goes negative.
THEOREM TypeCorrect == Spec => []TypeOK
<1>1. MutexInv => TypeOK BY DEF MutexInv
<1> QED BY <1>1, MutexInvariant, PTL

\* Lock and TryLock never make two goroutines owners of the mutex.
THEOREM Exclusion == Spec => []MutualExclusion
<1>1. MutexInv => MutualExclusion BY DEF MutexInv, OwnerInv
<1> QED BY <1>1, MutexInvariant, PTL

\* throw("sync: inconsistent mutex state") is never reached.
THEOREM ThrowsAreDead == Spec => []NoThrow
<1>1. MutexInv => NoThrow BY DEF MutexInv
<1> QED BY <1>1, MutexInvariant, PTL

\* One wakeup at a time, and the state word knows of it.
THEOREM WakeupsDoNotPileUp == Spec => []SingleWakeup
<1>1. MutexInv => SingleWakeup BY DEF MutexInv
<1> QED BY <1>1, MutexInvariant, PTL

-----------------------------------------------------------------------------
(* No stranded waiter.  The case that is left open by SingleWakeup is a     *)
(* free mutex in normal mode with waiters and no announced wakeup.          *)

NeedsWaker(w) == w.waiters # 0 /\ w.locked = 0 /\ w.woken = 0 /\ w.starving = 0

WakerExists == NeedsWaker(m) => \E g \in Goroutine : WillWake(g)

\* A step that leaves the word and the unlockers alone.
LEMMA WakerStays ==
    ASSUME WakerExists, NeedsWaker(m') => NeedsWaker(m),
           \A x \in Goroutine : WillWake(x) => WillWake(x)'
    PROVE  WakerExists'
  BY DEF WakerExists, NeedsWaker

\* Every step preserves WakerExists.
LEMMA NextKeepsWaker == ASSUME MutexInv, WakerExists, [Next]_vars  PROVE WakerExists'
<1> USE DEF sem, locals, mSema
<1>1. /\ m \in Word /\ m.locked \in 0..1 /\ m.woken \in 0..1 /\ m.starving \in 0..1 /\ m.waiters \in Nat
  BY WordRange DEF MutexInv, TypeOK
<1>2. CASE UNCHANGED vars
  BY <1>2 DEF vars, WakerExists, NeedsWaker, WillWake, NothingToWake
<1>3. ASSUME NEW g \in Goroutine, Lock(g) \/ Grab(g) \/ TryLockCAS(g)  PROVE WakerExists'
  <2>1. m'.locked = 1 \/ m' = m
    BY <1>3, WordFields DEF Lock, Grab, TryLockCAS, MutexInv, StarvationInv, SingleWakeup,
       WakeupUnderWay, WakeupAnnounced, Carries
  <2>2. \A x \in Goroutine : WillWake(x) => WillWake(x)'
    BY <1>3 DEF Lock, Grab, TryLockCAS, Leave, Goto, WillWake, NothingToWake, MutexInv, TypeOK
  <2> QED BY <2>1, <2>2, WakerStays DEF NeedsWaker
<1>4. ASSUME NEW g \in Goroutine,
             \/ Load(g) \/ Sleep(g) \/ TryLockLoad(g) \/ Semrelease(g) \/ SemreleaseDequeue(g)
             \/ SemreleaseHandoff(g) \/ \E late \in BOOLEAN : Woke(g, late)
      PROVE  WakerExists'
  <2>1. m' = m
    BY <1>4 DEF Load, Sleep, TryLockLoad, Semrelease, SemreleaseDequeue, SemreleaseHandoff, Woke
  <2>2. \A x \in Goroutine : WillWake(x) => WillWake(x)'
    BY <1>4 DEF Load, Sleep, TryLockLoad, Semrelease, SemreleaseDequeue, SemreleaseHandoff, Woke,
       SemReturn, Goto, WillWake, NothingToWake, MutexInv, TypeOK
  <2> QED BY <2>1, <2>2, WakerStays
<1>5. ASSUME NEW g \in Goroutine, Spin(g)  PROVE WakerExists'
  <2>1. m' = m \/ m'.woken = 1 BY <1>5, WordFields DEF Spin
  <2>2. \A x \in Goroutine : WillWake(x) => WillWake(x)'
    BY <1>5 DEF Spin, Goto, WillWake, NothingToWake, MutexInv, TypeOK
  <2> QED BY <2>1, <2>2, WakerStays DEF NeedsWaker
<1>6. ASSUME NEW g \in Goroutine, CompareAndSwap(g)  PROVE WakerExists'
  <2>1. m' = m \/ (m = old[g] /\ m' = NewWord(g)) BY <1>6 DEF CompareAndSwap
  <2>2. m' = m \/ m'.locked = 1 \/ m'.starving = 1
    BY <1>1, <2>1, WordFields DEF NewWord
  <2>3. \A x \in Goroutine : WillWake(x) => WillWake(x)'
    BY <1>6 DEF CompareAndSwap, Leave, Goto, WillWake, NothingToWake, MutexInv, TypeOK
  <2> QED BY <2>2, <2>3, WakerStays DEF NeedsWaker
<1>7. ASSUME NEW g \in Goroutine, NEW h \in Goroutine, Pass(g, h)  PROVE WakerExists'
  <2>1. m' = m /\ \A x \in Goroutine : WillWake(x) => WillWake(x)'
    BY <1>7 DEF Pass, WillWake, NothingToWake, MutexInv, TypeOK
  <2> QED BY <2>1, WakerStays
<1>8. ASSUME NEW g \in Goroutine, Unlock(g)  PROVE WakerExists'
  <2> SUFFICES ASSUME NeedsWaker(m')  PROVE WillWake(g)'
    BY DEF WakerExists
  <2>1. m'.starving = m.starving /\ m' # Zero
    BY <1>8, WordFields DEF Unlock, NeedsWaker, Zero
  <2>2. pc'[g] = "unlock" /\ old'[g] = m'
    BY <1>8, <2>1 DEF Unlock, Goto, NeedsWaker, MutexInv, TypeOK
  <2> QED BY <2>2 DEF WillWake, NothingToWake, NeedsWaker
<1>9. ASSUME NEW g \in Goroutine, UnlockSlow(g)  PROVE WakerExists'
  <2>1. CASE m' = m /\ ~NothingToWake(old[g])
    <3>1. pc'[g] = "reload" \/ m' = MkWord(m.locked, 1, m.starving, m.waiters - 1)
      BY <1>9, <2>1 DEF UnlockSlow, Goto, MutexInv, TypeOK
    <3>2. pc'[g] = "reload" \/ ~NeedsWaker(m') BY <3>1, WordFields DEF NeedsWaker
    <3> QED BY <3>2 DEF WakerExists, WillWake
  <2>2. CASE NothingToWake(old[g])
    <3>1. m' = m /\ \A x \in Goroutine : WillWake(x) => WillWake(x)'
      BY <1>9, <2>2 DEF UnlockSlow, Leave, Goto, WillWake, NothingToWake, MutexInv, TypeOK
    <3> QED BY <3>1, WakerStays
  <2>3. CASE m' # m /\ ~NothingToWake(old[g])
    <3>1. m'.woken = 1 BY <1>9, <2>3, WordFields DEF UnlockSlow, locals
    <3> QED BY <3>1 DEF WakerExists, NeedsWaker
  <2> QED BY <2>1, <2>2, <2>3
<1>10. ASSUME NEW g \in Goroutine, UnlockReload(g)  PROVE WakerExists'
  <2> SUFFICES ASSUME NeedsWaker(m')  PROVE WillWake(g)'
    BY DEF WakerExists
  <2>1. pc'[g] = "unlock" /\ old'[g] = m' BY <1>10 DEF UnlockReload, Goto, MutexInv, TypeOK
  <2> QED BY <2>1 DEF WillWake, NothingToWake, NeedsWaker
<1> QED BY <1>2, <1>3, <1>4, <1>5, <1>6, <1>7, <1>8, <1>9, <1>10 DEF Next, LockStep, UnlockStep

\* A free mutex with registered waiters always has a wakeup under way or an
\* unlocker that will post one: the early returns of unlockSlow lose nobody.
THEOREM NobodyIsStranded == Spec => []NoStrandedWaiter
<1>1. Init => WakerExists BY WordFields DEF Init, Zero, WakerExists, NeedsWaker
<1>2. MutexInv /\ WakerExists => NoStrandedWaiter
  <2> SUFFICES ASSUME MutexInv, WakerExists, m.waiters > 0, m.locked = 0, ~WakeupUnderWay
               PROVE  \E g \in Goroutine : WillWake(g)
    BY DEF NoStrandedWaiter
  <2>1. m.woken \in 0..1 /\ m.starving \in 0..1 /\ m.waiters # 0 BY WordRange DEF MutexInv, TypeOK
  <2>2. m.woken = 0 /\ m.starving = 0 BY <2>1 DEF MutexInv, SingleWakeup, WakeupAnnounced
  <2> QED BY <2>1, <2>2 DEF WakerExists, NeedsWaker
<1>3. MutexInv /\ WakerExists /\ [Next]_vars => WakerExists' BY NextKeepsWaker
<1> QED BY <1>1, <1>2, <1>3, MutexInvariant, PTL DEF Spec

-----------------------------------------------------------------------------
(* The waiter count.  It is a number of goroutines, so here they are        *)
(* finitely many.                                                           *)

Counted == {g \in Goroutine : pc[g] \in {"sleep", "woke", "grab"}}

\* The wakeup has been taken off the count in normal mode, by UnlockSlow.
Posted == \/ sema[mSema] = 1
          \/ \E g \in Goroutine : pc[g] \in {"release", "woke"} \/ sudog[g] = "ticket"

\* Posted, or with a goroutine that is out of the count as well.
LEMMA PostedIsUnderWay ==
    ASSUME MutexInv
    PROVE  /\ WaiterCount <=> Cardinality(Counted) = m.waiters + IF m.starving = 0 /\ Posted THEN 1 ELSE 0
           /\ m.starving = 0 /\ Posted => m.woken = 1
           /\ \A g \in Goroutine : Carries(g) =>
                 /\ sema[mSema] = 0
                 /\ \A x \in Goroutine : x # g => pc[x] \notin {"release", "woke"} /\ sudog[x] # "ticket"
<1> USE DEF mSema
<1>1. WaiterCount <=> Cardinality(Counted) = m.waiters + IF m.starving = 0 /\ Posted THEN 1 ELSE 0
  BY DEF WaiterCount, Counted, Posted
<1>2. Posted => WakeupUnderWay
  BY DEF Posted, WakeupUnderWay, Carries
<1>3. m.starving = 0 /\ Posted => m.woken = 1
  BY <1>2 DEF MutexInv, SingleWakeup, WakeupAnnounced
<1>4. sema[mSema] \in Nat
  BY DEF MutexInv, TypeOK, SemaTypeOK
<1>5. ASSUME NEW g \in Goroutine, Carries(g)
      PROVE  /\ sema[mSema] = 0
             /\ \A x \in Goroutine : x # g => pc[x] \notin {"release", "woke"} /\ sudog[x] # "ticket"
  <2>1. sema[mSema] = 0
    BY <1>4, <1>5 DEF MutexInv, SingleWakeup
  <2>2. \A x \in Goroutine : x # g => ~Carries(x)
    BY <1>5 DEF MutexInv, SingleWakeup
  <2> QED BY <2>1, <2>2 DEF Carries
<1> QED BY <1>1, <1>3, <1>5

\* One goroutine moves.
LEMMA CountedMoves ==
    ASSUME IsFiniteSet(Goroutine), NEW g \in Goroutine, \A x \in Goroutine : x # g => pc'[x] = pc[x]
    PROVE  /\ Cardinality(Counted) \in Nat /\ Cardinality(Counted') \in Nat
           /\ Cardinality(Counted') + (IF pc[g] \in {"sleep", "woke", "grab"} THEN 1 ELSE 0)
                = Cardinality(Counted) + (IF pc'[g] \in {"sleep", "woke", "grab"} THEN 1 ELSE 0)
<1>1. Counted' \ {g} = Counted \ {g}
  BY DEF Counted
<1>2. /\ g \in Counted <=> pc[g] \in {"sleep", "woke", "grab"}
      /\ g \in Counted' <=> pc'[g] \in {"sleep", "woke", "grab"}
  BY DEF Counted
<1>3. IsFiniteSet(Counted)
  <2>1. Counted \in SUBSET Goroutine
    BY DEF Counted
  <2> QED BY <2>1, CountNat
<1> HIDE DEF Counted
<1>4. /\ Cardinality(Counted) \in Nat /\ Cardinality(Counted') \in Nat
      /\ Cardinality(Counted') + (IF g \in Counted THEN 1 ELSE 0)
           = Cardinality(Counted) + (IF g \in Counted' THEN 1 ELSE 0)
  BY <1>1, <1>3, CountStep
<1> QED BY <1>2, <1>4

\* Every step keeps the count.
LEMMA NextKeepsCount ==
    ASSUME IsFiniteSet(Goroutine), MutexInv, MutexInv', WaiterCount, [Next]_vars
    PROVE  WaiterCount'
<1> USE DEF sem, locals, mSema
<1>1. /\ m.locked \in 0..1 /\ m.woken \in 0..1 /\ m.starving \in 0..1 /\ m.waiters \in Nat
      /\ m'.starving \in 0..1 /\ m'.waiters \in Nat /\ sema[mSema] \in Nat
      /\ pc \in [Goroutine -> PC] /\ sudog \in [Goroutine -> SudogState] /\ sema \in [{mSema} -> Nat]
  BY WordRange DEF MutexInv, TypeOK, SemaTypeOK
<1>2. /\ Cardinality(Counted) = m.waiters + IF m.starving = 0 /\ Posted THEN 1 ELSE 0
      /\ m.starving = 0 /\ Posted => m.woken = 1
  BY PostedIsUnderWay
<1>3. WaiterCount' <=> Cardinality(Counted') = m'.waiters + IF m'.starving = 0 /\ Posted' THEN 1 ELSE 0
  BY DEF WaiterCount, Counted, Posted
<1>4. ASSUME Counted' = Counted, m'.waiters = m.waiters, m'.starving = m.starving, Posted' <=> Posted
      PROVE  WaiterCount'
  BY <1>2, <1>3, <1>4
<1>5. CASE UNCHANGED vars
  BY <1>4, <1>5 DEF vars, Counted, Posted
<1>6. ASSUME NEW g \in Goroutine,
             \/ Lock(g) \/ Load(g) \/ Spin(g) \/ TryLockLoad(g) \/ TryLockCAS(g) \/ UnlockReload(g)
      PROVE  WaiterCount'
  <2>1. m'.waiters = m.waiters /\ m'.starving = m.starving
    BY <1>6, WordFields DEF Lock, Load, Spin, TryLockLoad, TryLockCAS, UnlockReload
  <2>2. Counted' = Counted /\ (Posted' <=> Posted)
    BY <1>1, <1>6 DEF Lock, Load, Spin, TryLockLoad, TryLockCAS, UnlockReload, Leave, Goto, Counted, Posted
  <2> QED BY <1>4, <2>1, <2>2
<1>7. ASSUME NEW g \in Goroutine, NEW h \in Goroutine, Pass(g, h)  PROVE WaiterCount'
  BY <1>1, <1>4, <1>7 DEF Pass, Counted, Posted
<1>8. ASSUME NEW g \in Goroutine, CompareAndSwap(g)  PROVE WaiterCount'
  <2>1. CASE ~Held(old[g]) \/ m' = m
    <3>1. CASE m' = m /\ pc'[g] # "sleep"
      BY <1>1, <1>4, <1>8, <3>1 DEF CompareAndSwap, Leave, Goto, Counted, Posted
    <3>2. CASE ~Held(old[g]) /\ m = old[g] /\ m' = NewWord(g)
      <4>1. m'.waiters = m.waiters /\ m'.starving = m.starving
        BY <1>1, <3>2, WordFields DEF NewWord, Held
      <4>2. Counted' = Counted /\ (Posted' <=> Posted)
        BY <1>1, <1>8, <3>2 DEF CompareAndSwap, Leave, Goto, Counted, Posted
      <4> QED BY <1>4, <4>1, <4>2
    <3>3. CASE Held(old[g]) /\ m = old[g] /\ m' = NewWord(g) /\ m' = m
      BY <1>1, <3>3, WordFields DEF NewWord
    <3> QED BY <1>1, <1>8, <2>1, <3>1, <3>2, <3>3 DEF CompareAndSwap, Leave, Goto
  <2>2. CASE Held(old[g]) /\ m' # m
    <3>1. pc[g] = "try" /\ m = old[g] /\ m' = NewWord(g) /\ Goto(g, "sleep") /\ sema' = sema /\ sudog' = sudog
      BY <1>8, <2>2 DEF CompareAndSwap
    <3>2. pc'[g] = "sleep" /\ \A x \in Goroutine : x # g => pc'[x] = pc[x]
      BY <1>1, <3>1 DEF Goto
    <3>3. m'.waiters = m.waiters + 1 /\ (m'.starving = m.starving \/ starving[g])
      BY <2>2, <3>1, WordFields DEF NewWord
    <3>4. Posted' <=> Posted
      BY <3>1, <3>2 DEF Posted
    <3>5. m'.starving = m.starving \/ ~Posted
      <4>1. ASSUME starving[g] PROVE ~Posted
        <5>1. Carries(g)
          BY <3>1, <4>1 DEF MutexInv, LocalInv, Carries
        <5>2. sudog[g] # "ticket"
          BY <3>1 DEF MutexInv, QueueInv
        <5> QED BY <3>1, <5>1, <5>2, PostedIsUnderWay DEF Posted
      <4> QED BY <3>3, <4>1
    <3>6. Cardinality(Counted') = Cardinality(Counted) + 1
      BY <3>1, <3>2, CountedMoves
    <3> QED BY <1>1, <1>2, <1>3, <3>3, <3>4, <3>5, <3>6
  <2> QED BY <2>1, <2>2
<1>9. ASSUME NEW g \in Goroutine, Sleep(g)  PROVE WaiterCount'
  <2>1. m' = m /\ Counted' = Counted
    BY <1>1, <1>9 DEF Sleep, Goto, Counted
  <2>2. Posted' <=> Posted
    <3>1. CASE SemSleep(g, mSema, queueLifo[g]) /\ pc' = pc
      <4>1. sema' = sema /\ sudog[g] = "none" /\ sudog' = [sudog EXCEPT ![g] = "queued"]
        BY <3>1 DEF SemSleep
      <4>2. \A x \in Goroutine : sudog'[x] = "ticket" <=> sudog[x] = "ticket"
        BY <1>1, <4>1
      <4> QED BY <3>1, <4>1, <4>2 DEF Posted
    <3>2. CASE SemAcquired(g, mSema) /\ Goto(g, "woke")
      <4>1. pc'[g] = "woke"
        BY <1>1, <3>2 DEF Goto
      <4>2. sudog[g] = "ticket" \/ sema[mSema] > 0
        BY <3>2 DEF SemAcquired, cansemacquire
      <4>3. sema[mSema] > 0 => sema[mSema] = 1
        BY <1>1 DEF MutexInv, SingleWakeup
      <4> QED BY <4>1, <4>2, <4>3 DEF Posted
    <3> QED BY <1>9, <3>1, <3>2 DEF Sleep
  <2> QED BY <1>4, <2>1, <2>2
<1>10. ASSUME NEW g \in Goroutine, NEW late \in BOOLEAN, Woke(g, late)  PROVE WaiterCount'
  <2>1. pc[g] = "woke" /\ m' = m /\ sema' = sema /\ sudog' = sudog /\ Carries(g) /\ Posted
    BY <1>10 DEF Woke, Carries, Posted
  <2>2. CASE m.starving = 1
    <3>1. pc'[g] \in {"grab", "throw"} /\ \A x \in Goroutine : x # g => pc'[x] = pc[x]
      BY <1>1, <1>10, <2>2 DEF Woke, Goto
    <3>2. pc'[g] = "grab"
      BY <3>1 DEF MutexInv, NoThrow
    <3>3. Counted' = Counted
      BY <2>1, <3>1, <3>2 DEF Counted
    <3> QED BY <1>2, <1>3, <2>1, <2>2, <3>3
  <2>3. CASE m.starving = 0
    <3>1. pc'[g] = "try" /\ \A x \in Goroutine : x # g => pc'[x] = pc[x]
      BY <1>1, <1>10, <2>3 DEF Woke, Goto
    <3>2. Cardinality(Counted') = Cardinality(Counted) - 1
      BY <2>1, <3>1, CountedMoves
    <3>3. ~Posted'
      <4>1. sudog[g] # "ticket"
        BY <2>1 DEF MutexInv, QueueInv
      <4> QED BY <2>1, <3>1, <4>1, PostedIsUnderWay DEF Posted
    <3> QED BY <1>1, <1>2, <1>3, <2>1, <2>3, <3>2, <3>3
  <2> QED BY <1>1, <2>2, <2>3
<1>11. ASSUME NEW g \in Goroutine, Grab(g)  PROVE WaiterCount'
  <2>1. pc[g] = "grab" /\ m'.waiters = m.waiters - 1 /\ sema' = sema /\ sudog' = sudog /\ Carries(g)
    BY <1>11, WordFields DEF Grab, Carries
  <2>2. pc'[g] = "cs" /\ \A x \in Goroutine : x # g => pc'[x] = pc[x]
    BY <1>1, <1>11 DEF Grab, Leave, Goto
  <2>3. m.starving = 1
    BY <2>1 DEF MutexInv, StarvationInv
  <2>4. ~Posted'
    <3>1. sudog[g] # "ticket"
      BY <2>1 DEF MutexInv, QueueInv
    <3> QED BY <2>1, <2>2, <3>1, PostedIsUnderWay DEF Posted
  <2>5. Cardinality(Counted') = Cardinality(Counted) - 1
    BY <2>1, <2>2, CountedMoves
  <2> QED BY <1>1, <1>2, <1>3, <2>1, <2>3, <2>4, <2>5
<1>12. ASSUME NEW g \in Goroutine, Unlock(g)  PROVE WaiterCount'
  <2>1. m'.waiters = m.waiters /\ m'.starving = m.starving /\ sema' = sema /\ sudog' = sudog /\ pc[g] = "cs"
    BY <1>12, WordFields DEF Unlock
  <2>2. /\ pc'[g] \in {"idle", "unlock", "release"} /\ \A x \in Goroutine : x # g => pc'[x] = pc[x]
        /\ m.starving = 0 => pc'[g] # "release"
    BY <1>1, <1>12 DEF Unlock, Goto
  <2>3. Counted' = Counted
    BY <2>1, <2>2 DEF Counted
  <2>4. m.starving = 0 => (Posted' <=> Posted)
    BY <2>1, <2>2 DEF Posted
  <2> QED BY <1>2, <1>3, <2>1, <2>3, <2>4
<1>13. ASSUME NEW g \in Goroutine, UnlockSlow(g)  PROVE WaiterCount'
  <2>1. pc[g] = "unlock" /\ sema' = sema /\ sudog' = sudog
    BY <1>13 DEF UnlockSlow
  <2>2. CASE m' = m /\ pc'[g] # "release"
    BY <1>1, <1>4, <1>13, <2>1, <2>2 DEF UnlockSlow, Leave, Goto, Counted, Posted
  <2>3. CASE ~NothingToWake(old[g]) /\ m = old[g] /\ m' = MkWord(m.locked, 1, m.starving, m.waiters - 1)
             /\ Goto(g, "release")
    <3>1. m.woken # 1 /\ m.starving = 0
      BY <1>1, <2>3 DEF NothingToWake
    <3>2. m'.waiters = m.waiters - 1 /\ m'.starving = 0
      BY <2>3, <3>1, WordFields
    <3>3. pc'[g] = "release" /\ \A x \in Goroutine : x # g => pc'[x] = pc[x]
      BY <1>1, <2>3 DEF Goto
    <3>4. Counted' = Counted /\ Posted' /\ ~Posted
      BY <1>2, <2>1, <3>1, <3>3 DEF Counted, Posted
    <3> QED BY <1>1, <1>2, <1>3, <3>1, <3>2, <3>4
  <2>4. \/ m' = m /\ pc'[g] # "release"
        \/ /\ ~NothingToWake(old[g]) /\ m = old[g] /\ m' = MkWord(m.locked, 1, m.starving, m.waiters - 1)
           /\ Goto(g, "release")
    BY <1>1, <1>13 DEF UnlockSlow, Leave, Goto
  <2> QED BY <2>2, <2>3, <2>4
<1>14. ASSUME NEW g \in Goroutine, Semrelease(g)  PROVE WaiterCount'
  <2>1. pc[g] = "release" /\ m' = m /\ sudog' = sudog /\ sema' = [sema EXCEPT ![mSema] = sema[mSema] + 1]
        /\ Carries(g)
    BY <1>14 DEF Semrelease, SemXadd, Carries
  <2>2. sema'[mSema] = 1
    BY <1>1, <2>1, PostedIsUnderWay
  <2>3. Counted' = Counted
    BY <1>1, <1>14 DEF Semrelease, Goto, Counted
  <2> QED BY <1>4, <2>1, <2>2, <2>3 DEF Posted
<1>15. ASSUME NEW g \in Goroutine, SemreleaseDequeue(g) \/ SemreleaseHandoff(g)  PROVE WaiterCount'
  <2>1. m' = m /\ Counted' = Counted
    BY <1>1, <1>15 DEF SemreleaseDequeue, SemreleaseHandoff, SemReturn, Goto, Counted
  <2>2. pc[g] \in {"dequeue", "handoff"} /\ pc'[g] \in {"idle", "handoff"}
        /\ \A x \in Goroutine : x # g => pc'[x] = pc[x]
    BY <1>1, <1>15 DEF SemreleaseDequeue, SemreleaseHandoff, SemReturn, Goto
  <2>3. CASE SemreleaseDequeue(g)
    <3>1. sema' = sema
      BY <2>3 DEF SemreleaseDequeue, SemNoWaiter, SemDequeue
    <3>2. \A x \in Goroutine : sudog'[x] = "ticket" <=> sudog[x] = "ticket"
      <4>1. CASE sudog' = sudog
        BY <4>1
      <4>2. CASE waitq[mSema] # <<>> /\ \E b \in {"picked", "none"} : sudog' = [sudog EXCEPT ![Head(waitq[mSema])] = b]
        <5>1. waitq[mSema] \in Seq(Goroutine)
          BY DEF MutexInv, TypeOK, SemaTypeOK
        <5>2. Head(waitq[mSema]) = waitq[mSema][1] /\ 1 \in DOMAIN waitq[mSema]
          BY <4>2, <5>1
        <5>3. sudog[Head(waitq[mSema])] = "queued"
          BY <5>2 DEF MutexInv, QueueInv
        <5> QED BY <1>1, <4>2, <5>3
      <4> QED BY <2>3, <4>1, <4>2 DEF SemreleaseDequeue, SemNoWaiter, SemDequeue
    <3> QED BY <1>4, <2>1, <2>2, <3>1, <3>2 DEF Posted
  <2>4. CASE SemreleaseHandoff(g)
    <3>1. s[g] \in Goroutine /\ sudog[s[g]] = "picked"
      BY <2>4 DEF SemreleaseHandoff, SemHandoff, MutexInv, LocalInv
    <3>2. CASE cansemacquire(mSema) /\ sudog' = [sudog EXCEPT ![s[g]] = "ticket"]
      <4>1. sema[mSema] = 1
        BY <1>1, <3>2 DEF cansemacquire, MutexInv, SingleWakeup
      <4>2. sudog'[s[g]] = "ticket"
        BY <1>1, <3>1, <3>2
      <4> QED BY <1>4, <2>1, <3>1, <4>1, <4>2 DEF Posted
    <3>3. CASE sema' = sema /\ sudog' = [sudog EXCEPT ![s[g]] = "none"]
      <4>1. \A x \in Goroutine : sudog'[x] = "ticket" <=> sudog[x] = "ticket"
        BY <1>1, <3>1, <3>3
      <4> QED BY <1>4, <2>1, <2>2, <3>3, <4>1 DEF Posted
    <3> QED BY <2>4, <3>2, <3>3 DEF SemreleaseHandoff, SemHandoff
  <2> QED BY <1>15, <2>3, <2>4
<1> QED BY <1>5, <1>6, <1>7, <1>8, <1>9, <1>10, <1>11, <1>12, <1>13, <1>14, <1>15
        DEF Next, LockStep, UnlockStep

\* The waiter count of the word is exact: lockSlow, unlockSlow and the handoff of
\* starvation mode count every sleeper in once and out once.
THEOREM WaitersCounted ==
    ASSUME IsFiniteSet(Goroutine)
    PROVE  Spec => []WaiterCount
<1>1. Init => WaiterCount
  <2> SUFFICES ASSUME Init PROVE WaiterCount
    OBVIOUS
  <2>1. Counted = {} /\ ~Posted /\ m.waiters = 0
    BY WordFields DEF Init, SemaInit, Counted, Posted, mSema, Zero
  <2>2. Cardinality(Counted) = 0
    BY <2>1, FS_EmptySet
  <2> QED BY <2>1, <2>2 DEF WaiterCount, Counted, Posted
<1>2. MutexInv /\ MutexInv' /\ WaiterCount /\ [Next]_vars => WaiterCount'
  BY NextKeepsCount
<1> QED BY <1>1, <1>2, MutexInvariant, PTL DEF Spec

-----------------------------------------------------------------------------
(* Mutex implements Locker *)

\* The owner of a mutex that exactly g holds.
LEMMA OwnerOne == ASSUME NEW g \in Goroutine  PROVE OwnerOf({g}) = g
<1>1. \A h : {g} = {h} <=> h = g OBVIOUS
<1>2. (CHOOSE h \in Goroutine : {g} = {h}) = g BY <1>1
<1>3. \E h \in Goroutine : {g} = {h} OBVIOUS
<1> QED BY <1>2, <1>3 DEF OwnerOf

\* A mutex has an owner exactly while it is locked.
LEMMA OwnerIffLocked ==
    ASSUME MutexInv
    PROVE  OwnerOf(Holders) # Nil <=> m.locked = 1
<1>1. CASE Holders = {} BY <1>1 DEF Holders, OwnerOf, MutexInv, OwnerInv
<1>2. CASE Holders # {}
  <2>1. PICK g \in Goroutine : pc[g] = "cs" BY <1>2 DEF Holders
  <2>2. Holders = {g} BY <2>1 DEF Holders, MutexInv, OwnerInv, MutualExclusion
  <2>3. OwnerOf(Holders) = g /\ g # Nil BY <2>2, OwnerOne, MutexAssumption
  <2> QED BY <2>1, <2>3 DEF MutexInv, OwnerInv
<1> QED BY <1>1, <1>2

\* A step that moves nobody into or out of the critical section.
LEMMA OwnerSame ==
    ASSUME \A h \in Goroutine : pc'[h] = "cs" <=> pc[h] = "cs"
    PROVE  OwnerOf(Holders)' = OwnerOf(Holders)
<1>1. Holders' = Holders BY DEF Holders
<1> QED BY <1>1 DEF OwnerOf

\* A step that moves nobody into or out of runtime_SemacquireMutex.
LEMMA RegisteredSame ==
    ASSUME \A h \in Goroutine : pc'[h] \in {"sleep", "woke", "grab"} <=> pc[h] \in {"sleep", "woke", "grab"}
    PROVE  Registered' = Registered
BY DEF Registered

\* A step that does neither and keeps the two bits of the word that matter.
LEMMA LockerSame ==
    ASSUME \A h \in Goroutine :
              \/ pc'[h] = pc[h]
              \/ /\ pc[h] \notin {"cs", "sleep", "woke", "grab"}
                 /\ pc'[h] \notin {"cs", "sleep", "woke", "grab"}
              \/ pc[h] \in {"sleep", "woke", "grab"} /\ pc'[h] \in {"sleep", "woke", "grab"},
           m'.starving = m.starving, m'.locked = m.locked
    PROVE  UNCHANGED L!vars
<1>1. OwnerOf(Holders)' = OwnerOf(Holders) BY OwnerSame
<1>2. Registered' = Registered BY RegisteredSame
<1>3. Reserved' = Reserved BY DEF Reserved
<1> QED BY <1>1, <1>2, <1>3 DEF L!vars

\* A step that brings g into a critical section that is empty and not reserved.
LEMMA OwnerEnters ==
    ASSUME MutexInv, MutexInv', NEW g \in Goroutine, ~Held(m), m'.starving = 0,
           pc' = [pc EXCEPT ![g] = "cs"], pc[g] \in {"idle", "try", "trylock"}
    PROVE  L!Next
<1> USE DEF MutexInv, TypeOK
<1>1. Holders = {} BY WordRange DEF Holders, OwnerInv, Held
<1>2. Holders' = {g} BY DEF Holders, OwnerInv, MutualExclusion
<1>3. OwnerOf(Holders) = Nil /\ OwnerOf(Holders)' = g
  BY <1>1, <1>2, OwnerOne DEF OwnerOf
<1>4. Registered' = Registered BY RegisteredSame
<1>5. ~Reserved /\ Reserved' = Reserved BY DEF Reserved, Held
<1>6. L!Acquire(g) BY <1>3, <1>4, <1>5 DEF L!Acquire
<1> QED BY <1>6 DEF L!Next

\* lockSlow counts g as a waiter: the mutex is held, or kept for the waiters.
LEMMA WaiterRegisters ==
    ASSUME MutexInv, MutexInv', NEW g \in Goroutine,
           pc[g] = "try", Held(m), m = old[g], m' = NewWord(g), Goto(g, "sleep")
    PROVE  L!Next
<1> USE DEF MutexInv, TypeOK
<1>1. m'.locked = (IF m.starving = 0 THEN 1 ELSE m.locked)
      /\ m'.starving = (IF starving[g] /\ m.locked = 1 THEN 1 ELSE m.starving)
  BY WordFields DEF NewWord
<1>2. OwnerOf(Holders)' = OwnerOf(Holders) BY OwnerSame DEF Goto
<1>3. Reserved' = Reserved BY <1>1, WordRange DEF Reserved, Held
<1>4. Registered' = Registered \cup {g} BY DEF Registered, Goto
<1>5. OwnerOf(Holders) # Nil \/ Reserved BY OwnerIffLocked, WordRange DEF Reserved, Held
<1> QED BY <1>2, <1>3, <1>4, <1>5 DEF L!Next, L!Register

\* A mutex in starvation mode has a registered waiter to be kept for.
LEMMA StarvingHasWaiter ==
    ASSUME IsFiniteSet(Goroutine), MutexInv, WaiterCount, m.starving = 1
    PROVE  Registered # {}
<1>1. Registered = Counted BY DEF Registered, Counted
<1>2. Cardinality(Counted) = m.waiters
  <2>1. m.waiters \in Nat BY WordRange DEF MutexInv, TypeOK
  <2>2. Cardinality(Counted) = m.waiters + 0 BY DEF WaiterCount, Counted
  <2> QED BY <2>1, <2>2
<1>3. m.waiters >= 1 BY DEF MutexInv, StarvationInv
<1>4. Cardinality({}) = 0 BY FS_EmptySet
<1> QED BY <1>1, <1>2, <1>3, <1>4

\* Unlock frees the mutex, or keeps it for the waiters.
LEMMA UnlockSimulates ==
    ASSUME IsFiniteSet(Goroutine), MutexInv, MutexInv', WaiterCount, NEW g \in Goroutine, Unlock(g)
    PROVE  L!Next
<1> USE DEF MutexInv, TypeOK
<1>1. Holders = {g} BY DEF Unlock, Holders, OwnerInv, MutualExclusion
<1>2. Holders' = {} BY <1>1 DEF Unlock, Goto, Holders
<1>3. OwnerOf(Holders) = g /\ OwnerOf(Holders)' = Nil BY <1>1, <1>2, OwnerOne DEF OwnerOf
<1>4. Registered' = Registered BY RegisteredSame DEF Unlock, Goto
<1>5. m.locked = 1 /\ m'.locked = 0 /\ m'.starving = m.starving
  BY <1>2, WordFields, WordRange DEF Unlock, OwnerInv, Holders
<1>6. CASE m.starving = 1
  <2>1. Reserved' BY <1>5, <1>6 DEF Reserved
  <2> QED BY <1>3, <1>4, <1>6, <2>1, StarvingHasWaiter DEF L!Next, L!Handoff
<1>7. CASE m.starving # 1
  <2>1. Reserved' = Reserved BY <1>5, <1>7 DEF Reserved
  <2> QED BY <1>3, <1>4, <2>1 DEF L!Next, L!Release
<1> QED BY <1>6, <1>7

\* Every step of the code is a step of Locker or leaves its variables alone.
LEMMA StepSimulates ==
    ASSUME IsFiniteSet(Goroutine), MutexInv, MutexInv', WaiterCount, [Next]_vars
    PROVE  [L!Next]_(L!vars)
<1> USE DEF MutexInv, TypeOK
<1>1. CASE UNCHANGED vars BY <1>1, LockerSame DEF vars
<1>2. ASSUME NEW g \in Goroutine, Lock(g)  PROVE [L!Next]_(L!vars)
  <2>1. CASE m = Zero /\ m' = MkWord(1, m.woken, m.starving, m.waiters) /\ Goto(g, "cs")
    <3>1. ~Held(m) /\ m'.starving = 0 BY <2>1, WordFields DEF Zero, Held
    <3> QED BY <1>2, <2>1, <3>1, OwnerEnters DEF Lock, Goto
  <2>2. CASE Goto(g, "load") /\ UNCHANGED m BY <1>2, <2>2, LockerSame DEF Lock, Goto
  <2> QED BY <1>2, <2>1, <2>2 DEF Lock
<1>3. ASSUME NEW g \in Goroutine, CompareAndSwap(g)  PROVE [L!Next]_(L!vars)
  <2>1. CASE m = old[g] /\ m' = NewWord(g) /\ ~Held(old[g]) /\ Leave(g, "cs")
    <3>1. ~Held(m) BY <2>1
    <3>2. m'.starving = 0 BY <2>1, WordFields, WordRange DEF NewWord, Held
    <3> QED BY <1>3, <2>1, <3>1, <3>2, OwnerEnters DEF CompareAndSwap, Leave, Goto
  <2>2. CASE m = old[g] /\ m' = NewWord(g) /\ Held(old[g]) /\ Goto(g, "sleep")
    BY <1>3, <2>2, WaiterRegisters DEF CompareAndSwap
  <2>3. CASE (Goto(g, "throw") \/ Goto(g, "load")) /\ UNCHANGED m
    BY <1>3, <2>3, LockerSame DEF CompareAndSwap, Goto
  <2> QED BY <1>3, <2>1, <2>2, <2>3 DEF CompareAndSwap
<1>4. ASSUME NEW g \in Goroutine, TryLockCAS(g)  PROVE [L!Next]_(L!vars)
  <2>1. CASE m = old[g] /\ m' = MkWord(1, m.woken, m.starving, m.waiters) /\ Leave(g, "cs")
    <3>1. ~Held(m) BY <1>4, <2>1 DEF TryLockCAS, LocalInv
    <3>2. m'.starving = 0 BY <2>1, <3>1, WordFields, WordRange DEF Held
    <3> QED BY <1>4, <2>1, <3>1, <3>2, OwnerEnters DEF TryLockCAS, Leave, Goto
  <2>2. CASE UNCHANGED m /\ Leave(g, "idle") BY <1>4, <2>2, LockerSame DEF TryLockCAS, Leave, Goto
  <2> QED BY <1>4, <2>1, <2>2 DEF TryLockCAS
<1>5. ASSUME NEW g \in Goroutine, Grab(g)  PROVE [L!Next]_(L!vars)
  <2>1. m.starving = 1 /\ Carries(g) BY <1>5 DEF Grab, StarvationInv, Carries
  <2>2. m.locked = 0 BY <2>1 DEF SingleWakeup, WakeupUnderWay, WakeupAnnounced
  <2>3. pc'[g] = "cs" BY <1>5 DEF Grab, Leave, Goto
  <2>4. Holders' = {g} BY <2>3 DEF Holders, OwnerInv, MutualExclusion
  <2>5. OwnerOf(Holders)' = g BY <2>4, OwnerOne
  <2>6. Registered' = Registered \ {g} /\ g \in Registered BY <1>5 DEF Registered, Grab, Leave, Goto
  <2>7. m'.locked = 1 BY <2>3 DEF OwnerInv
  <2>8. Reserved /\ ~Reserved' BY <2>1, <2>2, <2>7 DEF Reserved
  <2> QED BY <2>5, <2>6, <2>8 DEF L!Next, L!Take
<1>6. ASSUME NEW g \in Goroutine, Unlock(g)  PROVE [L!Next]_(L!vars)
  BY <1>6, UnlockSimulates
<1>7. ASSUME NEW g \in Goroutine, NEW h \in Goroutine, Pass(g, h)
      PROVE  [L!Next]_(L!vars)
  <2>1. Holders = {g} BY <1>7 DEF Pass, Holders, OwnerInv, MutualExclusion
  <2>2. Holders' = {h} BY <1>7, <2>1 DEF Pass, Holders
  <2>3. OwnerOf(Holders) = g /\ OwnerOf(Holders)' = h BY <2>1, <2>2, OwnerOne
  <2>4. Registered' = Registered BY <1>7, RegisteredSame DEF Pass
  <2>5. Reserved' = Reserved BY <1>7 DEF Pass, Reserved
  <2>6. h \notin Registered BY <1>7 DEF Pass, Registered
  <2> QED BY <2>3, <2>4, <2>5, <2>6 DEF L!Next, L!Transfer
<1>8. ASSUME NEW g \in Goroutine, NEW late \in BOOLEAN, Woke(g, late)  PROVE [L!Next]_(L!vars)
  <2>1. CASE m.starving = 1 BY <1>8, <2>1, LockerSame DEF Woke, Goto, NoThrow
  <2>2. CASE m.starving = 0
    <3>1. OwnerOf(Holders)' = OwnerOf(Holders) BY <1>8, OwnerSame DEF Woke, Goto
    <3>2. Registered' = Registered \ {g} /\ g \in Registered
      BY <1>8, <2>2 DEF Woke, Goto, Registered
    <3>3. ~Reserved /\ Reserved' = Reserved BY <1>8, <2>2 DEF Woke, Reserved
    <3> QED BY <3>1, <3>2, <3>3 DEF L!Next, L!Withdraw
  <2> QED BY <1>8, <2>1, <2>2 DEF Woke
<1>9. ASSUME NEW g \in Goroutine, Spin(g) \/ UnlockSlow(g)  PROVE [L!Next]_(L!vars)
  <2>1. m'.starving = m.starving /\ m'.locked = m.locked
    BY <1>9, WordFields DEF Spin, UnlockSlow
  <2> QED BY <1>9, <2>1, LockerSame DEF Spin, UnlockSlow, Leave, Goto
<1>10. ASSUME NEW g \in Goroutine,
              \/ Load(g) \/ Sleep(g) \/ TryLockLoad(g) \/ UnlockReload(g)
              \/ Semrelease(g) \/ SemreleaseDequeue(g) \/ SemreleaseHandoff(g)
       PROVE  [L!Next]_(L!vars)
  BY <1>10, LockerSame DEF Load, Sleep, TryLockLoad, UnlockReload, Goto,
       Semrelease, SemreleaseDequeue, SemreleaseHandoff, SemReturn
<1> QED BY <1>1, <1>2, <1>3, <1>4, <1>5, <1>6, <1>7, <1>8, <1>9, <1>10 DEF Next, LockStep, UnlockStep

\* A Mutex used through Lock, TryLock and Unlock behaves as a Locker, for any finite
\* number of goroutines: one owner at most, and a mutex that Unlock leaves in
\* starvation mode is taken by a registered waiter before anybody else gets it.
THEOREM MutexIsLocker ==
    ASSUME IsFiniteSet(Goroutine)
    PROVE  Spec => ImplementsLocker
<1>1. Init => L!Init
  <2> SUFFICES ASSUME Init  PROVE OwnerOf(Holders) = Nil /\ ~Reserved /\ Registered = {}
    BY DEF L!Init, Reserved
  <2>1. Holders = {} /\ Registered = {} BY DEF Init, Holders, Registered
  <2>2. ~Reserved BY WordFields DEF Init, Reserved, Zero
  <2> QED BY <2>1, <2>2 DEF OwnerOf
<1>2. MutexInv /\ MutexInv' /\ WaiterCount /\ [Next]_vars => [L!Next]_(L!vars) BY StepSimulates
<1> QED BY <1>1, <1>2, MutexInvariant, WaitersCounted, PTL DEF Spec, L!Spec, ImplementsLocker

=============================================================================
