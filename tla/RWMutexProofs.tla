---------------------------- MODULE RWMutexProofs ----------------------------
(***************************************************************************)
(* What holds of RWMutex for every number of goroutines below               *)
(* rwmutexMaxReaders: mutual exclusion, and that the two counters and the   *)
(* units posted to the two semaphores are exact.                            *)
(*                                                                         *)
(* The three are proved together.  A writer is excluded by a counter that   *)
(* it only subtracts from, so exclusion needs DrainInv, which counts the    *)
(* readers that were let in but have not taken their unit yet; that count   *)
(* is right because Unlock posts as many units as readers are blocked       *)
(* (QuietInv), which in turn needs that rw.w keeps the next writer out      *)
(* until the last unit is posted (OwnerInv).                                *)
(***************************************************************************)
EXTENDS RWMutex, FiniteSetTheorems, TLAPS

-----------------------------------------------------------------------------
(* How a count changes when one element joins or leaves *)

\* A part of a finite set has a number of elements, zero only if it is empty.
LEMMA CountNat ==
    ASSUME NEW G, IsFiniteSet(G), NEW S \in SUBSET G
    PROVE  IsFiniteSet(S) /\ Cardinality(S) \in Nat /\ (Cardinality(S) = 0 <=> S = {})
  BY FS_Subset, FS_CardinalityType, FS_EmptySet

\* One element joins.
LEMMA CountJoin ==
    ASSUME NEW S, IsFiniteSet(S), NEW x, x \notin S, NEW T, T = S \cup {x}
    PROVE  IsFiniteSet(T) /\ Cardinality(T) = Cardinality(S) + 1
  BY FS_AddElement

\* One element leaves.
LEMMA CountLeave ==
    ASSUME NEW S, IsFiniteSet(S), NEW x, x \in S, NEW T, T = S \ {x}
    PROVE  IsFiniteSet(T) /\ Cardinality(T) = Cardinality(S) - 1
  BY FS_RemoveElement

\* The pairs of one x with the numbers 1 to k are k.
LEMMA CountPairs ==
    ASSUME NEW x, NEW k \in Nat
    PROVE  IsFiniteSet({x} \X (1..k)) /\ Cardinality({x} \X (1..k)) = k
<1>1. IsFiniteSet({x}) /\ Cardinality({x}) = 1
  BY FS_Singleton
<1>2. IsFiniteSet(1..k) /\ Cardinality(1..k) = k
  BY FS_Interval
<1>3. /\ IsFiniteSet({x} \X (1..k))
      /\ Cardinality({x} \X (1..k)) = Cardinality({x}) * Cardinality(1..k)
  BY <1>1, <1>2, FS_Product, Zenon
<1>4. Cardinality({x}) * Cardinality(1..k) = 1 * k
  BY <1>1, <1>2, Zenon
<1>5. 1 * k = k
  OBVIOUS
<1> QED BY <1>3, <1>4, <1>5, Zenon

\* Disjoint sets add up.
LEMMA CountDisjoint ==
    ASSUME NEW S, IsFiniteSet(S), NEW T, IsFiniteSet(T), S \cap T = {}
    PROVE  IsFiniteSet(S \cup T) /\ Cardinality(S \cup T) = Cardinality(S) + Cardinality(T)
  BY FS_Union, FS_EmptySet, FS_CardinalityType

-----------------------------------------------------------------------------
(* The inductive invariant *)

\* Readers that hold the lock, that are blocked, and that leave through rUnlockSlow.
Active == Cardinality(At({"reading"}))
Blocked == Cardinality(At({"rwait"}))
Leaving == Cardinality(At({"rslow"}))

\* The parts of a writer's life in which it has rw.w: the loop that wakes the
\* readers is one of them.
Owns(g) ==
    \/ pc[g] \in {"announce", "drain", "wwait", "writing", "trylock", "wunlock"}
    \/ pc[g] \in {"release", "dequeue"} /\ addr[g] = readerSem

OwnerInv == \A g \in Goroutine : Owns(g) <=> w = g

\* Nobody is handed a unit directly.
SudogInv == \A g \in Goroutine : sudog[g] \in {"none", "queued"}

\* The loop around runtime_Semrelease; rUnlockSlow posts one unit.
LoopInv ==
    \A g \in Goroutine : pc[g] \in {"release", "dequeue"} =>
        n[g] >= 1 /\ (addr[g] = writerSem => n[g] = 1)

CountInv ==
    readerCount = Active + Blocked - (IF Pending # {} THEN rwmutexMaxReaders ELSE 0)

\* Without a pending writer nobody leaves slowly, and the blocked readers are the
\* ones that have a unit coming.
QuietInv ==
    Pending = {} => /\ Leaving = 0 /\ readerWait = 0
                    /\ Blocked = sema[readerSem] + Cardinality(Due)

\* A pending writer waits for those who are inside.  Until it has raised readerWait
\* that counter is not positive, so nobody mistakes itself for the last reader.
DrainInv ==
    \A g \in Goroutine :
        /\ pc[g] = "drain" => /\ readerWait + n[g] = Active + Leaving + sema[readerSem]
                              /\ readerWait <= 0
        /\ pc[g] = "wwait" => readerWait = Active + Leaving + sema[readerSem]
        /\ pc[g] = "writing" => readerWait = 0 /\ Active + Leaving + sema[readerSem] = 0

IInv ==
    /\ TypeOK
    /\ NoFatal
    /\ OwnerInv
    /\ SudogInv
    /\ LoopInv
    /\ CountInv
    /\ QuietInv
    /\ DrainInv
    /\ WriterWakeup

-----------------------------------------------------------------------------
(* Counting *)

\* A goroutine that moves leaves one set and joins another.
LEMMA Move ==
    ASSUME NEW g \in Goroutine, \A x \in Goroutine : x # g => pc'[x] = pc[x], NEW CONSTANT S
    PROVE  Cardinality(At(S)') = Cardinality(At(S)) + (IF pc'[g] \in S THEN 1 ELSE 0)
                                                    - (IF pc[g] \in S THEN 1 ELSE 0)
<1>1. IsFiniteSet(At(S)) /\ Cardinality(At(S)) \in Nat
  BY RWMutexAssumption, CountNat DEF At
<1>2. CASE pc'[g] \in S /\ pc[g] \notin S
  <2>1. At(S)' = At(S) \cup {g} /\ g \notin At(S)
    BY <1>2 DEF At
  <2> QED BY <1>1, <1>2, <2>1, CountJoin
<1>3. CASE pc'[g] \notin S /\ pc[g] \in S
  <2>1. At(S)' = At(S) \ {g} /\ g \in At(S)
    BY <1>3 DEF At
  <2> QED BY <1>1, <1>3, <2>1, CountLeave
<1>4. CASE pc'[g] \in S <=> pc[g] \in S
  <2>1. At(S)' = At(S)
    BY <1>4 DEF At
  <2> QED BY <1>1, <1>4, <2>1
<1> QED BY <1>2, <1>3, <1>4

\* The readers when a goroutine moves.
LEMMA MoveReaders ==
    ASSUME NEW g \in Goroutine, \A x \in Goroutine : x # g => pc'[x] = pc[x]
    PROVE  /\ Active' = Active + (IF pc'[g] = "reading" THEN 1 ELSE 0)
                               - (IF pc[g] = "reading" THEN 1 ELSE 0)
           /\ Blocked' = Blocked + (IF pc'[g] = "rwait" THEN 1 ELSE 0)
                                 - (IF pc[g] = "rwait" THEN 1 ELSE 0)
           /\ Leaving' = Leaving + (IF pc'[g] = "rslow" THEN 1 ELSE 0)
                                 - (IF pc[g] = "rslow" THEN 1 ELSE 0)
<1>1. Cardinality(At({"reading"})') = Cardinality(At({"reading"}))
          + (IF pc'[g] \in {"reading"} THEN 1 ELSE 0) - (IF pc[g] \in {"reading"} THEN 1 ELSE 0)
  BY Move
<1>2. Cardinality(At({"rwait"})') = Cardinality(At({"rwait"}))
          + (IF pc'[g] \in {"rwait"} THEN 1 ELSE 0) - (IF pc[g] \in {"rwait"} THEN 1 ELSE 0)
  BY Move
<1>3. Cardinality(At({"rslow"})') = Cardinality(At({"rslow"}))
          + (IF pc'[g] \in {"rslow"} THEN 1 ELSE 0) - (IF pc[g] \in {"rslow"} THEN 1 ELSE 0)
  BY Move
<1> QED BY <1>1, <1>2, <1>3 DEF Active, Blocked, Leaving

\* Disjoint sets of goroutines are together no more than all.
LEMMA TwoKinds ==
    ASSUME NEW A \in SUBSET Goroutine, NEW B \in SUBSET Goroutine, A \cap B = {}
    PROVE  /\ Cardinality(A) \in Nat /\ Cardinality(B) \in Nat
           /\ Cardinality(A \cup B) = Cardinality(A) + Cardinality(B)
           /\ Cardinality(A) + Cardinality(B) < rwmutexMaxReaders
<1>1. IsFiniteSet(Goroutine) /\ Cardinality(Goroutine) \in Nat
  BY RWMutexAssumption, FS_CardinalityType
<1>2. /\ IsFiniteSet(A) /\ IsFiniteSet(B)
      /\ Cardinality(A) \in Nat /\ Cardinality(B) \in Nat
  BY <1>1, CountNat
<1>3. Cardinality(A \cup B) = Cardinality(A) + Cardinality(B)
  BY <1>2, CountDisjoint
<1>4. A \cup B \in SUBSET Goroutine
  OBVIOUS
<1>5. Cardinality(A \cup B) <= Cardinality(Goroutine)
  BY <1>1, <1>4, FS_Subset
<1> QED BY <1>1, <1>2, <1>3, <1>5, RWMutexAssumption

\* The numbers of readers, before and after a step.
LEMMA ReaderNumbers ==
    /\ Active \in Nat /\ Blocked \in Nat /\ Leaving \in Nat
    /\ Active' \in Nat /\ Blocked' \in Nat /\ Leaving' \in Nat
    /\ Active + Blocked < rwmutexMaxReaders /\ Active' + Blocked' < rwmutexMaxReaders
    /\ Cardinality(At({"reading", "rwait"})) = Active + Blocked
    /\ Cardinality(At({"reading", "rslow"})) = Active + Leaving
    /\ Active = 0 <=> At({"reading"}) = {}
    /\ Leaving = 0 <=> At({"rslow"}) = {}
    /\ rwmutexMaxReaders \in Nat
<1>1. /\ At({"reading"}) \in SUBSET Goroutine /\ At({"rwait"}) \in SUBSET Goroutine
      /\ At({"rslow"}) \in SUBSET Goroutine
      /\ At({"reading"})' \in SUBSET Goroutine /\ At({"rwait"})' \in SUBSET Goroutine
      /\ At({"rslow"})' \in SUBSET Goroutine
  BY DEF At
<1>2. /\ At({"reading"}) \cap At({"rwait"}) = {} /\ At({"reading"}) \cap At({"rslow"}) = {}
      /\ At({"reading"})' \cap At({"rwait"})' = {} /\ At({"reading"})' \cap At({"rslow"})' = {}
  BY DEF At
<1>3. /\ At({"reading", "rwait"}) = At({"reading"}) \cup At({"rwait"})
      /\ At({"reading", "rslow"}) = At({"reading"}) \cup At({"rslow"})
  BY DEF At
<1>4. /\ Active = 0 <=> At({"reading"}) = {}
      /\ Leaving = 0 <=> At({"rslow"}) = {}
  BY <1>1, RWMutexAssumption, CountNat DEF Active, Leaving
<1> QED BY <1>1, <1>2, <1>3, <1>4, TwoKinds, RWMutexAssumption DEF Active, Blocked, Leaving

\* What an Unlock has still to post.
LEMMA DueFinite == IsFiniteSet(Due) /\ Cardinality(Due) \in Nat /\ Cardinality(Goroutine) \in Nat
<1>1. IsFiniteSet(Goroutine) /\ Cardinality(Goroutine) \in Nat
  BY RWMutexAssumption, FS_CardinalityType
<1>2. IsFiniteSet(1..Cardinality(Goroutine))
  BY <1>1, FS_Interval
<1>3. IsFiniteSet(Goroutine \X (1..Cardinality(Goroutine)))
  BY <1>1, <1>2, FS_Product, Zenon
<1>4. Due \in SUBSET (Goroutine \X (1..Cardinality(Goroutine)))
  BY DEF Due
<1> QED BY <1>1, <1>3, <1>4, CountNat, Zenon

\* Nothing becomes due and nothing is posted.
LEMMA DueStays ==
    ASSUME \A x \in Goroutine : Unposted(x)' = Unposted(x)
    PROVE  Due' = Due
  BY DEF Due

\* Unlock is the only one to post, so what is due is what it has counted.
LEMMA DueBegins ==
    ASSUME NEW g \in Goroutine, NEW k \in 0..Cardinality(Goroutine), Unposted(g)' = k,
           \A x \in Goroutine : x # g => Unposted(x)' = 0
    PROVE  Cardinality(Due') = k
<1>1. Cardinality(Goroutine) \in Nat
  BY DueFinite
<1>2. Due' = {g} \X (1..k)
  BY <1>1 DEF Due
<1>3. k \in Nat
  BY <1>1
<1>4. Cardinality({g} \X (1..k)) = k
  BY <1>3, CountPairs
<1> QED BY <1>2, <1>4

\* A unit is posted.
LEMMA DueLoses ==
    ASSUME NEW g \in Goroutine, NEW k \in 1..Cardinality(Goroutine),
           Unposted(g) = k, Unposted(g)' = k - 1,
           \A x \in Goroutine : x # g => Unposted(x)' = Unposted(x)
    PROVE  Cardinality(Due') = Cardinality(Due) - 1
<1>1. Cardinality(Goroutine) \in Nat
  BY DueFinite
<1>2. Due' = Due \ {<<g, k>>}
  BY <1>1 DEF Due
<1>3. <<g, k>> \in Due
  BY <1>1 DEF Due
<1> QED BY <1>2, <1>3, CountLeave, DueFinite

\* Nothing is due while no owner of rw.w posts.
LEMMA NothingDue ==
    ASSUME \A x \in Goroutine : Unposted(x) = 0
    PROVE  Cardinality(Due) = 0
<1>1. Due = {}
  BY DueFinite DEF Due
<1> QED BY <1>1, FS_EmptySet

\* While g has rw.w nobody else is pending or posts.
LEMMA OwnerAlone ==
    ASSUME TypeOK, OwnerInv, NEW g \in Goroutine, Owns(g)
    PROVE  /\ \A x \in Goroutine : x # g => ~Owns(x)
           /\ \A x \in Goroutine : x # g => Unposted(x) = 0
           /\ Pending = IF pc[g] \in {"drain", "wwait", "writing"} THEN {g} ELSE {}
<1>1. \A x \in Goroutine : x # g => ~Owns(x)
  BY DEF OwnerInv
<1>2. \A x \in Goroutine : x # g => Unposted(x) = 0
  BY <1>1 DEF Owns, Unposted
<1>3. \A x \in Goroutine : x # g => pc[x] \notin {"drain", "wwait", "writing"}
  BY <1>1 DEF Owns
<1> QED BY <1>1, <1>2, <1>3 DEF Pending, At

\* Going to sleep touches neither a count nor a counter.
LEMMA SleepKeeps ==
    ASSUME IInv, NEW g \in Goroutine, NEW a \in {readerSem, writerSem}, SemSleep(g, a, FALSE),
           UNCHANGED <<w, readerCount, readerWait, pc, n, addr>>
    PROVE  IInv'
<1> USE DEF IInv
<1>1. /\ sema' = sema /\ waitq' = [waitq EXCEPT ![a] = Append(waitq[a], g)]
      /\ sudog' = [sudog EXCEPT ![g] = "queued"]
  BY DEF SemSleep, Enqueue
<1>2. Append(waitq[a], g) \in Seq(Goroutine)
  BY DEF TypeOK, SemaTypeOK
<1>3. TypeOK'
  BY <1>1, <1>2 DEF TypeOK, SemaTypeOK, SudogState
<1>4. SudogInv'
  BY <1>1 DEF SudogInv, TypeOK, SemaTypeOK
<1>5. Active' = Active /\ Blocked' = Blocked /\ Leaving' = Leaving /\ Pending' = Pending
  BY DEF Active, Blocked, Leaving, Pending, At
<1>6. Due' = Due
  BY DueStays DEF Unposted
<1>7. NoFatal' /\ OwnerInv' /\ LoopInv'
  BY DEF NoFatal, At, OwnerInv, Owns, LoopInv
<1>8. CountInv' /\ QuietInv' /\ DrainInv'
  BY <1>1, <1>5, <1>6 DEF CountInv, QuietInv, DrainInv
<1>9. WriterWakeup'
  BY <1>1 DEF WriterWakeup, At
<1> QED BY <1>3, <1>4, <1>7, <1>8, <1>9

\* Without tickets, runtime_Semacquire returns with a unit of the count.
LEMMA AcquireTakes ==
    ASSUME TypeOK, SudogInv, NEW g \in Goroutine, NEW a \in {readerSem, writerSem},
           SemAcquired(g, a)
    PROVE  /\ sema[a] > 0 /\ sema' = [sema EXCEPT ![a] = sema[a] - 1]
           /\ UNCHANGED <<waitq, sudog>>
<1>1. sudog[g] = "none"
  BY DEF SudogInv, SemAcquired
<1>2. sudog' = sudog
  BY <1>1 DEF SemAcquired, TypeOK, SemaTypeOK
<1> QED BY <1>1, <1>2 DEF SemAcquired, cansemacquire

-----------------------------------------------------------------------------
(* Readers *)

\* Who is about to post a unit of writerSem.
Posting == {g \in At({"release"}) : addr[g] = writerSem}

\* What WriterWakeup says with the writer semaphore named.
LEMMA WakeupMeans ==
    /\ WriterWakeup <=> sema[writerSem] + Cardinality(Posting)
                            = IF At({"wwait"}) # {} /\ readerWait = 0 THEN 1 ELSE 0
    /\ WriterWakeup' <=> sema'[writerSem] + Cardinality(Posting')
                            = IF At({"wwait"})' # {} /\ readerWait' = 0 THEN 1 ELSE 0
  BY DEF WriterWakeup, Posting

Outside == {"idle", "reading", "rwait", "rslow", "wlock"}

\* A goroutine without rw.w that does not post moves.
LEMMA MoveOutside ==
    ASSUME IInv, NEW g \in Goroutine, pc[g] \in Outside, NEW CONSTANT l \in Outside,
           pc' = [pc EXCEPT ![g] = l], UNCHANGED <<w, n, addr>>
    PROVE  /\ NoFatal' /\ OwnerInv' /\ LoopInv'
           /\ Pending' = Pending /\ Due' = Due /\ Posting' = Posting
           /\ At({"wwait"})' = At({"wwait"})
           /\ \A x \in Goroutine : \A s \in {"drain", "wwait", "writing"} : pc'[x] = s <=> pc[x] = s
<1> USE DEF IInv, Outside
<1>1. \A x \in Goroutine : pc'[x] = IF x = g THEN l ELSE pc[x]
  BY DEF TypeOK
<1>2. NoFatal' /\ OwnerInv' /\ LoopInv'
  BY <1>1 DEF NoFatal, At, OwnerInv, Owns, LoopInv
<1>3. Pending' = Pending /\ Posting' = Posting /\ At({"wwait"})' = At({"wwait"})
  BY <1>1 DEF Pending, Posting, At
<1>4. \A x \in Goroutine : Unposted(x)' = Unposted(x)
  BY <1>1 DEF Unposted
<1>5. Due' = Due
  BY <1>4, DueStays
<1> QED BY <1>1, <1>2, <1>3, <1>5

\* RLock: readerCount tells whether a writer is pending, as there are fewer readers
\* than rwmutexMaxReaders.
LEMMA RLockKeeps == ASSUME IInv, NEW g \in Goroutine, RLock(g) \/ TryRLock(g)  PROVE IInv'
<1> USE DEF IInv
<1> PICK l \in {"rwait", "reading"} :
        /\ pc[g] = "idle" /\ pc' = [pc EXCEPT ![g] = l] /\ readerCount' = readerCount + 1
        /\ IF readerCount + 1 < 0 THEN l = "rwait" ELSE l = "reading"
        /\ UNCHANGED <<w, readerWait, n, addr, sema, waitq, sudog>>
  <2>1. readerCount \in Int
    BY DEF TypeOK
  <2> QED BY <2>1 DEF RLock, TryRLock, Goto, sem
<1>1. TypeOK'
  BY DEF TypeOK, SemaTypeOK, PC
<1>2. /\ NoFatal' /\ OwnerInv' /\ LoopInv'
      /\ Pending' = Pending /\ Due' = Due /\ Posting' = Posting
      /\ At({"wwait"})' = At({"wwait"})
      /\ \A x \in Goroutine : \A s \in {"drain", "wwait", "writing"} : pc'[x] = s <=> pc[x] = s
  BY MoveOutside DEF Outside
<1>3. /\ Active' = Active + (IF l = "reading" THEN 1 ELSE 0)
      /\ Blocked' = Blocked + (IF l = "rwait" THEN 1 ELSE 0)
      /\ Leaving' = Leaving
  <2>1. Active \in Int /\ Blocked \in Int /\ Leaving \in Int
    BY ReaderNumbers
  <2>2. pc'[g] = l /\ \A x \in Goroutine : x # g => pc'[x] = pc[x]
    BY DEF TypeOK
  <2> QED BY <2>1, <2>2, MoveReaders
<1>4. l = IF Pending # {} THEN "rwait" ELSE "reading"
  BY <1>3, ReaderNumbers DEF CountInv
<1>5. CountInv'
  BY <1>2, <1>3, ReaderNumbers DEF CountInv
<1>6. QuietInv'
  BY <1>2, <1>3, <1>4, ReaderNumbers DEF QuietInv
<1>7. DrainInv'
  <2>1. \A x \in Goroutine : pc[x] \in {"drain", "wwait", "writing"} => Active' = Active
    BY <1>3, <1>4, ReaderNumbers DEF Pending, At
  <2> QED BY <1>2, <1>3, <2>1 DEF DrainInv
<1>8. WriterWakeup'
  BY <1>2, WakeupMeans
<1> QED BY <1>1, <1>2, <1>5, <1>6, <1>7, <1>8 DEF SudogInv

\* A blocked reader goes to sleep, or takes its unit: it was counted as inside before.
LEMMA RWaitKeeps == ASSUME IInv, NEW g \in Goroutine, RWait(g)  PROVE IInv'
<1> USE DEF IInv
<1>1. pc[g] = "rwait" /\ UNCHANGED <<w, readerCount, readerWait, n, addr>>
  BY DEF RWait
<1>2. CASE SemSleep(g, readerSem, FALSE) /\ UNCHANGED pc
  BY <1>1, <1>2, SleepKeeps
<1>3. CASE SemAcquired(g, readerSem) /\ Goto(g, "reading")
  <2>1. /\ pc' = [pc EXCEPT ![g] = "reading"] /\ sema[readerSem] > 0
        /\ sema' = [sema EXCEPT ![readerSem] = sema[readerSem] - 1]
        /\ UNCHANGED <<waitq, sudog>>
    BY <1>3, AcquireTakes DEF Goto
  <2>2. /\ sema'[readerSem] = sema[readerSem] - 1 /\ sema'[writerSem] = sema[writerSem]
        /\ sema[readerSem] \in Nat
    BY <2>1 DEF TypeOK, SemaTypeOK, readerSem, writerSem
  <2>3. TypeOK'
    BY <1>1, <2>1, <2>2 DEF TypeOK, SemaTypeOK, PC
  <2>4. /\ NoFatal' /\ OwnerInv' /\ LoopInv'
        /\ Pending' = Pending /\ Due' = Due /\ Posting' = Posting
        /\ At({"wwait"})' = At({"wwait"})
        /\ \A x \in Goroutine : \A s \in {"drain", "wwait", "writing"} : pc'[x] = s <=> pc[x] = s
    BY <1>1, <2>1, MoveOutside DEF Outside
  <2>5. Active' = Active + 1 /\ Blocked' = Blocked - 1 /\ Leaving' = Leaving
    <3>1. Active \in Int /\ Blocked \in Int /\ Leaving \in Int
      BY ReaderNumbers
    <3>2. pc'[g] = "reading" /\ \A x \in Goroutine : x # g => pc'[x] = pc[x]
      BY <1>1, <2>1 DEF TypeOK
    <3> QED BY <1>1, <2>1, <3>1, <3>2, MoveReaders
  <2>6. CountInv'
    <3>1. Active' + Blocked' = Active + Blocked
      BY <2>5, ReaderNumbers
    <3>2. Pending' = Pending /\ readerCount' = readerCount
      BY <1>1, <2>4
    <3>3. readerCount = Active + Blocked - (IF Pending # {} THEN rwmutexMaxReaders ELSE 0)
      BY DEF CountInv
    <3>4. PICK d : d = IF Pending # {} THEN rwmutexMaxReaders ELSE 0
      OBVIOUS
    <3>5. d = IF Pending' # {} THEN rwmutexMaxReaders ELSE 0
      BY <3>2, <3>4
    <3>6. readerCount' = Active' + Blocked' - d
      <4>1. d \in Int
        BY <3>4, ReaderNumbers
      <4>2. readerCount = Active + Blocked - d
        BY <3>3, <3>4
      <4>3. \A a, b, x, y \in Int : x + y = a + b => x + y - d = a + b - d
        BY <4>1
      <4>4. Active \in Int /\ Blocked \in Int /\ Active' \in Int /\ Blocked' \in Int
        BY ReaderNumbers
      <4> HIDE DEF IInv
      <4>5. Active' + Blocked' - d = Active + Blocked - d
        BY <3>1, <4>3, <4>4
      <4> QED BY <3>2, <4>2, <4>5
    <3> QED BY <3>5, <3>6 DEF CountInv
  <2>7. QuietInv'
    BY <1>1, <2>2, <2>4, <2>5, ReaderNumbers, DueFinite DEF QuietInv
  <2>8. DrainInv'
    <3>1. Active' + Leaving' + sema'[readerSem] = Active + Leaving + sema[readerSem]
      BY <2>2, <2>5, ReaderNumbers
    <3> QED BY <1>1, <2>4, <3>1 DEF DrainInv
  <2>9. WriterWakeup'
    BY <1>1, <2>2, <2>4, WakeupMeans
  <2> QED BY <2>1, <2>3, <2>4, <2>6, <2>7, <2>8, <2>9 DEF SudogInv
<1> QED BY <1>2, <1>3 DEF RWait

\* RUnlock: a reader leaves at once, or in rUnlockSlow if a writer is pending.
LEMMA RUnlockKeeps == ASSUME IInv, NEW g \in Goroutine, RUnlock(g)  PROVE IInv'
<1> USE DEF IInv
<1>1. /\ pc[g] = "reading" /\ readerCount' = readerCount - 1
      /\ UNCHANGED <<w, readerWait, n, addr, sema, waitq, sudog>>
  BY DEF RUnlock, sem
<1>2. Active >= 1
  <2>1. Active # 0
    BY <1>1, ReaderNumbers DEF At
  <2> QED BY <2>1, ReaderNumbers
<1> PICK l \in {"idle", "rslow"} : /\ l = IF Pending # {} THEN "rslow" ELSE "idle"
                                  /\ pc' = [pc EXCEPT ![g] = l]
  <2>1. Pending = {} => readerCount - 1 >= 0
    BY <1>2, ReaderNumbers DEF CountInv
  <2>2. Pending # {} => /\ readerCount - 1 < 0
                        /\ readerCount # 0 /\ readerCount # -rwmutexMaxReaders
    BY <1>2, ReaderNumbers DEF CountInv
  <2>3. readerCount \in Int /\ (readerCount - 1) + 1 = readerCount
    BY DEF TypeOK
  <2>4. pc' = [pc EXCEPT ![g] = IF Pending # {} THEN "rslow" ELSE "idle"]
    <3>1. CASE Pending = {}
      <4>1. readerCount' >= 0 /\ readerCount' + 1 \notin {0, -rwmutexMaxReaders}
        BY <1>1, <2>1, <2>3, <3>1, ReaderNumbers
      <4>2. Goto(g, "idle")
        BY <4>1 DEF RUnlock
      <4> QED BY <3>1, <4>2 DEF Goto
    <3>2. CASE Pending # {}
      <4>1. ~(readerCount' >= 0) /\ readerCount' + 1 \notin {0, -rwmutexMaxReaders}
        BY <1>1, <2>2, <2>3, <3>2
      <4>2. Goto(g, "rslow")
        BY <4>1 DEF RUnlock
      <4> QED BY <3>2, <4>2 DEF Goto
    <3> QED BY <3>1, <3>2
  <2> QED BY <2>4
<1>3. TypeOK'
  BY <1>1 DEF TypeOK, SemaTypeOK, PC
<1>4. /\ NoFatal' /\ OwnerInv' /\ LoopInv'
      /\ Pending' = Pending /\ Due' = Due /\ Posting' = Posting
      /\ At({"wwait"})' = At({"wwait"})
      /\ \A x \in Goroutine : \A s \in {"drain", "wwait", "writing"} : pc'[x] = s <=> pc[x] = s
  BY <1>1, MoveOutside DEF Outside
<1>5. /\ Active' = Active - 1 /\ Blocked' = Blocked
      /\ Leaving' = Leaving + (IF Pending # {} THEN 1 ELSE 0)
  <2>1. Active \in Int /\ Blocked \in Int /\ Leaving \in Int
    BY ReaderNumbers
  <2>2. pc'[g] = l /\ \A x \in Goroutine : x # g => pc'[x] = pc[x]
    BY <1>1 DEF TypeOK
  <2> QED BY <1>1, <2>1, <2>2, MoveReaders
<1>6. CountInv'
  BY <1>1, <1>4, <1>5, ReaderNumbers DEF CountInv
<1>7. QuietInv'
  BY <1>1, <1>4, <1>5, ReaderNumbers DEF QuietInv
<1>8. DrainInv'
  <2>1. \A x \in Goroutine : pc[x] \in {"drain", "wwait", "writing"}
                                 => Active' + Leaving' = Active + Leaving
    BY <1>5, ReaderNumbers DEF Pending, At
  <2> QED BY <1>1, <1>4, <2>1 DEF DrainInv
<1>9. WriterWakeup'
  BY <1>1, <1>4, WakeupMeans
<1> QED BY <1>1, <1>3, <1>4, <1>6, <1>7, <1>8, <1>9 DEF SudogInv

\* rUnlockSlow: only the last reader of a writer that has raised readerWait brings it
\* to zero, and it wakes that writer.
LEMMA RUnlockSlowKeeps == ASSUME IInv, NEW g \in Goroutine, RUnlockSlow(g)  PROVE IInv'
<1> USE DEF IInv
<1>1. /\ pc[g] = "rslow" /\ readerWait' = readerWait - 1
      /\ UNCHANGED <<w, readerCount, sema, waitq, sudog>>
  BY DEF RUnlockSlow, sem
<1>2. Leaving >= 1
  <2>1. Leaving # 0
    BY <1>1, ReaderNumbers DEF At
  <2> QED BY <2>1, ReaderNumbers
<1>3. PICK h \in Goroutine : pc[h] \in {"drain", "wwait", "writing"}
  BY <1>2 DEF QuietInv, Pending, At
<1>4. /\ \A x \in Goroutine : x # h => pc[x] \notin {"drain", "wwait", "writing"}
      /\ Pending # {}
  BY <1>3 DEF OwnerInv, Owns, Pending, At
<1>5. sema[readerSem] \in Nat /\ sema[writerSem] \in Nat /\ readerWait \in Int
  BY DEF TypeOK, SemaTypeOK
<1>6. pc[h] # "writing"
  BY <1>2, <1>5, ReaderNumbers DEF DrainInv
<1>7. pc[h] = "drain" => readerWait <= 0 /\ readerWait + n[h] = Active + Leaving + sema[readerSem]
  BY DEF DrainInv
<1>8. pc[h] = "wwait" => readerWait = Active + Leaving + sema[readerSem] /\ readerWait >= 1
  BY <1>2, <1>5, ReaderNumbers DEF DrainInv
<1>9. IsFiniteSet(Posting) /\ Cardinality(Posting) \in Nat /\ (Cardinality(Posting) = 0 <=> Posting = {})
  BY RWMutexAssumption, CountNat DEF Posting, At
<1>10. CASE /\ readerWait' # 0 /\ Goto(g, "idle") /\ UNCHANGED <<n, addr>>
  <2>1. pc' = [pc EXCEPT ![g] = "idle"]
    BY <1>10 DEF Goto
  <2>2. TypeOK'
    BY <1>1, <1>10, <2>1 DEF TypeOK, SemaTypeOK, PC
  <2>3. /\ NoFatal' /\ OwnerInv' /\ LoopInv'
        /\ Pending' = Pending /\ Due' = Due /\ Posting' = Posting
        /\ At({"wwait"})' = At({"wwait"})
        /\ \A x \in Goroutine : \A s \in {"drain", "wwait", "writing"} : pc'[x] = s <=> pc[x] = s
    BY <1>1, <1>10, <2>1, MoveOutside DEF Outside
  <2>4. Active' = Active /\ Blocked' = Blocked /\ Leaving' = Leaving - 1
    <3>1. Active \in Int /\ Blocked \in Int /\ Leaving \in Int
      BY ReaderNumbers
    <3>2. pc'[g] = "idle" /\ \A x \in Goroutine : x # g => pc'[x] = pc[x]
      BY <1>1, <2>1 DEF TypeOK
    <3> QED BY <1>1, <2>1, <3>1, <3>2, MoveReaders
  <2>5. CountInv' /\ QuietInv'
    BY <1>1, <1>4, <2>3, <2>4 DEF CountInv, QuietInv
  <2>6. DrainInv'
    <3> SUFFICES ASSUME NEW x \in Goroutine, pc[x] \in {"drain", "wwait", "writing"}
                 PROVE  /\ pc[x] = "drain" => /\ readerWait' + n'[x] = Active' + Leaving' + sema'[readerSem]
                                              /\ readerWait' <= 0
                        /\ pc[x] = "wwait" => readerWait' = Active' + Leaving' + sema'[readerSem]
                        /\ pc[x] = "writing" => FALSE
      BY <2>3 DEF DrainInv
    <3>1. x = h
      BY <1>4
    <3>2. n[x] \in Int /\ n' = n
      BY <1>10, RWMutexAssumption, FS_CardinalityType DEF TypeOK
    <3> QED BY <1>1, <1>5, <1>6, <1>7, <1>8, <2>4, <3>1, <3>2, ReaderNumbers
  <2>7. WriterWakeup'
    <3>1. At({"wwait"}) # {} => readerWait # 0
      BY <1>3, <1>4, <1>8 DEF At
    <3> QED BY <1>1, <1>10, <2>3, <3>1, WakeupMeans
  <2> QED BY <1>1, <2>2, <2>3, <2>5, <2>6, <2>7 DEF SudogInv
<1>11. CASE /\ readerWait' = 0
            /\ n' = [n EXCEPT ![g] = 1] /\ addr' = [addr EXCEPT ![g] = writerSem]
            /\ Goto(g, "release")
  <2>1. pc' = [pc EXCEPT ![g] = "release"]
    BY <1>11 DEF Goto
  <2>2. pc[h] = "wwait" /\ h # g
    BY <1>1, <1>3, <1>5, <1>6, <1>7, <1>11
  <2>3. \A x \in Goroutine : pc'[x] = IF x = g THEN "release" ELSE pc[x]
    BY <2>1 DEF TypeOK
  <2>4. n'[g] = 1 /\ addr'[g] = writerSem
        /\ \A x \in Goroutine : x # g => n'[x] = n[x] /\ addr'[x] = addr[x]
    BY <1>11 DEF TypeOK
  <2>5. TypeOK'
    <3>1. 1 \in 0..Cardinality(Goroutine)
      <4>1. Cardinality(Goroutine) # 0 /\ Cardinality(Goroutine) \in Nat
        BY RWMutexAssumption, CountNat
      <4> QED BY <4>1
    <3> QED BY <1>1, <1>11, <2>1, <3>1 DEF TypeOK, SemaTypeOK, PC
  <2>6. NoFatal' /\ OwnerInv' /\ LoopInv'
    BY <1>1, <2>3, <2>4 DEF NoFatal, At, OwnerInv, Owns, LoopInv, readerSem, writerSem
  <2>7. Pending' = Pending /\ At({"wwait"})' # {}
    BY <1>1, <2>2, <2>3 DEF Pending, At
  <2>8. Active' = Active /\ Blocked' = Blocked /\ Leaving' = Leaving - 1
    <3>1. Active \in Int /\ Blocked \in Int /\ Leaving \in Int
      BY ReaderNumbers
    <3>2. pc'[g] = "release" /\ \A x \in Goroutine : x # g => pc'[x] = pc[x]
      BY <1>1, <2>1 DEF TypeOK
    <3> QED BY <1>1, <2>1, <3>1, <3>2, MoveReaders
  <2>9. CountInv' /\ QuietInv'
    BY <1>1, <1>4, <2>7, <2>8 DEF CountInv, QuietInv
  <2>10. DrainInv'
    <3>1. readerWait' = Active' + Leaving' + sema'[readerSem]
      BY <1>1, <1>5, <1>8, <2>2, <2>8, ReaderNumbers
    <3>2. \A x \in Goroutine : pc'[x] \in {"drain", "wwait", "writing"} => x = h
      BY <1>4, <2>3
    <3> QED BY <2>2, <2>3, <3>1, <3>2 DEF DrainInv
  <2>11. WriterWakeup'
    <3>1. Posting = {} /\ sema[writerSem] = 0
      <4>1. sema[writerSem] + Cardinality(Posting) = 0
        BY <1>8, <2>2, WakeupMeans
      <4> QED BY <1>5, <1>9, <4>1
    <3>2. Posting' = {g}
      BY <2>3, <2>4, <3>1 DEF Posting, At
    <3>3. Cardinality(Posting') = 1
      BY <3>2, FS_Singleton
    <3>4. sema'[writerSem] + Cardinality(Posting') = 1
      BY <1>1, <3>1, <3>3
    <3> QED BY <1>11, <2>7, <3>4, WakeupMeans
  <2> QED BY <1>1, <2>5, <2>6, <2>9, <2>10, <2>11 DEF SudogInv
<1> QED BY <1>10, <1>11 DEF RUnlockSlow


-----------------------------------------------------------------------------
(* Writers *)

\* A goroutine that has rw.w, or gets it, moves: no other goroutine is pending or
\* posts to readerSem.
LEMMA MoveOwner ==
    ASSUME IInv, NEW g \in Goroutine, w \in {Nil, g},
           \A x \in Goroutine : x # g => pc'[x] = pc[x] /\ n'[x] = n[x] /\ addr'[x] = addr[x]
    PROVE  /\ Pending = IF pc[g] \in {"drain", "wwait", "writing"} THEN {g} ELSE {}
           /\ Pending' = IF pc'[g] \in {"drain", "wwait", "writing"} THEN {g} ELSE {}
           /\ At({"wwait"}) # {} <=> pc[g] = "wwait"
           /\ At({"wwait"})' # {} <=> pc'[g] = "wwait"
           /\ \A x \in Goroutine : x # g =>
                 /\ pc[x] \notin {"drain", "wwait", "writing"} /\ pc'[x] \notin {"drain", "wwait", "writing"}
                 /\ Unposted(x) = 0 /\ Unposted(x)' = 0
                 /\ ~Owns(x) /\ ~Owns(x)'
<1>1. \A x \in Goroutine : x # g => ~Owns(x)
  BY RWMutexAssumption DEF IInv, OwnerInv
<1>2. \A x \in Goroutine : x # g => ~Owns(x)'
  BY <1>1 DEF Owns
<1>3. \A x \in Goroutine : x # g => Unposted(x) = 0 /\ Unposted(x)' = 0
  BY <1>1, <1>2 DEF Owns, Unposted
<1>4. \A x \in Goroutine : x # g =>
          pc[x] \notin {"drain", "wwait", "writing"} /\ pc'[x] \notin {"drain", "wwait", "writing"}
  BY <1>1, <1>2 DEF Owns
<1> QED BY <1>1, <1>2, <1>3, <1>4 DEF Pending, At

\* The parts of the invariant that only depend on where g is.
LEMMA OwnerKeeps ==
    ASSUME IInv, NEW g \in Goroutine, w \in {Nil, g}, w' \in {Nil, g},
           w' = g <=> Owns(g)', pc'[g] # "fatal",
           pc'[g] \in {"release", "dequeue"} => n'[g] >= 1 /\ addr'[g] = readerSem,
           \A x \in Goroutine : x # g => pc'[x] = pc[x] /\ n'[x] = n[x] /\ addr'[x] = addr[x]
    PROVE  NoFatal' /\ OwnerInv' /\ LoopInv'
<1> USE DEF IInv
<1>1. \A x \in Goroutine : x # g => ~Owns(x)'
  BY MoveOwner
<1>2. OwnerInv'
  BY <1>1, RWMutexAssumption DEF OwnerInv
<1>3. NoFatal'
  BY DEF NoFatal, At
<1>4. LoopInv'
  BY DEF LoopInv, readerSem, writerSem
<1> QED BY <1>2, <1>3, <1>4

\* Lock before rw.w, and a goroutine that gets rw.w.
LEMMA LockKeeps ==
    ASSUME IInv, NEW g \in Goroutine, Lock(g) \/ LockW(g) \/ TryLock(g) \/ UnlockW(g)
    PROVE  IInv'
<1> USE DEF IInv
<1>1. /\ pc[g] \in {"idle", "wlock", "wunlock"}
      /\ UNCHANGED <<readerCount, readerWait, n, addr, sema, waitq, sudog>>
  BY DEF Lock, LockW, TryLock, UnlockW, sem
<1> PICK l \in {"wlock", "announce", "trylock", "idle"} :
        /\ pc' = [pc EXCEPT ![g] = l]
        /\ \/ l \in {"announce", "trylock"} /\ w = Nil /\ w' = g
           \/ l = "idle" /\ pc[g] = "wunlock" /\ w = g /\ w' = Nil
           \/ l = "wlock" /\ pc[g] = "idle" /\ w' = w
  BY DEF Lock, LockW, TryLock, UnlockW, Goto, W!Acquire, W!Release
<1>2. \A x \in Goroutine : pc'[x] = IF x = g THEN l ELSE pc[x]
  BY DEF TypeOK
<1>3. TypeOK'
  BY <1>1 DEF TypeOK, SemaTypeOK, PC
<1>4. NoFatal' /\ LoopInv'
  BY <1>1, <1>2 DEF NoFatal, At, LoopInv
<1>5. OwnerInv'
  <2>1. CASE l \in {"announce", "trylock"} /\ w = Nil /\ w' = g
    BY <1>1, <1>2, <2>1, RWMutexAssumption DEF OwnerInv, Owns
  <2>2. CASE l = "idle" /\ pc[g] = "wunlock" /\ w = g /\ w' = Nil
    BY <1>1, <1>2, <2>2, RWMutexAssumption DEF OwnerInv, Owns
  <2>3. CASE l = "wlock" /\ pc[g] = "idle" /\ w' = w
    BY <1>1, <1>2, <2>3 DEF OwnerInv, Owns
  <2> QED BY <2>1, <2>2, <2>3
<1>6. /\ Pending' = Pending /\ Posting' = Posting /\ At({"wwait"})' = At({"wwait"})
      /\ At({"reading"})' = At({"reading"}) /\ At({"rwait"})' = At({"rwait"})
      /\ At({"rslow"})' = At({"rslow"})
  BY <1>1, <1>2 DEF Pending, Posting, At
<1>7. Due' = Due
  <2>1. \A x \in Goroutine : Unposted(x)' = Unposted(x)
    BY <1>1, <1>2 DEF Unposted
  <2> QED BY <2>1, DueStays
<1>8. CountInv' /\ QuietInv'
  BY <1>1, <1>6, <1>7 DEF CountInv, QuietInv, Active, Blocked, Leaving
<1>9. DrainInv'
  <2>1. Active' = Active /\ Leaving' = Leaving
    BY <1>6 DEF Active, Leaving
  <2> QED BY <1>1, <1>2, <2>1 DEF DrainInv
<1>10. WriterWakeup'
  BY <1>1, <1>6, WakeupMeans
<1> QED BY <1>1, <1>3, <1>4, <1>5, <1>8, <1>9, <1>10 DEF SudogInv

\* Announce and TryLock's compare-and-swap: the r that Lock remembers counts
\* everybody who is inside.
LEMMA AnnounceKeeps ==
    ASSUME IInv, NEW g \in Goroutine, pc[g] \in {"announce", "trylock"}, w' = w,
           NEW CONSTANT l \in {"drain", "writing"}, pc' = [pc EXCEPT ![g] = l],
           readerCount' = readerCount - rwmutexMaxReaders,
           IF l = "drain" THEN n' = [n EXCEPT ![g] = readerCount] ELSE readerCount = 0,
           n' = [n EXCEPT ![g] = n'[g]], n'[g] \in {n[g], readerCount},
           UNCHANGED <<readerWait, addr, sema, waitq, sudog>>
    PROVE  IInv'
<1> USE DEF IInv
<1>1. w = g /\ w' = g
  BY DEF OwnerInv, Owns
<1>2. \A x \in Goroutine : pc'[x] = IF x = g THEN l ELSE pc[x]
  BY DEF TypeOK
<1>3. \A x \in Goroutine : x # g => pc'[x] = pc[x] /\ n'[x] = n[x] /\ addr'[x] = addr[x]
  BY <1>2 DEF TypeOK
<1>4. /\ Pending = {} /\ Pending' = {g} /\ At({"wwait"}) = {} /\ At({"wwait"})' = {}
      /\ \A x \in Goroutine : x # g => /\ pc'[x] \notin {"drain", "wwait", "writing"}
                                       /\ Unposted(x) = 0
  BY <1>1, <1>2, <1>3, MoveOwner
<1>5. Cardinality(Due) = 0
  <2>1. Unposted(g) = 0
    BY DEF Unposted
  <2> QED BY <1>4, <2>1, NothingDue
<1>6. /\ readerCount = Active + Blocked /\ Leaving = 0 /\ readerWait = 0
      /\ Blocked = sema[readerSem] /\ sema[readerSem] \in Nat
  BY <1>4, <1>5, ReaderNumbers DEF CountInv, QuietInv, TypeOK, SemaTypeOK
<1>7. Active' = Active /\ Blocked' = Blocked /\ Leaving' = Leaving
  <2>1. /\ At({"reading"})' = At({"reading"}) /\ At({"rwait"})' = At({"rwait"})
        /\ At({"rslow"})' = At({"rslow"})
    BY <1>2 DEF At
  <2> QED BY <2>1 DEF Active, Blocked, Leaving
<1>8. TypeOK'
  <2>1. readerCount \in 0..Cardinality(Goroutine)
    <3>1. At({"reading", "rwait"}) \in SUBSET Goroutine
      BY DEF At
    <3>2. Cardinality(At({"reading", "rwait"})) <= Cardinality(Goroutine)
      BY <3>1, RWMutexAssumption, FS_Subset
    <3> QED BY <1>6, <3>2, ReaderNumbers, DueFinite
  <2>2. readerCount' \in Int
    BY <1>6, ReaderNumbers
  <2>3. n' \in [Goroutine -> 0..Cardinality(Goroutine)]
    BY <2>1 DEF TypeOK
  <2> QED BY <2>2, <2>3 DEF TypeOK, SemaTypeOK, PC
<1>9. NoFatal' /\ OwnerInv' /\ LoopInv'
  <2>1. Owns(g)' /\ pc'[g] = l
    BY <1>2 DEF Owns
  <2> QED BY <1>1, <1>3, <2>1, OwnerKeeps
<1>10. CountInv'
  BY <1>4, <1>6, <1>7, ReaderNumbers DEF CountInv
<1>11. QuietInv'
  BY <1>4 DEF QuietInv
<1>12. DrainInv'
  <2>1. l = "drain" => n'[g] = readerCount
    BY DEF TypeOK
  <2>2. l = "writing" => Active + Blocked = 0
    BY <1>6
  <2> QED BY <1>2, <1>4, <1>6, <1>7, <2>1, <2>2, ReaderNumbers DEF DrainInv
<1>13. WriterWakeup'
  <2>1. Posting' = Posting
    BY <1>2 DEF Posting, At
  <2> QED BY <1>4, <2>1, WakeupMeans
<1> QED BY <1>8, <1>9, <1>10, <1>11, <1>12, <1>13 DEF SudogInv

\* Drain: the early leavers have made readerWait negative.
LEMMA DrainKeeps == ASSUME IInv, NEW g \in Goroutine, Drain(g)  PROVE IInv'
<1> USE DEF IInv
<1>1. /\ pc[g] = "drain" /\ readerWait' = readerWait + n[g] /\ n' = [n EXCEPT ![g] = 0]
      /\ UNCHANGED <<w, readerCount, addr, sema, waitq, sudog>>
  BY DEF Drain, sem
<1> PICK l \in {"writing", "wwait"} : /\ l = IF readerWait' = 0 THEN "writing" ELSE "wwait"
                                     /\ pc' = [pc EXCEPT ![g] = l]
  BY DEF Drain, Goto
<1>2. w = g
  BY <1>1 DEF OwnerInv, Owns
<1>3. \A x \in Goroutine : pc'[x] = IF x = g THEN l ELSE pc[x]
  BY DEF TypeOK
<1>4. \A x \in Goroutine : x # g => pc'[x] = pc[x] /\ n'[x] = n[x] /\ addr'[x] = addr[x]
  BY <1>1, <1>3 DEF TypeOK
<1>5. /\ Pending = {g} /\ Pending' = {g} /\ At({"wwait"}) = {}
      /\ At({"wwait"})' # {} => readerWait' # 0
      /\ \A x \in Goroutine : x # g => pc'[x] \notin {"drain", "wwait", "writing"}
  <2>1. At({"wwait"})' # {} <=> l = "wwait"
    BY <1>2, <1>3, <1>4, MoveOwner
  <2> QED BY <1>1, <1>2, <1>3, <1>4, <2>1, MoveOwner
<1>6. n[g] \in Int /\ readerWait \in Int /\ sema[readerSem] \in Nat
  BY DueFinite DEF TypeOK, SemaTypeOK
<1>7. readerWait' = Active + Leaving + sema[readerSem]
  BY <1>1 DEF DrainInv
<1>8. Active' = Active /\ Blocked' = Blocked /\ Leaving' = Leaving
  <2>1. /\ At({"reading"})' = At({"reading"}) /\ At({"rwait"})' = At({"rwait"})
        /\ At({"rslow"})' = At({"rslow"})
    BY <1>1, <1>3 DEF At
  <2> QED BY <2>1 DEF Active, Blocked, Leaving
<1>9. TypeOK'
  <2>1. 0 \in 0..Cardinality(Goroutine)
    BY DueFinite
  <2>2. readerWait' \in Int
    BY <1>1, <1>6
  <2> QED BY <1>1, <2>1, <2>2 DEF TypeOK, SemaTypeOK, PC
<1>10. NoFatal' /\ OwnerInv' /\ LoopInv'
  <2>1. Owns(g)' /\ pc'[g] = l
    BY <1>3 DEF Owns
  <2> QED BY <1>1, <1>2, <1>4, <2>1, OwnerKeeps
<1>11. CountInv'
  BY <1>1, <1>5, <1>8 DEF CountInv
<1>12. QuietInv'
  BY <1>5 DEF QuietInv
<1>13. DrainInv'
  BY <1>1, <1>3, <1>5, <1>7, <1>8 DEF DrainInv
<1>14. WriterWakeup'
  <2>1. Posting' = Posting
    BY <1>1, <1>3 DEF Posting, At
  <2> QED BY <1>1, <1>5, <2>1, WakeupMeans
<1> QED BY <1>1, <1>9, <1>10, <1>11, <1>12, <1>13, <1>14 DEF SudogInv

\* The writer goes to sleep, or takes the one unit that the last reader posted.
LEMMA WWaitKeeps == ASSUME IInv, NEW g \in Goroutine, WWait(g)  PROVE IInv'
<1> USE DEF IInv
<1>1. pc[g] = "wwait" /\ UNCHANGED <<w, readerCount, readerWait, n, addr>>
  BY DEF WWait
<1>2. CASE SemSleep(g, writerSem, FALSE) /\ UNCHANGED pc
  BY <1>1, <1>2, SleepKeeps
<1>3. CASE SemAcquired(g, writerSem) /\ Goto(g, "writing")
  <2>1. /\ pc' = [pc EXCEPT ![g] = "writing"] /\ sema[writerSem] > 0
        /\ sema' = [sema EXCEPT ![writerSem] = sema[writerSem] - 1]
        /\ UNCHANGED <<waitq, sudog>>
    BY <1>3, AcquireTakes DEF Goto
  <2>2. /\ sema'[writerSem] = sema[writerSem] - 1 /\ sema'[readerSem] = sema[readerSem]
        /\ sema[readerSem] \in Nat /\ sema[writerSem] \in Nat
    BY <2>1 DEF TypeOK, SemaTypeOK, readerSem, writerSem
  <2>3. w = g
    BY <1>1 DEF OwnerInv, Owns
  <2>4. \A x \in Goroutine : pc'[x] = IF x = g THEN "writing" ELSE pc[x]
    BY <2>1 DEF TypeOK
  <2>5. \A x \in Goroutine : x # g => pc'[x] = pc[x] /\ n'[x] = n[x] /\ addr'[x] = addr[x]
    BY <1>1, <2>4
  <2>6. /\ Pending = {g} /\ Pending' = {g} /\ At({"wwait"}) # {} /\ At({"wwait"})' = {}
        /\ \A x \in Goroutine : x # g => pc'[x] \notin {"drain", "wwait", "writing"}
    BY <1>1, <2>3, <2>4, <2>5, MoveOwner
  <2>7. /\ IsFiniteSet(Posting) /\ Cardinality(Posting) \in Nat
        /\ Posting' = Posting
    BY <1>1, <2>4, RWMutexAssumption, CountNat DEF Posting, At
  <2>8. readerWait = 0 /\ sema[writerSem] = 1 /\ Cardinality(Posting) = 0
    <3>1. sema[writerSem] + Cardinality(Posting) = IF readerWait = 0 THEN 1 ELSE 0
      BY <2>6, WakeupMeans
    <3> QED BY <2>1, <2>2, <2>7, <3>1
  <2>9. Active' = Active /\ Blocked' = Blocked /\ Leaving' = Leaving
    <3>1. /\ At({"reading"})' = At({"reading"}) /\ At({"rwait"})' = At({"rwait"})
          /\ At({"rslow"})' = At({"rslow"})
      BY <1>1, <2>4 DEF At
    <3> QED BY <3>1 DEF Active, Blocked, Leaving
  <2>10. TypeOK'
    BY <1>1, <2>1, <2>2 DEF TypeOK, SemaTypeOK, PC
  <2>11. NoFatal' /\ OwnerInv' /\ LoopInv'
    <3>1. Owns(g)' /\ pc'[g] = "writing"
      BY <2>4 DEF Owns
    <3> QED BY <1>1, <2>3, <2>5, <3>1, OwnerKeeps
  <2>12. CountInv' /\ QuietInv'
    BY <1>1, <2>6, <2>9 DEF CountInv, QuietInv
  <2>13. DrainInv'
    <3>1. Active + Leaving + sema[readerSem] = 0
      BY <1>1, <2>8 DEF DrainInv
    <3> QED BY <1>1, <2>2, <2>4, <2>6, <2>8, <2>9, <3>1 DEF DrainInv
  <2>14. WriterWakeup'
    BY <2>2, <2>6, <2>7, <2>8, WakeupMeans
  <2> QED BY <2>1, <2>10, <2>11, <2>12, <2>13, <2>14 DEF SudogInv
<1> QED BY <1>2, <1>3 DEF WWait

\* TryLock's compare-and-swap: a writer only if nobody reads, else rw.w is given back.
LEMMA TryLockCASKeeps == ASSUME IInv, NEW g \in Goroutine, TryLockCAS(g)  PROVE IInv'
<1> USE DEF IInv
<1>1. pc[g] = "trylock" /\ UNCHANGED <<readerWait, n, addr, sema, waitq, sudog>>
  BY DEF TryLockCAS, sem
<1>2. CASE readerCount = 0 /\ readerCount' = -rwmutexMaxReaders /\ Goto(g, "writing") /\ UNCHANGED w
  <2>1. readerCount' = readerCount - rwmutexMaxReaders
    BY <1>2, RWMutexAssumption
  <2>2. n' = [n EXCEPT ![g] = n'[g]] /\ n'[g] \in {n[g], readerCount}
    BY <1>1 DEF TypeOK
  <2>3. pc' = [pc EXCEPT ![g] = "writing"]
    BY <1>2 DEF Goto
  <2> QED BY <1>1, <1>2, <2>1, <2>2, <2>3, AnnounceKeeps
<1>3. CASE readerCount # 0 /\ W!Release(g) /\ Goto(g, "idle") /\ UNCHANGED readerCount
  <2>1. pc' = [pc EXCEPT ![g] = "idle"] /\ w = g /\ w' = Nil
    BY <1>3 DEF Goto, W!Release
  <2>2. \A x \in Goroutine : pc'[x] = IF x = g THEN "idle" ELSE pc[x]
    BY <2>1 DEF TypeOK
  <2>3. TypeOK'
    BY <1>1, <1>3, <2>1 DEF TypeOK, SemaTypeOK, PC
  <2>4. NoFatal' /\ LoopInv'
    BY <1>1, <2>2 DEF NoFatal, At, LoopInv
  <2>5. OwnerInv'
    BY <1>1, <2>1, <2>2, RWMutexAssumption DEF OwnerInv, Owns
  <2>6. /\ Pending' = Pending /\ Posting' = Posting /\ At({"wwait"})' = At({"wwait"})
        /\ At({"reading"})' = At({"reading"}) /\ At({"rwait"})' = At({"rwait"})
        /\ At({"rslow"})' = At({"rslow"})
    BY <1>1, <2>2 DEF Pending, Posting, At
  <2>7. Due' = Due
    <3>1. \A x \in Goroutine : Unposted(x)' = Unposted(x)
      BY <1>1, <2>2 DEF Unposted
    <3> QED BY <3>1, DueStays
  <2>8. CountInv' /\ QuietInv'
    BY <1>1, <1>3, <2>6, <2>7 DEF CountInv, QuietInv, Active, Blocked, Leaving
  <2>9. DrainInv'
    <3>1. Active' = Active /\ Leaving' = Leaving
      BY <2>6 DEF Active, Leaving
    <3> QED BY <1>1, <2>2, <3>1 DEF DrainInv
  <2>10. WriterWakeup'
    BY <1>1, <2>6, WakeupMeans
  <2> QED BY <1>1, <2>3, <2>4, <2>5, <2>8, <2>9, <2>10 DEF SudogInv
<1> QED BY <1>2, <1>3 DEF TryLockCAS

\* Unlock lets readers in again and owes a unit to each blocked one.
LEMMA UnlockKeeps == ASSUME IInv, NEW g \in Goroutine, Unlock(g)  PROVE IInv'
<1> USE DEF IInv
<1>1. /\ pc[g] = "writing" /\ readerCount' = readerCount + rwmutexMaxReaders
      /\ UNCHANGED <<w, readerWait, sema, waitq, sudog>>
  BY DEF Unlock, sem
<1>2. w = g
  BY <1>1 DEF OwnerInv, Owns
<1>3. sema[readerSem] \in Nat
  BY DEF TypeOK, SemaTypeOK
<1>4. readerWait = 0 /\ Active = 0 /\ Leaving = 0 /\ sema[readerSem] = 0
  BY <1>1, <1>3, ReaderNumbers DEF DrainInv
<1>5. Pending # {}
  BY <1>1 DEF Pending, At
<1>6. readerCount' = Blocked /\ readerCount' < rwmutexMaxReaders
  BY <1>1, <1>4, <1>5, ReaderNumbers DEF CountInv
<1> PICK l \in {"wunlock", "release"} : /\ l = IF Blocked = 0 THEN "wunlock" ELSE "release"
                                       /\ pc' = [pc EXCEPT ![g] = l]
                                       /\ n' = [n EXCEPT ![g] = Blocked]
                                       /\ addr' = [addr EXCEPT ![g] = readerSem]
  <2>1. ~(readerCount' >= rwmutexMaxReaders)
    BY <1>6, ReaderNumbers
  <2> QED BY <1>6, <2>1 DEF Unlock, Goto
<1>7. /\ \A x \in Goroutine : pc'[x] = IF x = g THEN l ELSE pc[x]
      /\ n'[g] = Blocked /\ addr'[g] = readerSem
  BY DEF TypeOK
<1>8. \A x \in Goroutine : x # g => pc'[x] = pc[x] /\ n'[x] = n[x] /\ addr'[x] = addr[x]
  BY <1>7 DEF TypeOK
<1>9. /\ Pending' = {} /\ At({"wwait"}) = {} /\ At({"wwait"})' = {}
      /\ \A x \in Goroutine : x # g => /\ pc'[x] \notin {"drain", "wwait", "writing"}
                                       /\ Unposted(x)' = 0
  BY <1>1, <1>2, <1>7, <1>8, MoveOwner
<1>10. Blocked \in 0..Cardinality(Goroutine)
  <2>1. At({"rwait"}) \in SUBSET Goroutine
    BY DEF At
  <2>2. Cardinality(At({"rwait"})) <= Cardinality(Goroutine)
    BY <2>1, RWMutexAssumption, FS_Subset
  <2> QED BY <2>2, ReaderNumbers, DueFinite DEF Blocked
<1>11. Active' = Active /\ Blocked' = Blocked /\ Leaving' = Leaving
  <2>1. /\ At({"reading"})' = At({"reading"}) /\ At({"rwait"})' = At({"rwait"})
        /\ At({"rslow"})' = At({"rslow"})
    BY <1>1, <1>7 DEF At
  <2> QED BY <2>1 DEF Active, Blocked, Leaving
<1>12. TypeOK'
  BY <1>1, <1>6, <1>10, ReaderNumbers DEF TypeOK, SemaTypeOK, PC
<1>13. NoFatal' /\ OwnerInv' /\ LoopInv'
  <2>1. Owns(g)' /\ pc'[g] = l
    BY <1>7 DEF Owns
  <2>2. pc'[g] \in {"release", "dequeue"} => n'[g] >= 1
    BY <1>7, ReaderNumbers
  <2> QED BY <1>1, <1>2, <1>7, <1>8, <2>1, <2>2, OwnerKeeps
<1>14. CountInv'
  BY <1>4, <1>6, <1>9, <1>11, ReaderNumbers DEF CountInv
<1>15. QuietInv'
  <2>1. PICK k \in 0..Cardinality(Goroutine) : k = Blocked
    BY <1>10
  <2>2. Unposted(g)' = k
    BY <1>7, <2>1 DEF Unposted, readerSem
  <2>3. Cardinality(Due') = k
    BY <1>9, <2>2, DueBegins
  <2> QED BY <1>1, <1>4, <1>11, <2>1, <2>3, ReaderNumbers DEF QuietInv
<1>16. DrainInv'
  BY <1>7, <1>9 DEF DrainInv
<1>17. WriterWakeup'
  <2>1. Posting' = Posting
    BY <1>1, <1>7 DEF Posting, At, readerSem, writerSem
  <2> QED BY <1>1, <1>9, <2>1, WakeupMeans
<1> QED BY <1>1, <1>12, <1>13, <1>14, <1>15, <1>16, <1>17 DEF SudogInv

-----------------------------------------------------------------------------
(* runtime_Semrelease, and a lock that is passed on *)

\* A unit is posted: it is no longer due.
LEMMA SemreleaseKeeps == ASSUME IInv, NEW g \in Goroutine, Semrelease(g)  PROVE IInv'
<1> USE DEF IInv
<1>1. /\ pc[g] = "release" /\ pc' = [pc EXCEPT ![g] = "dequeue"]
      /\ sema' = [sema EXCEPT ![addr[g]] = sema[addr[g]] + 1]
      /\ UNCHANGED <<w, readerCount, readerWait, n, addr, waitq, sudog>>
  BY DEF Semrelease, SemXadd, Goto
<1>2. \A x \in Goroutine : pc'[x] = IF x = g THEN "dequeue" ELSE pc[x]
  BY <1>1 DEF TypeOK
<1>3. /\ addr[g] \in {readerSem, writerSem}
      /\ sema'[addr[g]] = sema[addr[g]] + 1
      /\ \A a \in {readerSem, writerSem} : a # addr[g] => sema'[a] = sema[a]
      /\ sema[readerSem] \in Nat /\ sema[writerSem] \in Nat
      /\ sema' \in [{readerSem, writerSem} -> Nat]
  BY <1>1 DEF TypeOK, SemaTypeOK
<1>4. TypeOK'
  BY <1>1, <1>3 DEF TypeOK, SemaTypeOK, PC
<1>5. NoFatal' /\ OwnerInv' /\ LoopInv'
  BY <1>1, <1>2 DEF NoFatal, At, OwnerInv, Owns, LoopInv
<1>6. Pending' = Pending /\ At({"wwait"})' = At({"wwait"})
  BY <1>1, <1>2 DEF Pending, At
<1>7. Active' = Active /\ Blocked' = Blocked /\ Leaving' = Leaving
  <2>1. /\ At({"reading"})' = At({"reading"}) /\ At({"rwait"})' = At({"rwait"})
        /\ At({"rslow"})' = At({"rslow"})
    BY <1>1, <1>2 DEF At
  <2> QED BY <2>1 DEF Active, Blocked, Leaving
<1>8. CountInv'
  BY <1>1, <1>6, <1>7 DEF CountInv
<1>9. CASE addr[g] = readerSem
  <2>1. Owns(g) /\ w = g
    BY <1>1, <1>9 DEF Owns, OwnerInv
  <2>2. sema'[readerSem] = sema[readerSem] + 1 /\ sema'[writerSem] = sema[writerSem]
    BY <1>3, <1>9 DEF readerSem, writerSem
  <2>3. Pending = {} /\ \A x \in Goroutine : pc'[x] \notin {"drain", "wwait", "writing"}
    BY <1>1, <1>2, <2>1, OwnerAlone DEF Pending, At
  <2>4. Cardinality(Due') = Cardinality(Due) - 1
    <3>1. PICK k \in 1..Cardinality(Goroutine) : k = n[g]
      BY <1>1, DueFinite DEF LoopInv, TypeOK
    <3>2. Unposted(g) = k /\ Unposted(g)' = k - 1
      BY <1>1, <1>2, <1>9, <3>1 DEF Unposted
    <3>3. \A x \in Goroutine : x # g => Unposted(x)' = Unposted(x)
      BY <1>1, <1>2 DEF Unposted
    <3> QED BY <3>2, <3>3, DueLoses
  <2>5. QuietInv'
    BY <1>1, <1>3, <1>7, <2>2, <2>3, <2>4, DueFinite, ReaderNumbers DEF QuietInv
  <2>6. DrainInv'
    BY <2>3 DEF DrainInv
  <2>7. WriterWakeup'
    <3>1. Posting' = Posting
      BY <1>1, <1>2, <1>9 DEF Posting, At, readerSem, writerSem
    <3> QED BY <1>1, <1>6, <2>2, <3>1, WakeupMeans
  <2> QED BY <1>1, <1>4, <1>5, <1>8, <2>5, <2>6, <2>7 DEF SudogInv
<1>10. CASE addr[g] = writerSem
  <2>1. sema'[writerSem] = sema[writerSem] + 1 /\ sema'[readerSem] = sema[readerSem]
    BY <1>3, <1>10 DEF readerSem, writerSem
  <2>2. Due' = Due
    <3>1. \A x \in Goroutine : Unposted(x)' = Unposted(x)
      BY <1>1, <1>2, <1>10 DEF Unposted, readerSem, writerSem
    <3> QED BY <3>1, DueStays
  <2>3. QuietInv'
    BY <1>1, <1>6, <1>7, <2>1, <2>2 DEF QuietInv
  <2>4. DrainInv'
    BY <1>1, <1>2, <1>7, <2>1 DEF DrainInv
  <2>5. WriterWakeup'
    <3>1. IsFiniteSet(Posting) /\ Cardinality(Posting) \in Nat
      BY RWMutexAssumption, CountNat DEF Posting, At
    <3>2. g \in Posting /\ Posting' = Posting \ {g}
      BY <1>1, <1>2, <1>10 DEF Posting, At
    <3>3. Cardinality(Posting') = Cardinality(Posting) - 1
      BY <3>1, <3>2, CountLeave
    <3>4. sema'[writerSem] + Cardinality(Posting') = sema[writerSem] + Cardinality(Posting)
      BY <1>3, <2>1, <3>1, <3>3
    <3> QED BY <1>1, <1>6, <3>4, WakeupMeans
  <2> QED BY <1>1, <1>4, <1>5, <1>8, <2>3, <2>4, <2>5 DEF SudogInv
<1> QED BY <1>3, <1>9, <1>10

\* The poster finds nobody or wakes the first sleeper, and goes round its loop.
LEMMA SemreleaseDequeueKeeps ==
    ASSUME IInv, NEW g \in Goroutine, SemreleaseDequeue(g)  PROVE IInv'
<1> USE DEF IInv
<1>1. /\ pc[g] = "dequeue" /\ n' = [n EXCEPT ![g] = n[g] - 1]
      /\ SemNoWaiter(addr[g]) \/ SemDequeue(addr[g], FALSE)
      /\ UNCHANGED <<w, readerCount, readerWait, addr>>
  BY DEF SemreleaseDequeue
<1>2. /\ n[g] \in 1..Cardinality(Goroutine) /\ addr[g] \in {readerSem, writerSem}
      /\ addr[g] = writerSem => n[g] = 1
      /\ n'[g] = n[g] - 1
      /\ \A x \in Goroutine : x # g => n'[x] = n[x]
  BY <1>1, DueFinite DEF LoopInv, TypeOK
<1> PICK l \in {"release", "wunlock", "idle"} :
        /\ pc' = [pc EXCEPT ![g] = l]
        /\ IF n[g] > 1 THEN l = "release"
           ELSE IF addr[g] = readerSem THEN l = "wunlock" ELSE l = "idle"
  <2>1. n[g] > 1 => n'[g] > 0 /\ n'[g] # 0
    BY <1>2, DueFinite
  <2>2. ~(n[g] > 1) => ~(n'[g] > 0) /\ n'[g] = 0
    BY <1>2, DueFinite
  <2> QED BY <2>1, <2>2 DEF SemreleaseDequeue, Goto
<1>3. \A x \in Goroutine : pc'[x] = IF x = g THEN l ELSE pc[x]
  BY DEF TypeOK
<1>4. sema' = sema /\ SemaTypeOK' /\ SudogInv'
  <2>1. CASE SemNoWaiter(addr[g])
    BY <2>1 DEF SemNoWaiter, TypeOK, SemaTypeOK, SudogInv
  <2>2. CASE SemDequeue(addr[g], FALSE)
    <3>1. waitq[addr[g]] \in Seq(Goroutine) /\ waitq[addr[g]] # <<>>
      BY <1>2, <2>2 DEF SemDequeue, TypeOK, SemaTypeOK
    <3>2. Tail(waitq[addr[g]]) \in Seq(Goroutine)
      BY <3>1
    <3>3. /\ sema' = sema /\ waitq' = [waitq EXCEPT ![addr[g]] = Tail(waitq[addr[g]])]
          /\ sudog' = [sudog EXCEPT ![Head(waitq[addr[g]])] = "none"]
      BY <2>2 DEF SemDequeue
    <3> QED BY <1>2, <3>2, <3>3 DEF TypeOK, SemaTypeOK, SudogInv, SudogState
  <2> QED BY <1>1, <2>1, <2>2
<1>5. TypeOK'
  <2>1. n[g] - 1 \in 0..Cardinality(Goroutine)
    BY <1>2, DueFinite
  <2> QED BY <1>1, <1>4, <2>1 DEF TypeOK, PC
<1>6. NoFatal' /\ OwnerInv' /\ LoopInv'
  <2>1. LoopInv'
    BY <1>1, <1>2, <1>3, DueFinite DEF LoopInv, TypeOK
  <2> QED BY <1>1, <1>2, <1>3, <2>1 DEF NoFatal, At, OwnerInv, Owns, readerSem, writerSem
<1>7. Pending' = Pending /\ At({"wwait"})' = At({"wwait"}) /\ Posting' = Posting
  BY <1>1, <1>2, <1>3, DueFinite DEF Pending, At, Posting
<1>8. Active' = Active /\ Blocked' = Blocked /\ Leaving' = Leaving
  <2>1. /\ At({"reading"})' = At({"reading"}) /\ At({"rwait"})' = At({"rwait"})
        /\ At({"rslow"})' = At({"rslow"})
    BY <1>1, <1>3 DEF At
  <2> QED BY <2>1 DEF Active, Blocked, Leaving
<1>9. Due' = Due
  <2>1. Unposted(g)' = Unposted(g)
    BY <1>1, <1>2, <1>3, DueFinite DEF Unposted
  <2>2. \A x \in Goroutine : x # g => Unposted(x)' = Unposted(x)
    BY <1>1, <1>2, <1>3 DEF Unposted
  <2> QED BY <2>1, <2>2, DueStays
<1>10. CountInv' /\ QuietInv'
  BY <1>1, <1>4, <1>7, <1>8, <1>9 DEF CountInv, QuietInv
<1>11. DrainInv'
  BY <1>1, <1>2, <1>3, <1>4, <1>8 DEF DrainInv
<1>12. WriterWakeup'
  BY <1>1, <1>4, <1>7, WakeupMeans
<1> QED BY <1>4, <1>5, <1>6, <1>10, <1>11, <1>12

\* The lock is passed on: one goroutine takes the place of another.
LEMMA PassKeeps == ASSUME IInv, NEW g \in Goroutine, NEW h \in Goroutine, Pass(g, h)  PROVE IInv'
<1> USE DEF IInv
<1>1. /\ pc[g] \in {"reading", "writing"} /\ pc[h] = "idle" /\ g # h
      /\ pc' = [pc EXCEPT ![g] = "idle", ![h] = pc[g]]
      /\ IF pc[g] = "writing" THEN w = g /\ w' = h ELSE w' = w
      /\ UNCHANGED <<readerCount, readerWait, n, addr, sema, waitq, sudog>>
  BY DEF Pass, W!Transfer, sem
<1>2. \A x \in Goroutine : pc'[x] = IF x = h THEN pc[g] ELSE IF x = g THEN "idle" ELSE pc[x]
  BY <1>1 DEF TypeOK
<1>3. TypeOK'
  BY <1>1 DEF TypeOK, SemaTypeOK, PC
<1>4. NoFatal' /\ LoopInv'
  BY <1>1, <1>2 DEF NoFatal, At, LoopInv
<1>5. OwnerInv'
  <2>1. \A x \in Goroutine \ {g, h} : Owns(x)' <=> Owns(x)
    BY <1>1, <1>2 DEF Owns
  <2>2. ~ Owns(g)' /\ ~ Owns(h)
    BY <1>1, <1>2 DEF Owns
  <2>3. CASE pc[g] = "writing"
    <3>1. w = g /\ w' = h /\ Owns(h)'
      BY <1>1, <1>2, <2>3 DEF Owns
    <3>2. \A x \in Goroutine \ {g, h} : ~ Owns(x)
      BY <3>1 DEF OwnerInv
    <3> QED BY <1>1, <2>1, <2>2, <3>1, <3>2 DEF OwnerInv
  <2>4. CASE pc[g] = "reading"
    <3>1. w' = w /\ ~ Owns(h)' /\ ~ Owns(g)
      BY <1>1, <1>2, <2>4 DEF Owns
    <3> QED BY <1>1, <2>1, <2>2, <3>1 DEF OwnerInv
  <2> QED BY <1>1, <2>3, <2>4
<1>6. /\ At({"rwait"})' = At({"rwait"}) /\ At({"rslow"})' = At({"rslow"})
      /\ At({"wwait"})' = At({"wwait"}) /\ Posting' = Posting
  BY <1>1, <1>2 DEF At, Posting
<1>7. Pending' = {} <=> Pending = {}
  BY <1>1, <1>2 DEF Pending, At
<1>8. Active' = Active
  <2>1. CASE pc[g] = "writing"
    <3>1. At({"reading"})' = At({"reading"})
      BY <1>1, <1>2, <2>1 DEF At
    <3> QED BY <3>1 DEF Active
  <2>2. CASE pc[g] = "reading"
    <3> DEFINE R == At({"reading"})
    <3>1. R' = (R \ {g}) \cup {h} /\ g \in R /\ h \notin R \ {g} /\ IsFiniteSet(R)
      <4>1. R' = (R \ {g}) \cup {h} /\ g \in R /\ h \notin R \ {g}
        BY <1>1, <1>2, <2>2 DEF At
      <4>2. IsFiniteSet(R)
        BY RWMutexAssumption, CountNat DEF At
      <4> QED BY <4>1, <4>2
    <3> HIDE DEF R
    <3>2. IsFiniteSet(R \ {g}) /\ Cardinality(R \ {g}) = Cardinality(R) - 1
      BY <3>1, CountLeave
    <3>3. Cardinality(R') = Cardinality(R \ {g}) + 1
      BY <3>1, <3>2, CountJoin
    <3>4. Cardinality(R) \in Nat
      BY <3>1, FS_CardinalityType
    <3> QED BY <3>2, <3>3, <3>4 DEF Active, R
  <2> QED BY <1>1, <2>1, <2>2
<1>9. Blocked' = Blocked /\ Leaving' = Leaving
  BY <1>6 DEF Blocked, Leaving
<1>10. Due' = Due
  <2>1. \A x \in Goroutine : Unposted(x)' = Unposted(x)
    BY <1>1, <1>2 DEF Unposted
  <2> QED BY <2>1, DueStays
<1>11. CountInv' /\ QuietInv'
  BY <1>1, <1>7, <1>8, <1>9, <1>10 DEF CountInv, QuietInv
<1>12. DrainInv'
  BY <1>1, <1>2, <1>8, <1>9 DEF DrainInv
<1>13. WriterWakeup'
  BY <1>1, <1>6, WakeupMeans
<1> QED BY <1>1, <1>3, <1>4, <1>5, <1>11, <1>12, <1>13 DEF SudogInv

-----------------------------------------------------------------------------
(* Invariance *)

\* The invariant holds of a new lock.
LEMMA InitOK == Init => IInv
<1> SUFFICES ASSUME Init  PROVE IInv
  OBVIOUS
<1>1. TypeOK
  <2>1. SemaTypeOK
    BY DEF Init, SemaInit, SemaTypeOK, SudogState
  <2>2. 0 \in 0..Cardinality(Goroutine)
    BY DueFinite
  <2> QED BY <2>1, <2>2 DEF Init, TypeOK, W!Init, PC
<1>2. /\ At({"reading"}) = {} /\ At({"rwait"}) = {} /\ At({"rslow"}) = {}
      /\ Pending = {} /\ At({"wwait"}) = {} /\ Posting = {}
  BY DEF Init, At, Pending, Posting
<1>3. Active = 0 /\ Blocked = 0 /\ Leaving = 0 /\ Cardinality(Posting) = 0
  BY <1>2, FS_EmptySet DEF Active, Blocked, Leaving
<1>4. Cardinality(Due) = 0
  <2>1. \A x \in Goroutine : Unposted(x) = 0
    BY DEF Init, Unposted
  <2> QED BY <2>1, NothingDue
<1>5. sema[readerSem] = 0 /\ sema[writerSem] = 0
  BY DEF Init, SemaInit
<1>6. NoFatal /\ OwnerInv /\ SudogInv /\ LoopInv /\ DrainInv
  BY RWMutexAssumption DEF Init, W!Init, SemaInit, NoFatal, At, OwnerInv, Owns, SudogInv, LoopInv,
                           DrainInv
<1>7. CountInv /\ QuietInv
  BY <1>2, <1>3, <1>4, <1>5 DEF Init, CountInv, QuietInv
<1>8. WriterWakeup
  BY <1>2, <1>3, <1>5, WakeupMeans
<1> QED BY <1>1, <1>6, <1>7, <1>8 DEF IInv

\* Every step of every goroutine keeps the invariant.
LEMMA NextKeeps == IInv /\ [Next]_vars => IInv'
<1> SUFFICES ASSUME IInv, [Next]_vars  PROVE IInv'
  OBVIOUS
<1>1. CASE UNCHANGED vars
  <2> USE <1>1 DEF vars, sem, IInv
  <2>1. TypeOK'
    BY DEF TypeOK, SemaTypeOK
  <2>2. NoFatal' /\ OwnerInv' /\ SudogInv' /\ LoopInv'
    BY DEF NoFatal, At, OwnerInv, Owns, SudogInv, LoopInv
  <2>3. CountInv' /\ QuietInv' /\ DrainInv'
    BY DEF CountInv, QuietInv, DrainInv, Active, Blocked, Leaving, Pending, At, Due, Unposted
  <2>4. WriterWakeup'
    BY DEF WriterWakeup, At
  <2> QED BY <2>1, <2>2, <2>3, <2>4
<1>2. ASSUME NEW g \in Goroutine, Announce(g)  PROVE IInv'
  <2>1. /\ pc[g] = "announce" /\ readerCount' = readerCount - rwmutexMaxReaders
        /\ n' = [n EXCEPT ![g] = readerCount]
        /\ UNCHANGED <<w, readerWait, addr, sema, waitq, sudog>>
    BY <1>2 DEF Announce, sem
  <2>2. n' = [n EXCEPT ![g] = n'[g]] /\ n'[g] \in {n[g], readerCount}
    BY <2>1 DEF IInv, TypeOK
  <2>3. PICK l \in {"drain", "writing"} : /\ l = IF readerCount = 0 THEN "writing" ELSE "drain"
                                          /\ pc' = [pc EXCEPT ![g] = l]
    BY <1>2 DEF Announce, Goto
  <2> QED BY <2>1, <2>2, <2>3, AnnounceKeeps
<1>3. ASSUME NEW g \in Goroutine, ReadStep(g) \/ ReleaseStep(g)  PROVE IInv'
  BY <1>3, RWaitKeeps, RUnlockKeeps, RUnlockSlowKeeps, SemreleaseKeeps, SemreleaseDequeueKeeps
  DEF ReadStep, ReleaseStep
<1>4. ASSUME NEW g \in Goroutine, WriteStep(g)  PROVE IInv'
  BY <1>2, <1>4, LockKeeps, DrainKeeps, WWaitKeeps, TryLockCASKeeps, UnlockKeeps DEF WriteStep
<1>5. CASE Step
  BY <1>3, <1>4, <1>5, RLockKeeps, LockKeeps DEF Step
<1>6. CASE \E g, h \in Goroutine : Pass(g, h)
  BY <1>6, PassKeeps
<1> QED BY <1>1, <1>5, <1>6 DEF Next

\* The invariant holds throughout.
THEOREM RWInductive == Spec => []IInv
  BY InitOK, NextKeeps, PTL DEF Spec

\* A writer excludes everybody, although Lock and RUnlock only add to and subtract
\* from two counters and readers of the previous phase may still be on their way in.
THEOREM RWExclusion == Spec => []Exclusion
<1>1. IInv => Exclusion
  <2> SUFFICES ASSUME IInv, NEW g \in Goroutine, NEW h \in Goroutine, pc[g] = "writing",
                      pc[h] \in {"reading", "writing"}
               PROVE  g = h
    BY DEF Exclusion
  <2>1. CASE pc[h] = "writing"
    BY <2>1 DEF IInv, OwnerInv, Owns
  <2>2. CASE pc[h] = "reading"
    <3>1. Active + Leaving + sema[readerSem] = 0 /\ sema[readerSem] \in Nat
      BY DEF IInv, DrainInv, TypeOK, SemaTypeOK
    <3>2. Active = 0
      BY <3>1, ReaderNumbers
    <3> QED BY <2>2, <3>2, ReaderNumbers DEF At
  <2> QED BY <2>1, <2>2
<1> QED BY <1>1, RWInductive, PTL

\* readerCount and readerWait account for every reader, and the two fatal errors
\* are dead code, for every number of goroutines below rwmutexMaxReaders.
THEOREM RWCounters == Spec => []CountersExact
<1>1. IInv => CountersExact
  <2> SUFFICES ASSUME IInv  PROVE CountersExact
    OBVIOUS
  <2> USE DEF IInv
  <2>1. ReaderCountExact
    BY ReaderNumbers DEF ReaderCountExact, CountInv
  <2>2. Inside = Active + Leaving + sema[readerSem]
    BY ReaderNumbers DEF Inside
  <2>3. DrainExact
    BY <2>2 DEF DrainExact, DrainInv
  <2> QED BY <2>1, <2>3 DEF CountersExact
<1> QED BY <1>1, RWInductive, PTL

\* As many units are posted to readerSem and writerSem as goroutines wait for.
THEOREM RWUnits == Spec => []UnitsExact
<1>1. IInv => UnitsExact
  BY DEF IInv, UnitsExact, AdmitExact, QuietInv, Blocked
<1> QED BY <1>1, RWInductive, PTL
=============================================================================
