---------------------------- MODULE FdMutexProofs ----------------------------
(***************************************************************************)
(* What holds of FdMutex for every finite set of goroutines and every limit *)
(* of the counters: FdInv, that a closed descriptor is destroyed and that   *)
(* Close waits for it, and that FdMutex implements Descriptor.              *)
(*                                                                         *)
(* FdInv is not inductive.  That the word is exact needs to know which      *)
(* operation can be where (ControlInv) and that there is one closer, which  *)
(* has its reference until it evicts (CloserInv); that the waiters are      *)
(* matched needs who owes units (ReleaseInv) and that only sleepers are     *)
(* queued (QueueInv); that nobody is stranded is a consequence of ChainInv, *)
(* which speaks of the count of waiters, not of the queue.  That the duty   *)
(* to destroy the descriptor falls to one goroutine is LastInv.             *)
(***************************************************************************)
EXTENDS FdMutex, FiniteSetTheorems, TLAPS

-----------------------------------------------------------------------------
(* How a count changes when one element joins or leaves *)

\* A part of a finite set has a number of elements, zero only if it is empty.
LEMMA CountNat ==
    ASSUME NEW G, IsFiniteSet(G), NEW S \in SUBSET G
    PROVE  IsFiniteSet(S) /\ Cardinality(S) \in Nat /\ (Cardinality(S) = 0 <=> S = {})
  BY FS_Subset, FS_CardinalityType, FS_EmptySet

\* One element joins.
LEMMA CountJoin ==
    ASSUME NEW S, IsFiniteSet(S), NEW x, x \notin S, NEW T, T = S \cup {x}
    PROVE  IsFiniteSet(T) /\ Cardinality(T) = Cardinality(S) + 1
  BY FS_AddElement

\* One element leaves.
LEMMA CountLeave ==
    ASSUME NEW S, IsFiniteSet(S), NEW x, x \in S, NEW T, T = S \ {x}
    PROVE  IsFiniteSet(T) /\ Cardinality(T) = Cardinality(S) - 1
  BY FS_RemoveElement

\* The pairs of one x with the numbers 1 to k are k.
LEMMA CountPairs ==
    ASSUME NEW x, NEW k \in Nat
    PROVE  IsFiniteSet({x} \X (1..k)) /\ Cardinality({x} \X (1..k)) = k
<1>1. IsFiniteSet({x}) /\ Cardinality({x}) = 1
  BY FS_Singleton
<1>2. IsFiniteSet(1..k) /\ Cardinality(1..k) = k
  BY FS_Interval
<1>3. /\ IsFiniteSet({x} \X (1..k))
      /\ Cardinality({x} \X (1..k)) = Cardinality({x}) * Cardinality(1..k)
  BY <1>1, <1>2, FS_Product, Zenon
<1>4. Cardinality({x}) * Cardinality(1..k) = 1 * k
  BY <1>1, <1>2, Zenon
<1>5. 1 * k = k
  OBVIOUS
<1> QED BY <1>3, <1>4, <1>5, Zenon

\* Disjoint sets add up.
LEMMA CountDisjoint ==
    ASSUME NEW S, IsFiniteSet(S), NEW T, IsFiniteSet(T), S \cap T = {}
    PROVE  IsFiniteSet(S \cup T) /\ Cardinality(S \cup T) = Cardinality(S) + Cardinality(T)
  BY FS_Union, FS_EmptySet, FS_CardinalityType

-----------------------------------------------------------------------------
(* Queues that gain or lose an entry *)

\* The members of a queue.
Members(q) == {q[i] : i \in DOMAIN q}

\* Nobody is in the queue twice.
Distinct(q) == \A i, j \in DOMAIN q : q[i] = q[j] => i = j

\* The members of a queue of S are in S.
LEMMA MembersIn ==
    ASSUME NEW S, NEW q \in Seq(S)
    PROVE  Members(q) \subseteq S
  BY DEF Members

\* A newcomer at the end.
LEMMA AppendAdds ==
    ASSUME NEW S, NEW q \in Seq(S), NEW x \in S, x \notin Members(q), Distinct(q)
    PROVE  /\ Append(q, x) \in Seq(S) /\ Append(q, x) # <<>>
           /\ Members(Append(q, x)) = Members(q) \cup {x}
           /\ Distinct(Append(q, x))
<1> DEFINE r == Append(q, x)
<1>1. /\ r \in Seq(S) /\ r # <<>> /\ Len(q) \in Nat /\ DOMAIN q = 1..Len(q)
      /\ DOMAIN r = 1..(Len(q) + 1) /\ r[Len(q) + 1] = x
      /\ \A i \in 1..Len(q) : r[i] = q[i]
  OBVIOUS
<1>2. \A i \in 1..(Len(q) + 1) : i \in 1..Len(q) \/ i = Len(q) + 1
  BY <1>1
<1>3. \A i \in 1..Len(q) : i \in DOMAIN r
  BY <1>1
<1>4. Len(q) + 1 \in DOMAIN r
  BY <1>1
<1> HIDE DEF r
<1>5. Members(r) = Members(q) \cup {x}
  BY <1>1, <1>2, <1>3, <1>4 DEF Members
<1>6. Distinct(r)
  BY <1>1, <1>2 DEF Distinct, Members
<1> QED BY <1>1, <1>5, <1>6 DEF r

\* The first one leaves.
LEMMA TailRemoves ==
    ASSUME NEW S, NEW q \in Seq(S), q # <<>>, Distinct(q)
    PROVE  /\ Tail(q) \in Seq(S)
           /\ Head(q) \in S /\ Head(q) \in Members(q) /\ Head(q) \notin Members(Tail(q))
           /\ Members(Tail(q)) = Members(q) \ {Head(q)}
           /\ Distinct(Tail(q))
<1> DEFINE r == Tail(q)
<1>1. /\ r \in Seq(S) /\ Len(q) \in Nat /\ Len(q) >= 1 /\ DOMAIN q = 1..Len(q)
      /\ DOMAIN r = 1..(Len(q) - 1) /\ Head(q) = q[1] /\ Head(q) \in S
      /\ \A i \in 1..(Len(q) - 1) : r[i] = q[i + 1]
  OBVIOUS
<1> HIDE DEF r
<1>2. \A i \in 1..(Len(q) - 1) : i + 1 \in DOMAIN q /\ i + 1 # 1
  BY <1>1
<1>3. 1 \in DOMAIN q
  BY <1>1
<1>4. \A x : x \in Members(r) => x \in Members(q) \ {q[1]}
  <2> SUFFICES ASSUME NEW i \in 1..(Len(q) - 1)  PROVE r[i] \in Members(q) \ {q[1]}
    BY <1>1 DEF Members
  <2> QED BY <1>1, <1>2, <1>3 DEF Members, Distinct
<1>5. \A x : x \in Members(q) \ {q[1]} => x \in Members(r)
  <2> SUFFICES ASSUME NEW i \in 1..Len(q), q[i] # q[1]  PROVE q[i] \in Members(r)
    BY <1>1 DEF Members
  <2>1. i - 1 \in 1..(Len(q) - 1) /\ (i - 1) + 1 = i
    BY <1>1
  <2>2. r[i - 1] = q[i]
    BY <1>1, <2>1
  <2> QED BY <1>1, <2>1, <2>2 DEF Members
<1>6. Distinct(r)
  <2> SUFFICES ASSUME NEW i \in 1..(Len(q) - 1), NEW j \in 1..(Len(q) - 1), r[i] = r[j]
               PROVE  i = j
    BY <1>1 DEF Distinct
  <2>1. i + 1 = j + 1
    BY <1>1, <1>2 DEF Distinct
  <2> QED BY <1>1, <2>1
<1> QED BY <1>1, <1>3, <1>4, <1>5, <1>6 DEF r, Members

-----------------------------------------------------------------------------
(* The inductive invariant *)

\* Where an operation can be, and which lock it deals with.
ControlInv ==
    \A g \in Goroutine :
        /\ kind[g] \in Kind
        /\ kind[g] = "misc" =>
              pc[g] \in {"idle", "incref", "use", "release", "destroy", "signal", "signalled"}
        /\ kind[g] \in {"read", "write"} =>
              /\ pc[g] \in {"lock", "sleep", "use", "release", "dequeue", "destroy", "signal",
                            "signalled"}
              /\ mode[g] = IF kind[g] = "read" THEN "r" ELSE "w"
        /\ kind[g] = "close" =>
              pc[g] \in {"close", "release", "dequeue", "evict", "decref", "destroy", "signal",
                         "signalled", "closewait"}

\* Units are owed only by the loop that posts them: by an unlock, for its own
\* lock, or by Close before it evicts the descriptor.
ReleaseInv ==
    \A g \in Goroutine :
        /\ pc[g] \notin {"release", "dequeue"} => rel[g] = None
        /\ kind[g] = "misc" => rel[g] = None
        /\ kind[g] = "close" /\ evicted => rel[g] = None
        /\ kind[g] \in {"read", "write"} => \A m \in Mode : m # mode[g] => rel[g][m] = 0
        /\ pc[g] = "dequeue" => rel[g][mode[g]] >= 1

\* The goroutine whose increfAndClose has succeeded.
Closer(g) == kind[g] = "close" /\ pc[g] # "close"

\* There is one of them, and evicted says how far it has come.
CloserInv ==
    /\ \A g, h \in Goroutine : Closer(g) /\ Closer(h) => g = h
    /\ \A g \in Goroutine :
          /\ Closer(g) => closed
          /\ pc[g] = "evict" => ~evicted
          /\ pc[g] \in {"decref", "closewait"} => evicted
          /\ kind[g] = "close" /\ pc[g] \in {"destroy", "signal", "signalled"} => evicted
          /\ kind[g] = "close" /\ ~evicted => ~last[g]
    /\ evicted => closed
    /\ closed => wait = None

\* The duty to destroy the descriptor arises once, with the last reference, and
\* stays with one goroutine until it is done.
LastInv ==
    /\ \A g \in Goroutine :
          /\ last[g] => /\ pc[g] \in {"release", "dequeue", "destroy"}
                        /\ closed /\ ref = 0 /\ sysfd = "open"
          /\ pc[g] = "destroy" => last[g]
          /\ pc[g] = "signal" => sysfd = "destroyed"
    /\ \A g, h \in Goroutine : last[g] /\ last[h] => g = h
    /\ closed /\ sysfd = "open" => ref > 0 \/ \E g \in Goroutine : last[g]
    /\ sysfd = "destroyed" => closed /\ ref = 0
    /\ sema[csema] > 0 => sysfd = "destroyed"

\* Where the goroutines in the queue of a are asleep.
AsleepOn(g, a) == IF a = csema THEN pc[g] = "closewait" ELSE pc[g] = "sleep" /\ mode[g] = a

\* The queues hold goroutines that sleep there, each once.
QueueInv ==
    /\ \A a \in {"r", "w", "c"} :
          /\ Distinct(waitq[a])
          /\ \A g \in Members(waitq[a]) : AsleepOn(g, a) /\ sudog[g] = "queued"
    /\ \A g \in Goroutine : sudog[g] \in {"none", "queued"}

\* A lock that is free and has waiters is about to be taken or has a unit on its
\* way to a waiter.
ChainInv ==
    \A m \in Mode : ~overflowed /\ ~locked[m] /\ wait[m] > 0 =>
        \/ sema[m] > 0
        \/ \E g \in Goroutine : Unposted(g, m) > 0
        \/ \E g \in Goroutine : pc[g] = "lock" /\ mode[g] = m

IInv ==
    /\ TypeOK
    /\ WordExact
    /\ WaitersMatched
    /\ ControlInv
    /\ ReleaseInv
    /\ CloserInv
    /\ LastInv
    /\ QueueInv
    /\ ChainInv

-----------------------------------------------------------------------------
(* Units and counts *)

Sleepers(m) == {g \in At({"sleep"}) : mode[g] = m}

\* A vector of units is empty if both of its entries are zero.
LEMMA NoneMeans ==
    ASSUME NEW r \in [Mode -> 0..MaxCount]
    PROVE  r = None <=> r["r"] = 0 /\ r["w"] = 0
  BY DEF None, Mode

\* What a goroutine has to post is a count.
LEMMA UnpostedType ==
    ASSUME TypeOK, ReleaseInv, NEW g \in Goroutine, NEW m \in Mode
    PROVE  Unposted(g, m) \in 0..MaxCount
  BY FdMutexAssumption DEF Unposted, ReleaseInv, TypeOK, Mode

\* No units are due from a goroutine that owes none.
LEMMA NothingDue ==
    ASSUME TypeOK, ReleaseInv, NEW g \in Goroutine, rel[g] = None, NEW m \in Mode
    PROVE  Unposted(g, m) = 0
  BY DEF Unposted, None, ReleaseInv, TypeOK, Mode

\* The sets that are counted are finite.
LEMMA Finite ==
    /\ IsFiniteSet(Goroutine) /\ IsFiniteSet(Users) /\ Cardinality(Users) \in Nat
    /\ \A m \in Mode : /\ IsFiniteSet(Holders(m)) /\ Cardinality(Holders(m)) \in Nat
                       /\ IsFiniteSet(Sleepers(m)) /\ Cardinality(Sleepers(m)) \in Nat
                       /\ IsFiniteSet(Due(m)) /\ Cardinality(Due(m)) \in Nat
<1>1. IsFiniteSet(Goroutine) /\ MaxCount \in Nat
  BY FdMutexAssumption
<1>2. Users \in SUBSET Goroutine
  BY DEF Users, At
<1>3. \A m \in Mode : Holders(m) \in SUBSET Goroutine /\ Sleepers(m) \in SUBSET Goroutine
  BY DEF Holders, Sleepers, At
<1>4. IsFiniteSet(1..MaxCount)
  BY <1>1, FS_Interval
<1>5. IsFiniteSet(Goroutine \X (1..MaxCount))
  BY <1>1, <1>4, FS_Product, Zenon
<1>6. \A m \in Mode : Due(m) \in SUBSET (Goroutine \X (1..MaxCount))
  BY DEF Due
<1> QED BY <1>1, <1>2, <1>3, <1>5, <1>6, CountNat, Zenon

\* A goroutine begins to post n units.
LEMMA DueGains ==
    ASSUME NEW g \in Goroutine, NEW m \in Mode, NEW n \in 0..MaxCount,
           Unposted(g, m) = 0, Unposted(g, m)' = n,
           \A x \in Goroutine : x # g => Unposted(x, m)' = Unposted(x, m)
    PROVE  Cardinality(Due(m)') = Cardinality(Due(m)) + n
<1> DEFINE U == {g} \X (1..n)
<1>1. MaxCount \in Nat /\ n \in Nat
  BY FdMutexAssumption
<1>2. Due(m)' = Due(m) \cup U
  BY <1>1 DEF Due
<1>3. Due(m) \cap U = {}
  BY <1>1 DEF Due
<1>4. IsFiniteSet(U) /\ Cardinality(U) = n
  BY <1>1, CountPairs
<1> HIDE DEF U
<1> QED BY <1>2, <1>3, <1>4, CountDisjoint, Finite

\* A goroutine posts a unit.
LEMMA DueLoses ==
    ASSUME NEW g \in Goroutine, NEW m \in Mode, NEW n \in 1..MaxCount,
           Unposted(g, m) = n, Unposted(g, m)' = n - 1,
           \A x \in Goroutine : x # g => Unposted(x, m)' = Unposted(x, m)
    PROVE  Cardinality(Due(m)') = Cardinality(Due(m)) - 1
<1>1. MaxCount \in Nat
  BY FdMutexAssumption
<1>2. Due(m)' = Due(m) \ {<<g, n>>}
  BY <1>1 DEF Due
<1>3. <<g, n>> \in Due(m)
  BY <1>1 DEF Due
<1> QED BY <1>2, <1>3, CountLeave, Finite

\* Nothing becomes due and nothing is posted.
LEMMA DueStays ==
    ASSUME NEW m \in Mode, \A x \in Goroutine : Unposted(x, m)' = Unposted(x, m)
    PROVE  Due(m)' = Due(m)
  BY DEF Due

\* The number of the word's users and owners stays.
LEMMA WordStays ==
    ASSUME WordExact, ref' = ref, locked' = locked, Users' = Users,
           \A m \in Mode : Holders(m)' = Holders(m),
           \A g \in Goroutine : pc'[g] # "panic"
    PROVE  WordExact'
  BY DEF WordExact

\* A reference is taken ...
LEMMA UserJoins ==
    ASSUME WordExact, NEW g \in Goroutine, g \notin Users, Users' = Users \cup {g},
           ref' = ref + 1
    PROVE  ref' = Cardinality(Users')
  BY Finite, CountJoin DEF WordExact

\* ... and given back.
LEMMA UserLeaves ==
    ASSUME WordExact, NEW g \in Goroutine, g \in Users
    PROVE  /\ ref \in Nat /\ ref >= 1
           /\ Users' = Users \ {g} /\ ref' = ref - 1 => ref' = Cardinality(Users')
<1>1. Cardinality(Users) # 0
  BY Finite, CountNat, FS_EmptySet
<1>2. Users' = Users \ {g} => Cardinality(Users') = Cardinality(Users) - 1
  BY Finite, CountLeave
<1> QED BY <1>1, <1>2, Finite DEF WordExact

\* The waiters and what will wake them stay.
LEMMA MatchedStays ==
    ASSUME WaitersMatched,
           \A m \in Mode : Sleepers(m)' = Sleepers(m) /\ wait'[m] = wait[m] /\ sema'[m] = sema[m],
           \A x \in Goroutine, m \in Mode : Unposted(x, m)' = Unposted(x, m)
    PROVE  WaitersMatched'
  BY DueStays DEF WaitersMatched, Sleepers

-----------------------------------------------------------------------------
(* The queues *)

\* The queues hold goroutines.
LEMMA QueuedAre ==
    ASSUME TypeOK, NEW a \in {"r", "w", "c"}
    PROVE  Members(waitq[a]) \subseteq Goroutine
  BY MembersIn DEF TypeOK, SemaTypeOK

\* Whoever sleeps on goes on sleeping.
LEMMA QueueStays ==
    ASSUME TypeOK, QueueInv, UNCHANGED <<waitq, sudog>>,
           \A x \in Goroutine, a \in {"r", "w", "c"} : AsleepOn(x, a) => AsleepOn(x, a)'
    PROVE  QueueInv'
  BY QueuedAre DEF QueueInv

\* A goroutine goes to sleep.
LEMMA QueueSleeps ==
    ASSUME TypeOK, QueueInv, NEW g \in Goroutine, NEW a \in {"r", "w", "c"}, AsleepOn(g, a),
           SemSleep(g, a, FALSE), UNCHANGED <<pc, mode>>
    PROVE  QueueInv' /\ SemaTypeOK'
<1> DEFINE q == Append(waitq[a], g)
<1>1. waitq[a] \in Seq(Goroutine) /\ g \notin Members(waitq[a]) /\ Distinct(waitq[a])
  BY DEF QueueInv, SemSleep, TypeOK, SemaTypeOK
<1>2. q \in Seq(Goroutine) /\ Members(q) = Members(waitq[a]) \cup {g} /\ Distinct(q)
  BY <1>1, AppendAdds
<1> HIDE DEF q
<1>3. /\ sema' = sema /\ waitq' = [waitq EXCEPT ![a] = q]
      /\ sudog' = [sudog EXCEPT ![g] = "queued"]
  BY DEF SemSleep, Enqueue, q
<1>4. SemaTypeOK'
  BY <1>2, <1>3 DEF TypeOK, SemaTypeOK, SudogState
<1>5. \A x \in Goroutine, b \in {"r", "w", "c"} : AsleepOn(x, b)' = AsleepOn(x, b)
  BY DEF AsleepOn
<1>6. \A b \in {"r", "w", "c"} : waitq'[b] = IF b = a THEN q ELSE waitq[b]
  BY <1>3 DEF TypeOK, SemaTypeOK
<1>7. \A x \in Goroutine : sudog'[x] = IF x = g THEN "queued" ELSE sudog[x]
  BY <1>3 DEF TypeOK, SemaTypeOK
<1> QED BY <1>2, <1>4, <1>5, <1>6, <1>7, QueuedAre DEF QueueInv

\* A sleeper is taken out of its queue.
LEMMA QueueWakes ==
    ASSUME TypeOK, QueueInv, NEW a \in {"r", "w", "c"}, SemDequeue(a, FALSE),
           \A x \in Goroutine, b \in {"r", "w", "c"} : AsleepOn(x, b) => AsleepOn(x, b)'
    PROVE  QueueInv' /\ SemaTypeOK'
<1> DEFINE h == Head(waitq[a])
<1> DEFINE q == Tail(waitq[a])
<1>1. waitq[a] \in Seq(Goroutine) /\ waitq[a] # <<>> /\ Distinct(waitq[a])
  BY DEF QueueInv, SemDequeue, TypeOK, SemaTypeOK
<1>2. /\ q \in Seq(Goroutine) /\ Members(q) = Members(waitq[a]) \ {h} /\ Distinct(q)
      /\ h \in Goroutine /\ h \in Members(waitq[a])
  BY <1>1, TailRemoves
<1> HIDE DEF q, h
<1>3. /\ sema' = sema /\ waitq' = [waitq EXCEPT ![a] = q]
      /\ sudog' = [sudog EXCEPT ![h] = "none"]
  BY DEF SemDequeue, q, h
<1>4. SemaTypeOK'
  BY <1>2, <1>3 DEF TypeOK, SemaTypeOK, SudogState
<1>5. \A b \in {"r", "w", "c"} : b # a => h \notin Members(waitq[b])
  BY <1>2 DEF QueueInv, AsleepOn, csema
<1>6. \A b \in {"r", "w", "c"} : waitq'[b] = IF b = a THEN q ELSE waitq[b]
  BY <1>3 DEF TypeOK, SemaTypeOK
<1>7. \A x \in Goroutine : sudog'[x] = IF x = h THEN "none" ELSE sudog[x]
  BY <1>3 DEF TypeOK, SemaTypeOK
<1> QED BY <1>2, <1>4, <1>5, <1>6, <1>7, QueuedAre DEF QueueInv

\* A goroutine that takes a unit is in no queue.
LEMMA QueueLeaves ==
    ASSUME TypeOK, QueueInv, NEW g \in Goroutine, NEW a \in {"r", "w", "c"}, SemAcquired(g, a),
           \A x \in Goroutine, b \in {"r", "w", "c"} :
               x # g /\ AsleepOn(x, b) => AsleepOn(x, b)'
    PROVE  /\ QueueInv' /\ SemaTypeOK'
           /\ sema[a] > 0 /\ sema' = [sema EXCEPT ![a] = @ - 1] /\ UNCHANGED <<waitq, sudog>>
<1>1. sudog[g] = "none"
  BY DEF QueueInv, SemAcquired
<1>2. /\ sema[a] > 0 /\ sema' = [sema EXCEPT ![a] = @ - 1] /\ waitq' = waitq
      /\ sudog' = [sudog EXCEPT ![g] = "none"]
  BY <1>1 DEF SemAcquired, cansemacquire
<1>3. sudog' = sudog
  BY <1>1, <1>2 DEF TypeOK, SemaTypeOK
<1>4. SemaTypeOK'
  BY <1>2, <1>3 DEF TypeOK, SemaTypeOK
<1>5. \A b \in {"r", "w", "c"} : g \notin Members(waitq[b])
  BY <1>1 DEF QueueInv
<1> QED BY <1>2, <1>3, <1>4, <1>5, QueuedAre DEF QueueInv

-----------------------------------------------------------------------------
(* One lemma per action *)

\* A call begins.
LEMMA CallKeeps == ASSUME IInv, NEW g \in Goroutine, NEW k \in Kind, Call(g, k)  PROVE IInv'
<1> USE DEF IInv, Mode, sem, Goto, Call, Kind
<1>1. TypeOK'
  BY FdMutexAssumption DEF TypeOK, PC, AllKinds, Kind, None, SemaTypeOK, SudogState
<1>2. WordExact'
  <2>1. Users' = Users /\ \A m \in Mode : Holders(m)' = Holders(m)
    BY DEF TypeOK, Users, Holders, At, ControlInv, CloserInv, Closer, Kind
  <2>2. \A x \in Goroutine : pc'[x] # "panic"
    BY DEF TypeOK, ControlInv, WordExact
  <2> QED BY <2>1, <2>2, WordStays
<1>3. WaitersMatched'
  <2>1. \A m \in Mode : Sleepers(m)' = Sleepers(m)
    BY DEF TypeOK, Sleepers, At, ControlInv
  <2>2. \A x \in Goroutine, m \in Mode : Unposted(x, m)' = Unposted(x, m)
    BY NothingDue DEF TypeOK, Unposted, ReleaseInv, ControlInv, None
  <2> QED BY <2>1, <2>2, MatchedStays
<1>4. ControlInv'
  BY DEF TypeOK, ControlInv, Kind
<1>5. ReleaseInv'
  BY NoneMeans DEF TypeOK, ReleaseInv, ControlInv, CloserInv, Closer, None, Kind
<1>6. CloserInv'
  BY DEF TypeOK, CloserInv, Closer, ControlInv, LastInv, None, Kind
<1>7. LastInv'
  BY DEF TypeOK, SemaTypeOK, LastInv, ControlInv, CloserInv, Kind
<1>8. QueueInv'
  BY QueueStays DEF TypeOK, AsleepOn, csema
<1>9. ChainInv'
  BY DEF TypeOK, SemaTypeOK, ChainInv, Unposted, ReleaseInv, ControlInv, CloserInv, None
<1> QED BY <1>1, <1>2, <1>3, <1>4, <1>5, <1>6, <1>7, <1>8, <1>9


\* A call that returns an error, or panics on an overflow.
LEMMA FailsKeeps ==
    ASSUME IInv, NEW g \in Goroutine, pc[g] \in {"incref", "lock", "close"}, Fails(g),
           UNCHANGED <<isBlocking, evicted, sysfd, last, rel, sem>>,
           overflowed' \in BOOLEAN, overflowed => overflowed',
           pc[g] = "lock" => overflowed' \/ closed \/ locked[mode[g]]
    PROVE  IInv'
<1> USE DEF IInv, Mode, sem, Goto, Fails
<1>1. TypeOK'
  BY DEF TypeOK, PC, AllKinds, Kind, SemaTypeOK
<1>2. WordExact'
  <2>1. Users' = Users /\ \A m \in Mode : Holders(m)' = Holders(m)
    BY DEF TypeOK, Users, Holders, At
  <2>2. \A x \in Goroutine : pc'[x] # "panic"
    BY DEF TypeOK, WordExact
  <2> QED BY <2>1, <2>2, WordStays
<1>3. WaitersMatched'
  <2>1. \A m \in Mode : Sleepers(m)' = Sleepers(m)
    BY DEF TypeOK, Sleepers, At
  <2>2. \A x \in Goroutine, m \in Mode : Unposted(x, m)' = Unposted(x, m)
    BY DEF TypeOK, Unposted
  <2> QED BY <2>1, <2>2, MatchedStays
<1>4. ControlInv'
  BY DEF TypeOK, ControlInv, Kind
<1>5. ReleaseInv'
  BY DEF TypeOK, ReleaseInv
<1>6. CloserInv'
  BY DEF TypeOK, CloserInv, Closer
<1>7. LastInv'
  BY DEF TypeOK, LastInv
<1>8. QueueInv'
  BY QueueStays DEF TypeOK, AsleepOn, csema
<1>9. ChainInv'
  <2>1. \A x \in Goroutine, m \in Mode : Unposted(x, m)' = Unposted(x, m)
    BY DEF TypeOK, Unposted
  <2> SUFFICES ASSUME NEW m \in Mode, ~overflowed', ~locked[m], wait[m] > 0
               PROVE  \/ sema[m] > 0
                      \/ \E x \in Goroutine : Unposted(x, m) > 0
                      \/ \E x \in Goroutine : pc'[x] = "lock" /\ mode[x] = m
    BY <2>1 DEF ChainInv
  <2>2. ~closed
    BY DEF CloserInv, None
  <2> QED BY <2>2 DEF ChainInv, TypeOK
<1> QED BY <1>1, <1>2, <1>3, <1>4, <1>5, <1>6, <1>7, <1>8, <1>9

\* A reference is refused or taken.
LEMMA increfKeeps == ASSUME IInv, NEW g \in Goroutine, incref(g)  PROVE IInv'
<1> USE DEF IInv, Mode
<1>1. CASE Fails(g)
  BY <1>1, FailsKeeps DEF incref, TypeOK
<1>2. CASE ~closed /\ ~Overflows(ref) /\ ref' = ref + 1 /\ Goto(g, "use")
           /\ UNCHANGED <<closed, locked, wait, mode>>
  <2>1. /\ pc[g] = "incref" /\ ~closed /\ ref # MaxCount /\ ref' = ref + 1
        /\ pc' = [pc EXCEPT ![g] = "use"] /\ kind' = kind
        /\ UNCHANGED <<closed, locked, wait, mode, overflowed, isBlocking, evicted, sysfd,
                       last, rel, sema, waitq, sudog>>
    BY <1>2 DEF incref, Overflows, Goto, sem
  <2>2. TypeOK'
    <3>1. ref \in 0..MaxCount /\ MaxCount \in Nat
      BY FdMutexAssumption DEF TypeOK
    <3>2. ref' \in 0..MaxCount
      BY <2>1, <3>1
    <3> QED BY <2>1, <3>2 DEF TypeOK, PC, SemaTypeOK
  <2>3. kind[g] = "misc"
    BY <2>1 DEF ControlInv, Kind
  <2>4. WordExact'
    <3>1. g \notin Users /\ Users' = Users \cup {g}
      BY <2>1, <2>3 DEF TypeOK, Users, At
    <3>2. \A m \in Mode : Holders(m)' = Holders(m)
      BY <2>1, <2>3 DEF TypeOK, Holders, At
    <3>3. \A x \in Goroutine : pc'[x] # "panic"
      BY <2>1 DEF TypeOK, WordExact
    <3> QED BY <2>1, <3>1, <3>2, <3>3, UserJoins DEF WordExact
  <2>5. \A x \in Goroutine, m \in Mode : Unposted(x, m)' = Unposted(x, m)
    BY <2>1 DEF TypeOK, Unposted
  <2>6. WaitersMatched'
    <3>1. \A m \in Mode : Sleepers(m)' = Sleepers(m)
      BY <2>1 DEF TypeOK, Sleepers, At
    <3> QED BY <2>1, <2>5, <3>1, MatchedStays
  <2>7. ControlInv' /\ ReleaseInv' /\ CloserInv'
    BY <2>1, <2>3 DEF TypeOK, ControlInv, ReleaseInv, CloserInv, Closer
  <2>8. LastInv'
    BY <2>1, <2>3 DEF TypeOK, LastInv
  <2>9. QueueInv'
    BY <2>1, QueueStays DEF TypeOK, AsleepOn, csema
  <2>10. ChainInv'
    BY <2>1, <2>5 DEF TypeOK, ChainInv
  <2> QED BY <2>2, <2>4, <2>6, <2>7, <2>8, <2>9, <2>10
<1> QED BY <1>1, <1>2 DEF incref

\* The lock is refused, taken, or waited for.
LEMMA rwlockKeeps == ASSUME IInv, NEW g \in Goroutine, rwlock(g)  PROVE IInv'
<1> USE DEF IInv, Mode
<1> DEFINE m == mode[g]
<1>1. /\ pc[g] = "lock" /\ m \in Mode
      /\ UNCHANGED <<isBlocking, evicted, sysfd, last, rel, sem>>
  BY DEF rwlock, TypeOK
<1>2. kind[g] \in {"read", "write"} /\ m = IF kind[g] = "read" THEN "r" ELSE "w"
  BY <1>1 DEF ControlInv, Kind
<1>3. CASE /\ Fails(g)
           /\ \/ (closed \/ ~Free(m)) /\ overflowed' = overflowed
              \/ overflowed' = TRUE
  <2>1. overflowed' \in BOOLEAN /\ (overflowed => overflowed')
    <3>1. overflowed \in BOOLEAN
      BY DEF TypeOK
    <3>2. overflowed' = overflowed \/ overflowed' = TRUE
      BY <1>3
    <3>3. CASE overflowed' = overflowed
      BY <3>1, <3>3
    <3>4. CASE overflowed' = TRUE
      BY <3>4
    <3> QED BY <3>2, <3>3, <3>4
  <2>2. overflowed' \/ closed \/ locked[mode[g]]
    BY <1>3 DEF Free
  <2>3. pc[g] \in {"incref", "lock", "close"}
    BY <1>1
  <2> QED BY <1>1, <1>3, <2>1, <2>2, <2>3, FailsKeeps
<1>4. CASE /\ ~closed /\ Free(m) /\ ~Overflows(ref)
           /\ locked' = [locked EXCEPT ![m] = TRUE]
           /\ ref' = ref + 1
           /\ mode' = [mode EXCEPT ![g] = m] /\ Goto(g, "use")
           /\ UNCHANGED <<closed, wait, overflowed>>
  <2>1. /\ ~closed /\ ~locked[m] /\ ref # MaxCount /\ ref' = ref + 1
        /\ locked' = [locked EXCEPT ![m] = TRUE]
        /\ pc' = [pc EXCEPT ![g] = "use"] /\ kind' = kind /\ mode' = mode
        /\ UNCHANGED <<closed, wait, overflowed, isBlocking, evicted, sysfd, last, rel,
                       sema, waitq, sudog>>
    BY <1>1, <1>4 DEF Overflows, Free, Goto, sem, TypeOK
  <2>2. TypeOK'
    <3>1. ref' \in 0..MaxCount
      BY <2>1, FdMutexAssumption DEF TypeOK
    <3> QED BY <1>1, <2>1, <3>1 DEF TypeOK, PC, SemaTypeOK
  <2>3. WordExact'
    <3>1. g \notin Users /\ Users' = Users \cup {g}
      BY <1>1, <2>1 DEF TypeOK, Users, At
    <3>2. Holders(m)' = Holders(m) \cup {g} /\ g \notin Holders(m)
      BY <1>1, <1>2, <2>1 DEF TypeOK, Holders, At
    <3>3. \A x \in Mode : x # m => Holders(x)' = Holders(x)
      BY <1>1, <1>2, <2>1 DEF TypeOK, Holders, At
    <3>4. Cardinality(Holders(m)') = Cardinality(Holders(m)) + 1
      BY <1>1, <3>2, Finite, CountJoin
    <3>5. \A x \in Goroutine : pc'[x] # "panic"
      BY <1>1, <2>1 DEF TypeOK, WordExact
    <3>6. ref' = Cardinality(Users')
      BY <2>1, <3>1, UserJoins
    <3>7. \A x \in Mode : Cardinality(Holders(x)') = IF locked'[x] THEN 1 ELSE 0
      BY <1>1, <2>1, <3>3, <3>4 DEF WordExact, TypeOK
    <3> QED BY <3>5, <3>6, <3>7 DEF WordExact
  <2>4. \A x \in Goroutine, y \in Mode : Unposted(x, y)' = Unposted(x, y)
    BY <1>1, <2>1 DEF TypeOK, Unposted
  <2>5. WaitersMatched'
    <3>1. \A y \in Mode : Sleepers(y)' = Sleepers(y)
      BY <1>1, <2>1 DEF TypeOK, Sleepers, At
    <3> QED BY <2>1, <2>4, <3>1, MatchedStays
  <2>6. ControlInv' /\ ReleaseInv' /\ CloserInv'
    BY <1>1, <1>2, <2>1 DEF TypeOK, ControlInv, ReleaseInv, CloserInv, Closer
  <2>7. LastInv'
    BY <1>1, <2>1 DEF TypeOK, LastInv
  <2>8. QueueInv'
    BY <1>1, <2>1, QueueStays DEF TypeOK, AsleepOn, csema
  <2>9. ChainInv'
    BY <1>1, <2>1, <2>4 DEF TypeOK, ChainInv
  <2> QED BY <2>2, <2>3, <2>5, <2>6, <2>7, <2>8, <2>9
<1>5. CASE /\ ~closed /\ ~Free(m) /\ ~Overflows(wait[m])
           /\ wait' = [wait EXCEPT ![m] = @ + 1]
           /\ Goto(g, "sleep")
           /\ UNCHANGED <<closed, locked, ref, mode, overflowed>>
  <2>1. /\ ~closed /\ locked[m] /\ wait[m] # MaxCount
        /\ wait' = [wait EXCEPT ![m] = wait[m] + 1]
        /\ pc' = [pc EXCEPT ![g] = "sleep"] /\ kind' = kind
        /\ UNCHANGED <<closed, locked, ref, mode, overflowed, isBlocking, evicted, sysfd,
                       last, rel, sema, waitq, sudog>>
    BY <1>1, <1>5 DEF Overflows, Free, Goto, sem
  <2>2. TypeOK'
    <3>1. wait[m] + 1 \in 0..MaxCount
      BY <1>1, <2>1, FdMutexAssumption DEF TypeOK
    <3> QED BY <1>1, <2>1, <3>1 DEF TypeOK, PC, SemaTypeOK
  <2>3. WordExact'
    <3>1. Users' = Users /\ \A x \in Mode : Holders(x)' = Holders(x)
      BY <1>1, <2>1 DEF TypeOK, Users, Holders, At
    <3>2. \A x \in Goroutine : pc'[x] # "panic"
      BY <2>1 DEF TypeOK, WordExact
    <3> QED BY <2>1, <3>1, <3>2, WordStays
  <2>4. \A x \in Goroutine, y \in Mode : Unposted(x, y)' = Unposted(x, y)
    BY <1>1, <2>1 DEF TypeOK, Unposted
  <2>5. WaitersMatched'
    <3> SUFFICES ASSUME NEW y \in Mode
                 PROVE  Cardinality(Sleepers(y)') = wait'[y] + sema'[y] + Cardinality(Due(y)')
      BY DEF WaitersMatched, Sleepers
    <3>1. Due(y)' = Due(y)
      BY <2>4, DueStays
    <3>2. Cardinality(Sleepers(y)) = wait[y] + sema[y] + Cardinality(Due(y))
      BY DEF WaitersMatched, Sleepers
    <3>3. CASE y = m
      <4>1. g \notin Sleepers(y) /\ Sleepers(y)' = Sleepers(y) \cup {g}
        BY <1>1, <2>1, <3>3 DEF TypeOK, Sleepers, At
      <4>2. Cardinality(Sleepers(y)') = Cardinality(Sleepers(y)) + 1
        BY <4>1, Finite, CountJoin
      <4>3. wait'[y] = wait[y] + 1 /\ sema'[y] = sema[y]
        BY <1>1, <2>1, <3>3 DEF TypeOK
      <4>4. wait[y] \in Nat /\ sema[y] \in Nat /\ Cardinality(Due(y)) \in Nat
        BY Finite DEF TypeOK, SemaTypeOK
      <4> QED BY <3>1, <3>2, <4>2, <4>3, <4>4
    <3>4. CASE y # m
      <4>1. Sleepers(y)' = Sleepers(y)
        BY <1>1, <2>1, <3>4 DEF TypeOK, Sleepers, At
      <4> QED BY <1>1, <2>1, <3>1, <3>2, <3>4, <4>1 DEF TypeOK
    <3> QED BY <3>3, <3>4
  <2>6. ControlInv' /\ ReleaseInv' /\ CloserInv'
    BY <1>1, <1>2, <2>1 DEF TypeOK, ControlInv, ReleaseInv, CloserInv, Closer
  <2>7. LastInv'
    BY <1>1, <2>1 DEF TypeOK, LastInv
  <2>8. QueueInv'
    BY <1>1, <2>1, QueueStays DEF TypeOK, AsleepOn, csema
  <2>9. ChainInv'
    BY <1>1, <2>1, <2>4 DEF TypeOK, ChainInv
  <2> QED BY <2>2, <2>3, <2>5, <2>6, <2>7, <2>8, <2>9
<1> QED BY <1>2, <1>3, <1>4, <1>5 DEF rwlock

\* A waiter falls asleep, or has a unit and tries again.
LEMMA SemacquireKeeps == ASSUME IInv, NEW g \in Goroutine, Semacquire(g)  PROVE IInv'
<1> USE DEF IInv, Mode
<1> DEFINE m == mode[g]
<1>1. /\ pc[g] = "sleep" /\ m \in {"r", "w", "c"} /\ m \in Mode /\ AsleepOn(g, m)
      /\ UNCHANGED <<closed, locked, ref, wait, overflowed, isBlocking, evicted, sysfd, mode,
                     last, rel>>
  BY DEF Semacquire, TypeOK, AsleepOn, csema
<1>2. kind[g] \in {"read", "write"} /\ m = IF kind[g] = "read" THEN "r" ELSE "w"
  BY <1>1 DEF ControlInv, Kind
<1>3. CASE SemSleep(g, m, FALSE) /\ UNCHANGED <<pc, kind>>
  <2>1. QueueInv' /\ SemaTypeOK'
    BY <1>1, <1>3, QueueSleeps
  <2>2. sema' = sema
    BY <1>3 DEF SemSleep
  <2>3. TypeOK'
    BY <1>1, <1>3, <2>1 DEF TypeOK
  <2>4. Users' = Users /\ \A y \in Mode : Holders(y)' = Holders(y) /\ Sleepers(y)' = Sleepers(y)
    BY <1>1, <1>3 DEF Users, Holders, Sleepers, At
  <2>5. \A x \in Goroutine, y \in Mode : Unposted(x, y)' = Unposted(x, y)
    BY <1>1, <1>3 DEF Unposted
  <2>6. WordExact'
    BY <1>1, <1>3, <2>4, WordStays DEF WordExact
  <2>7. WaitersMatched'
    BY <1>1, <2>2, <2>4, <2>5, MatchedStays
  <2>8. ControlInv' /\ ReleaseInv' /\ CloserInv' /\ LastInv'
    BY <1>1, <1>3, <2>2 DEF ControlInv, ReleaseInv, CloserInv, Closer, LastInv
  <2>9. ChainInv'
    BY <1>1, <1>3, <2>2, <2>5 DEF ChainInv
  <2> QED BY <2>1, <2>3, <2>6, <2>7, <2>8, <2>9
<1>4. CASE SemAcquired(g, m) /\ Goto(g, "lock")
  <2>1. pc' = [pc EXCEPT ![g] = "lock"] /\ kind' = kind
    BY <1>4 DEF Goto
  <2>2. \A x \in Goroutine, b \in {"r", "w", "c"} : x # g /\ AsleepOn(x, b) => AsleepOn(x, b)'
    BY <1>1, <2>1 DEF TypeOK, AsleepOn
  <2>3. /\ QueueInv' /\ SemaTypeOK'
        /\ sema[m] > 0 /\ sema' = [sema EXCEPT ![m] = @ - 1] /\ UNCHANGED <<waitq, sudog>>
    BY <1>1, <1>4, <2>2, QueueLeaves
  <2>4. TypeOK'
    BY <1>1, <2>1, <2>3 DEF TypeOK, PC
  <2>5. WordExact'
    <3>1. Users' = Users /\ \A y \in Mode : Holders(y)' = Holders(y)
      BY <1>1, <2>1 DEF TypeOK, Users, Holders, At
    <3>2. \A x \in Goroutine : pc'[x] # "panic"
      BY <2>1 DEF TypeOK, WordExact
    <3> QED BY <1>1, <3>1, <3>2, WordStays
  <2>6. \A x \in Goroutine, y \in Mode : Unposted(x, y)' = Unposted(x, y)
    BY <1>1, <2>1 DEF TypeOK, Unposted
  <2>7. WaitersMatched'
    <3> SUFFICES ASSUME NEW y \in Mode
                 PROVE  Cardinality(Sleepers(y)') = wait'[y] + sema'[y] + Cardinality(Due(y)')
      BY DEF WaitersMatched, Sleepers
    <3>1. Due(y)' = Due(y)
      BY <2>6, DueStays
    <3>2. Cardinality(Sleepers(y)) = wait[y] + sema[y] + Cardinality(Due(y))
      BY DEF WaitersMatched, Sleepers
    <3>3. CASE y = m
      <4>1. g \in Sleepers(y) /\ Sleepers(y)' = Sleepers(y) \ {g}
        BY <1>1, <2>1, <3>3 DEF TypeOK, Sleepers, At
      <4>2. Cardinality(Sleepers(y)') = Cardinality(Sleepers(y)) - 1
        BY <4>1, Finite, CountLeave
      <4>3. wait'[y] = wait[y] /\ sema'[y] = sema[y] - 1
        BY <1>1, <2>3, <3>3 DEF TypeOK, SemaTypeOK
      <4>4. wait[y] \in Nat /\ sema[y] \in Nat /\ Cardinality(Due(y)) \in Nat
        BY Finite DEF TypeOK, SemaTypeOK
      <4> QED BY <3>1, <3>2, <4>2, <4>3, <4>4
    <3>4. CASE y # m
      <4>1. Sleepers(y)' = Sleepers(y)
        BY <1>1, <2>1, <3>4 DEF TypeOK, Sleepers, At
      <4> QED BY <1>1, <2>3, <3>1, <3>2, <3>4, <4>1 DEF TypeOK, SemaTypeOK
    <3> QED BY <3>3, <3>4
  <2>8. ControlInv' /\ ReleaseInv' /\ CloserInv'
    BY <1>1, <1>2, <2>1 DEF TypeOK, ControlInv, ReleaseInv, CloserInv, Closer
  <2>9. LastInv'
    BY <1>1, <2>1, <2>3 DEF TypeOK, SemaTypeOK, LastInv, csema
  <2>10. ChainInv'
    BY <1>1, <2>1, <2>3, <2>6 DEF TypeOK, SemaTypeOK, ChainInv
  <2> QED BY <2>3, <2>4, <2>5, <2>7, <2>8, <2>9, <2>10
<1> QED BY <1>3, <1>4 DEF Semacquire

\* Close takes its reference and makes itself responsible for all waiters.
LEMMA increfAndCloseKeeps == ASSUME IInv, NEW g \in Goroutine, increfAndClose(g)  PROVE IInv'
<1> USE DEF IInv, Mode
<1>1. /\ pc[g] = "close"
      /\ UNCHANGED <<overflowed, isBlocking, evicted, sysfd, last, sem>>
  BY DEF increfAndClose
<1>2. CASE Fails(g) /\ UNCHANGED rel
  BY <1>1, <1>2, FailsKeeps DEF TypeOK
<1>3. CASE /\ ~closed /\ ~Overflows(ref) /\ closed' = TRUE /\ ref' = ref + 1
           /\ wait' = waitCleared /\ rel' = [rel EXCEPT ![g] = wait] /\ Goto(g, "release")
           /\ UNCHANGED <<locked, mode>>
  <2>1. /\ ~closed /\ ref # MaxCount /\ closed' = TRUE /\ ref' = ref + 1 /\ wait' = None
        /\ rel' = [rel EXCEPT ![g] = wait]
        /\ pc' = [pc EXCEPT ![g] = "release"] /\ kind' = kind
        /\ UNCHANGED <<locked, mode, overflowed, isBlocking, evicted, sysfd, last, sema,
                       waitq, sudog>>
    BY <1>1, <1>3 DEF Overflows, waitCleared, Goto, sem
  <2>2. kind[g] = "close" /\ ~evicted /\ rel[g] = None
    BY <1>1, <2>1 DEF ControlInv, Kind, CloserInv, ReleaseInv
  <2>3. TypeOK'
    <3>1. ref \in 0..MaxCount /\ MaxCount \in Nat /\ None \in [Mode -> 0..MaxCount]
      BY FdMutexAssumption DEF TypeOK, None
    <3>2. ref' \in 0..MaxCount
      BY <2>1, <3>1
    <3> QED BY <2>1, <3>1, <3>2 DEF TypeOK, PC, SemaTypeOK
  <2>4. WordExact'
    <3>1. g \notin Users /\ Users' = Users \cup {g}
      BY <1>1, <2>1, <2>2 DEF TypeOK, Users, At
    <3>2. \A m \in Mode : Holders(m)' = Holders(m)
      BY <1>1, <2>1, <2>2 DEF TypeOK, Holders, At
    <3>3. \A x \in Goroutine : pc'[x] # "panic"
      BY <2>1 DEF TypeOK, WordExact
    <3> QED BY <2>1, <3>1, <3>2, <3>3, UserJoins DEF WordExact
  <2>5. WaitersMatched'
    <3> SUFFICES ASSUME NEW y \in Mode
                 PROVE  Cardinality(Sleepers(y)') = wait'[y] + sema'[y] + Cardinality(Due(y)')
      BY DEF WaitersMatched, Sleepers
    <3>1. Cardinality(Sleepers(y)) = wait[y] + sema[y] + Cardinality(Due(y))
      BY DEF WaitersMatched, Sleepers
    <3>2. Sleepers(y)' = Sleepers(y)
      BY <1>1, <2>1 DEF TypeOK, Sleepers, At
    <3>3. Unposted(g, y) = 0 /\ Unposted(g, y)' = wait[y] /\ wait[y] \in 0..MaxCount
      <4>1. Unposted(g, y) = 0
        BY <2>2, NothingDue
      <4> QED BY <1>1, <2>1, <4>1 DEF Unposted, TypeOK
    <3>4. \A x \in Goroutine : x # g => Unposted(x, y)' = Unposted(x, y)
      BY <2>1 DEF Unposted, TypeOK
    <3>5. Cardinality(Due(y)') = Cardinality(Due(y)) + wait[y]
      BY <3>3, <3>4, DueGains
    <3>6. wait'[y] = 0 /\ sema'[y] = sema[y]
      BY <2>1 DEF None
    <3>7. wait[y] \in Nat /\ sema[y] \in Nat /\ Cardinality(Due(y)) \in Nat
      BY Finite DEF TypeOK, SemaTypeOK
    <3> QED BY <3>1, <3>2, <3>5, <3>6, <3>7
  <2>6. ControlInv' /\ ReleaseInv'
    BY <1>1, <2>1, <2>2 DEF TypeOK, ControlInv, ReleaseInv
  <2>7. CloserInv'
    BY <1>1, <2>1, <2>2 DEF TypeOK, CloserInv, Closer, ControlInv, LastInv
  <2>8. LastInv'
    <3>1. ref' > 0
      BY <2>1 DEF TypeOK
    <3> QED BY <1>1, <2>1, <3>1 DEF TypeOK, LastInv
  <2>9. QueueInv'
    BY <1>1, <2>1, QueueStays DEF TypeOK, AsleepOn, csema
  <2>10. ChainInv'
    BY <2>1 DEF ChainInv, None
  <2> QED BY <2>3, <2>4, <2>5, <2>6, <2>7, <2>8, <2>9, <2>10
<1> QED BY <1>2, <1>3 DEF increfAndClose

\* Whoever drops the last reference of a closed descriptor has to destroy it.
LEMMA LastLeaves ==
    ASSUME IInv, NEW g \in Goroutine, pc[g] \in {"use", "decref"}, ref \in Nat, ref >= 1,
           ref' = ref - 1, last' = [last EXCEPT ![g] = closed /\ ref - 1 = 0],
           pc' = [pc EXCEPT ![g] = "release"], UNCHANGED <<closed, sysfd, sema>>
    PROVE  LastInv'
<1> USE DEF IInv
<1>1. \A x \in Goroutine : ~last[x]
  BY DEF LastInv
<1>2. sysfd = "open" /\ (sema[csema] > 0 => sysfd = "destroyed")
  BY DEF LastInv, TypeOK
<1>3. \A x \in Goroutine : last'[x] <=> (x = g /\ closed /\ ref - 1 = 0)
  BY <1>1 DEF TypeOK
<1>4. \A x \in Goroutine : pc'[x] = IF x = g THEN "release" ELSE pc[x]
  BY DEF TypeOK
<1>5. \A x \in Goroutine : pc[x] # "destroy" /\ pc[x] # "signal"
  BY <1>1, <1>2 DEF LastInv
<1>6. \A x \in Goroutine :
          /\ last'[x] => pc'[x] = "release" /\ closed' /\ ref' = 0 /\ sysfd' = "open"
          /\ pc'[x] # "destroy" /\ pc'[x] # "signal"
  BY <1>2, <1>3, <1>4, <1>5
<1>7. ref' > 0 \/ ref' = 0
  OBVIOUS
<1>8. closed' => ref' > 0 \/ \E x \in Goroutine : last'[x]
  BY <1>3, <1>7
<1> QED BY <1>2, <1>3, <1>6, <1>8 DEF LastInv

\* A unit is posted: it is no longer due but in the semaphore.
LEMMA SemreleaseKeeps == ASSUME IInv, NEW g \in Goroutine, Semrelease(g)  PROVE IInv'
<1> USE DEF IInv, Mode
<1> PICK m \in Mode : m = IF rel[g]["r"] > 0 THEN "r" ELSE "w"
  OBVIOUS
<1>1. /\ pc[g] = "release" /\ rel[g] # None
      /\ pc' = [pc EXCEPT ![g] = "dequeue"] /\ kind' = kind
      /\ mode' = [mode EXCEPT ![g] = IF kind[g] = "close" THEN m ELSE mode[g]]
      /\ sema' = [sema EXCEPT ![m] = sema[m] + 1]
      /\ UNCHANGED <<closed, locked, ref, wait, overflowed, isBlocking, evicted, sysfd, last,
                     rel, waitq, sudog>>
  BY DEF Semrelease, Goto, SemXadd
<1>2. rel[g] \in [Mode -> 0..MaxCount] /\ MaxCount \in Nat
  BY FdMutexAssumption DEF TypeOK
<1>3. rel[g][m] \in 1..MaxCount
  BY <1>1, <1>2, NoneMeans
<1>4. kind[g] \in {"read", "write", "close"} /\ (kind[g] # "close" => mode[g] = m)
  BY <1>1, <1>2, <1>3 DEF ControlInv, ReleaseInv, Kind, TypeOK
<1>5. mode' = [mode EXCEPT ![g] = m] /\ mode'[g] = m
  BY <1>1, <1>4 DEF TypeOK
<1>6. TypeOK'
  BY <1>1, <1>3, <1>5 DEF TypeOK, PC, SemaTypeOK
<1>7. WordExact'
  <2>1. Users' = Users /\ \A y \in Mode : Holders(y)' = Holders(y)
    BY <1>1 DEF TypeOK, Users, Holders, At
  <2>2. \A x \in Goroutine : pc'[x] # "panic"
    BY <1>1 DEF TypeOK, WordExact
  <2> QED BY <1>1, <2>1, <2>2, WordStays
<1>8. \A x \in Goroutine, y \in Mode : (x # g \/ y # m) => Unposted(x, y)' = Unposted(x, y)
  BY <1>1, <1>5 DEF Unposted, TypeOK
<1>9. Unposted(g, m) = rel[g][m] /\ Unposted(g, m)' = rel[g][m] - 1
  BY <1>1, <1>3, <1>5 DEF Unposted, TypeOK
<1>10. WaitersMatched'
  <2> SUFFICES ASSUME NEW y \in Mode
               PROVE  Cardinality(Sleepers(y)') = wait'[y] + sema'[y] + Cardinality(Due(y)')
    BY DEF WaitersMatched, Sleepers
  <2>1. Cardinality(Sleepers(y)) = wait[y] + sema[y] + Cardinality(Due(y))
    BY DEF WaitersMatched, Sleepers
  <2>2. Sleepers(y)' = Sleepers(y)
    BY <1>1 DEF TypeOK, Sleepers, At
  <2>3. wait[y] \in Nat /\ sema[y] \in Nat /\ Cardinality(Due(y)) \in Nat
    BY Finite DEF TypeOK, SemaTypeOK
  <2>4. CASE y = m
    <3>1. Cardinality(Due(y)') = Cardinality(Due(y)) - 1
      BY <1>3, <1>8, <1>9, <2>4, DueLoses
    <3>2. sema'[y] = sema[y] + 1
      BY <1>1, <1>3, <2>4 DEF TypeOK, SemaTypeOK
    <3> QED BY <1>1, <2>1, <2>2, <2>3, <3>1, <3>2
  <2>5. CASE y # m
    <3>1. Due(y)' = Due(y)
      BY <1>8, <2>5, DueStays
    <3>2. sema'[y] = sema[y]
      BY <1>1, <2>5 DEF TypeOK, SemaTypeOK
    <3> QED BY <1>1, <2>1, <2>2, <3>1, <3>2
  <2> QED BY <2>4, <2>5
<1>11. ControlInv' /\ ReleaseInv'
  BY <1>1, <1>3, <1>4, <1>5 DEF TypeOK, ControlInv, ReleaseInv
<1>12. CloserInv'
  BY <1>1 DEF TypeOK, CloserInv, Closer
<1>13. LastInv'
  BY <1>1, <1>3 DEF TypeOK, SemaTypeOK, LastInv, csema
<1>14. QueueInv'
  BY <1>1, <1>5, QueueStays DEF TypeOK, AsleepOn, csema
<1>15. ChainInv'
  <2> SUFFICES ASSUME NEW y \in Mode, ~overflowed, ~locked[y], wait[y] > 0
               PROVE  \/ sema'[y] > 0
                      \/ \E x \in Goroutine : Unposted(x, y)' > 0
                      \/ \E x \in Goroutine : pc'[x] = "lock" /\ mode'[x] = y
    BY <1>1 DEF ChainInv
  <2>1. CASE y = m
    BY <1>1, <1>3, <2>1 DEF TypeOK, SemaTypeOK
  <2>2. CASE y # m
    <3>1. sema'[y] = sema[y]
      BY <1>1, <2>2 DEF TypeOK, SemaTypeOK
    <3>2. \A x \in Goroutine : pc[x] = "lock" => pc'[x] = "lock" /\ mode'[x] = mode[x]
      BY <1>1, <1>5 DEF TypeOK
    <3> QED BY <1>8, <2>2, <3>1, <3>2 DEF ChainInv
  <2> QED BY <2>1, <2>2
<1> QED BY <1>6, <1>7, <1>10, <1>11, <1>12, <1>13, <1>14, <1>15

\* The poster finds nobody or wakes the first sleeper.
LEMMA SemreleaseDequeueKeeps ==
    ASSUME IInv, NEW g \in Goroutine, SemreleaseDequeue(g)  PROVE IInv'
<1> USE DEF IInv, Mode
<1> DEFINE m == mode[g]
<1>1. /\ pc[g] = "dequeue" /\ m \in Mode /\ m \in {"r", "w", "c"}
      /\ SemNoWaiter(m) \/ SemDequeue(m, FALSE)
      /\ rel' = [rel EXCEPT ![g][m] = @ - 1]
      /\ pc' = [pc EXCEPT ![g] = "release"] /\ kind' = kind
      /\ UNCHANGED <<closed, locked, ref, wait, overflowed, isBlocking, evicted, sysfd, mode,
                     last>>
  BY DEF SemreleaseDequeue, Goto, TypeOK
<1>2. rel[g][m] \in 1..MaxCount /\ MaxCount \in Nat
  BY <1>1, FdMutexAssumption DEF ReleaseInv, TypeOK
<1>3. /\ rel'[g] = [rel[g] EXCEPT ![m] = rel[g][m] - 1]
      /\ \A x \in Goroutine : x # g => rel'[x] = rel[x]
      /\ rel' \in [Goroutine -> [Mode -> 0..MaxCount]]
  BY <1>1, <1>2 DEF TypeOK
<1>4. \A x \in Goroutine, b \in {"r", "w", "c"} : AsleepOn(x, b) => AsleepOn(x, b)'
  BY <1>1 DEF TypeOK, AsleepOn, csema
<1>5. sema' = sema /\ QueueInv' /\ SemaTypeOK'
  <2>1. CASE SemNoWaiter(m)
    BY <1>4, <2>1, QueueStays DEF SemNoWaiter, TypeOK, SemaTypeOK
  <2>2. CASE SemDequeue(m, FALSE)
    BY <1>1, <1>4, <2>2, QueueWakes DEF SemDequeue
  <2> QED BY <1>1, <2>1, <2>2
<1>6. TypeOK'
  BY <1>1, <1>3, <1>5 DEF TypeOK, PC
<1>7. WordExact'
  <2>1. Users' = Users /\ \A y \in Mode : Holders(y)' = Holders(y)
    BY <1>1 DEF TypeOK, Users, Holders, At
  <2>2. \A x \in Goroutine : pc'[x] # "panic"
    BY <1>1 DEF TypeOK, WordExact
  <2> QED BY <1>1, <2>1, <2>2, WordStays
<1>8. \A x \in Goroutine, y \in Mode : Unposted(x, y)' = Unposted(x, y)
  BY <1>1, <1>2, <1>3 DEF Unposted, TypeOK
<1>9. WaitersMatched'
  <2>1. \A y \in Mode : Sleepers(y)' = Sleepers(y)
    BY <1>1 DEF TypeOK, Sleepers, At
  <2> QED BY <1>1, <1>5, <1>8, <2>1, MatchedStays
<1>10. ControlInv'
  BY <1>1 DEF TypeOK, ControlInv
<1>11. ReleaseInv'
  <2>1. kind[g] # "misc" /\ (kind[g] = "close" => ~evicted)
    BY <1>1, <1>2 DEF ReleaseInv, ControlInv, None
  <2> QED BY <1>1, <1>3, <2>1 DEF TypeOK, ReleaseInv
<1>12. CloserInv' /\ LastInv'
  BY <1>1, <1>5 DEF TypeOK, CloserInv, Closer, LastInv
<1>13. ChainInv'
  <2>1. \A x \in Goroutine : pc[x] = "lock" => pc'[x] = "lock" /\ mode'[x] = mode[x]
    BY <1>1 DEF TypeOK
  <2> QED BY <1>1, <1>5, <1>8, <2>1 DEF ChainInv
<1> QED BY <1>5, <1>6, <1>7, <1>9, <1>10, <1>11, <1>12, <1>13

\* The last unit is posted.
LEMMA ReleasedKeeps == ASSUME IInv, NEW g \in Goroutine, Released(g)  PROVE IInv'
<1> USE DEF IInv, Mode, sem, Goto, Released, CloseWaits
<1>1. TypeOK'
  BY FdMutexAssumption DEF TypeOK, PC, AllKinds, Kind, None, SemaTypeOK, SudogState
<1>2. WordExact'
  <2>1. Users' = Users /\ \A m \in Mode : Holders(m)' = Holders(m)
    BY DEF TypeOK, Users, Holders, At, ControlInv, CloserInv, Closer, Kind
  <2>2. \A x \in Goroutine : pc'[x] # "panic"
    BY DEF TypeOK, ControlInv, WordExact
  <2> QED BY <2>1, <2>2, WordStays
<1>3. WaitersMatched'
  <2>1. \A m \in Mode : Sleepers(m)' = Sleepers(m)
    BY DEF TypeOK, Sleepers, At, ControlInv
  <2>2. \A x \in Goroutine, m \in Mode : Unposted(x, m)' = Unposted(x, m)
    BY NothingDue DEF TypeOK, Unposted, ReleaseInv, ControlInv, None
  <2> QED BY <2>1, <2>2, MatchedStays
<1>4. ControlInv'
  BY DEF TypeOK, ControlInv, Kind
<1>5. ReleaseInv'
  BY NoneMeans DEF TypeOK, ReleaseInv, ControlInv, CloserInv, Closer, None, Kind
<1>6. CloserInv'
  BY DEF TypeOK, CloserInv, Closer, ControlInv, LastInv, None, Kind
<1>7. LastInv'
  <2>1. \A x \in Goroutine : pc'[x] \in {"release", "dequeue", "destroy"} \/ ~last[x]
    BY DEF TypeOK, LastInv, ControlInv, CloserInv, Kind
  <2>2. pc'[g] = "destroy" => last[g]
    BY DEF TypeOK
  <2>3. pc'[g] # "signal"
    BY DEF TypeOK
  <2> QED BY <2>1, <2>2, <2>3 DEF TypeOK, LastInv
<1>8. QueueInv'
  BY QueueStays DEF TypeOK, AsleepOn, csema
<1>9. ChainInv'
  BY DEF TypeOK, SemaTypeOK, ChainInv, Unposted, ReleaseInv, ControlInv, CloserInv, None
<1> QED BY <1>1, <1>2, <1>3, <1>4, <1>5, <1>6, <1>7, <1>8, <1>9

\* The descriptor leaves the poller.
LEMMA EvictKeeps == ASSUME IInv, NEW g \in Goroutine, Evict(g)  PROVE IInv'
<1> USE DEF IInv, Mode, sem, Goto, Evict
<1>1. TypeOK'
  BY FdMutexAssumption DEF TypeOK, PC, AllKinds, Kind, None, SemaTypeOK, SudogState
<1>2. WordExact'
  <2>1. Users' = Users /\ \A m \in Mode : Holders(m)' = Holders(m)
    BY DEF TypeOK, Users, Holders, At, ControlInv, CloserInv, Closer, Kind
  <2>2. \A x \in Goroutine : pc'[x] # "panic"
    BY DEF TypeOK, ControlInv, WordExact
  <2> QED BY <2>1, <2>2, WordStays
<1>3. WaitersMatched'
  <2>1. \A m \in Mode : Sleepers(m)' = Sleepers(m)
    BY DEF TypeOK, Sleepers, At, ControlInv
  <2>2. \A x \in Goroutine, m \in Mode : Unposted(x, m)' = Unposted(x, m)
    BY NothingDue DEF TypeOK, Unposted, ReleaseInv, ControlInv, None
  <2> QED BY <2>1, <2>2, MatchedStays
<1>4. ControlInv'
  BY DEF TypeOK, ControlInv, Kind
<1>5. ReleaseInv'
  BY NoneMeans DEF TypeOK, ReleaseInv, ControlInv, CloserInv, Closer, None, Kind
<1>6. CloserInv'
  BY DEF TypeOK, CloserInv, Closer, ControlInv, LastInv, None, Kind
<1>7. LastInv'
  BY DEF TypeOK, SemaTypeOK, LastInv, ControlInv, CloserInv, Kind
<1>8. QueueInv'
  BY QueueStays DEF TypeOK, AsleepOn, csema
<1>9. ChainInv'
  BY DEF TypeOK, SemaTypeOK, ChainInv, Unposted, ReleaseInv, ControlInv, CloserInv, None
<1> QED BY <1>1, <1>2, <1>3, <1>4, <1>5, <1>6, <1>7, <1>8, <1>9

\* The descriptor is destroyed, by the only goroutine that has to.
LEMMA destroyKeeps == ASSUME IInv, NEW g \in Goroutine, destroy(g)  PROVE IInv'
<1> USE DEF IInv, Mode, sem, Goto, destroy
<1>1. TypeOK'
  BY FdMutexAssumption DEF TypeOK, PC, AllKinds, Kind, None, SemaTypeOK, SudogState
<1>2. WordExact'
  <2>1. Users' = Users /\ \A m \in Mode : Holders(m)' = Holders(m)
    BY DEF TypeOK, Users, Holders, At, ControlInv, CloserInv, Closer, Kind
  <2>2. \A x \in Goroutine : pc'[x] # "panic"
    BY DEF TypeOK, ControlInv, WordExact
  <2> QED BY <2>1, <2>2, WordStays
<1>3. WaitersMatched'
  <2>1. \A m \in Mode : Sleepers(m)' = Sleepers(m)
    BY DEF TypeOK, Sleepers, At, ControlInv
  <2>2. \A x \in Goroutine, m \in Mode : Unposted(x, m)' = Unposted(x, m)
    BY NothingDue DEF TypeOK, Unposted, ReleaseInv, ControlInv, None
  <2> QED BY <2>1, <2>2, MatchedStays
<1>4. ControlInv'
  BY DEF TypeOK, ControlInv, Kind
<1>5. ReleaseInv'
  BY NoneMeans DEF TypeOK, ReleaseInv, ControlInv, CloserInv, Closer, None, Kind
<1>6. CloserInv'
  BY DEF TypeOK, CloserInv, Closer, ControlInv, LastInv, None, Kind
<1>7. LastInv'
  BY DEF TypeOK, SemaTypeOK, LastInv, ControlInv, CloserInv, Kind
<1>8. QueueInv'
  BY QueueStays DEF TypeOK, AsleepOn, csema
<1>9. ChainInv'
  BY DEF TypeOK, SemaTypeOK, ChainInv, Unposted, ReleaseInv, ControlInv, CloserInv, None
<1> QED BY <1>1, <1>2, <1>3, <1>4, <1>5, <1>6, <1>7, <1>8, <1>9

\* The descriptor is put into blocking mode.
LEMMA SetBlockingKeeps == ASSUME IInv, NEW g \in Goroutine, SetBlocking(g)  PROVE IInv'
<1> USE DEF IInv, Mode, sem, Goto, SetBlocking
<1>1. TypeOK'
  BY FdMutexAssumption DEF TypeOK, PC, AllKinds, Kind, None, SemaTypeOK, SudogState
<1>2. WordExact'
  <2>1. Users' = Users /\ \A m \in Mode : Holders(m)' = Holders(m)
    BY DEF TypeOK, Users, Holders, At, ControlInv, CloserInv, Closer, Kind
  <2>2. \A x \in Goroutine : pc'[x] # "panic"
    BY DEF TypeOK, ControlInv, WordExact
  <2> QED BY <2>1, <2>2, WordStays
<1>3. WaitersMatched'
  <2>1. \A m \in Mode : Sleepers(m)' = Sleepers(m)
    BY DEF TypeOK, Sleepers, At, ControlInv
  <2>2. \A x \in Goroutine, m \in Mode : Unposted(x, m)' = Unposted(x, m)
    BY NothingDue DEF TypeOK, Unposted, ReleaseInv, ControlInv, None
  <2> QED BY <2>1, <2>2, MatchedStays
<1>4. ControlInv'
  BY DEF TypeOK, ControlInv, Kind
<1>5. ReleaseInv'
  BY NoneMeans DEF TypeOK, ReleaseInv, ControlInv, CloserInv, Closer, None, Kind
<1>6. CloserInv'
  BY DEF TypeOK, CloserInv, Closer, ControlInv, LastInv, None, Kind
<1>7. LastInv'
  BY DEF TypeOK, SemaTypeOK, LastInv, ControlInv, CloserInv, Kind
<1>8. QueueInv'
  BY QueueStays DEF TypeOK, AsleepOn, csema
<1>9. ChainInv'
  BY DEF TypeOK, SemaTypeOK, ChainInv, Unposted, ReleaseInv, ControlInv, CloserInv, None
<1> QED BY <1>1, <1>2, <1>3, <1>4, <1>5, <1>6, <1>7, <1>8, <1>9

\* csema is released, after the descriptor was destroyed.
LEMMA SignalKeeps == ASSUME IInv, NEW g \in Goroutine, Signal(g)  PROVE IInv'
<1> USE DEF IInv, Mode
<1>1. /\ pc[g] \in {"signal", "signalled"}
      /\ UNCHANGED <<closed, locked, ref, wait, overflowed, isBlocking, evicted, sysfd, mode,
                     last, rel>>
  BY DEF Signal
<1> PICK l \in {"signalled", "closewait", "idle"} :
        /\ pc' = [pc EXCEPT ![g] = l]
        /\ kind' = IF l = "idle" THEN [kind EXCEPT ![g] = "misc"] ELSE kind
        /\ l = "signalled" => pc[g] = "signal"
        /\ l = "closewait" => pc[g] = "signalled" /\ kind[g] = "close"
  BY DEF Signal, Goto
<1>2. \A x \in Goroutine, b \in {"r", "w", "c"} : AsleepOn(x, b) => AsleepOn(x, b)'
  BY <1>1 DEF TypeOK, AsleepOn
<1>3. /\ QueueInv' /\ SemaTypeOK'
      /\ \A m \in Mode : sema'[m] = sema[m]
      /\ sema'[csema] > 0 => sysfd = "destroyed"
  <2>1. CASE pc[g] = "signal" /\ SemXadd(csema)
    <3>1. SemaTypeOK' /\ (\A m \in Mode : sema'[m] = sema[m]) /\ UNCHANGED <<waitq, sudog>>
      BY <2>1 DEF SemXadd, TypeOK, SemaTypeOK, csema
    <3> QED BY <1>2, <2>1, <3>1, QueueStays DEF LastInv
  <2>2. CASE SemNoWaiter(csema)
    BY <1>2, <2>2, QueueStays DEF SemNoWaiter, TypeOK, SemaTypeOK, LastInv
  <2>3. CASE SemDequeue(csema, FALSE)
    <3>1. sema' = sema
      BY <2>3 DEF SemDequeue
    <3> QED BY <1>2, <2>3, <3>1, QueueWakes DEF csema, LastInv
  <2> QED BY <2>1, <2>2, <2>3 DEF Signal
<1>4. TypeOK'
  BY <1>1, <1>3 DEF TypeOK, PC, AllKinds, Kind
<1>5. WordExact'
  <2>1. Users' = Users /\ \A m \in Mode : Holders(m)' = Holders(m)
    BY <1>1 DEF TypeOK, Users, Holders, At
  <2>2. \A x \in Goroutine : pc'[x] # "panic"
    BY DEF TypeOK, WordExact
  <2> QED BY <1>1, <2>1, <2>2, WordStays
<1>6. \A x \in Goroutine, m \in Mode : Unposted(x, m)' = Unposted(x, m)
  BY <1>1 DEF TypeOK, Unposted
<1>7. WaitersMatched'
  <2>1. \A m \in Mode : Sleepers(m)' = Sleepers(m)
    BY <1>1 DEF TypeOK, Sleepers, At
  <2> QED BY <1>1, <1>3, <1>6, <2>1, MatchedStays
<1>8. ControlInv' /\ ReleaseInv'
  BY <1>1 DEF TypeOK, ControlInv, ReleaseInv, Kind
<1>9. CloserInv'
  BY <1>1 DEF TypeOK, CloserInv, Closer
<1>10. LastInv'
  BY <1>1, <1>3 DEF TypeOK, LastInv
<1>11. ChainInv'
  <2>1. \A x \in Goroutine : pc[x] = "lock" => pc'[x] = "lock" /\ mode'[x] = mode[x]
    BY <1>1 DEF TypeOK
  <2> QED BY <1>1, <1>3, <1>6, <2>1 DEF ChainInv
<1> QED BY <1>3, <1>4, <1>5, <1>7, <1>8, <1>9, <1>10, <1>11

\* Close sleeps, or returns with a unit of csema.
LEMMA CloseWaitKeeps == ASSUME IInv, NEW g \in Goroutine, CloseWait(g)  PROVE IInv'
<1> USE DEF IInv, Mode
<1>1. /\ pc[g] = "closewait" /\ AsleepOn(g, csema) /\ csema \in {"r", "w", "c"}
      /\ UNCHANGED <<closed, locked, ref, wait, overflowed, isBlocking, evicted, sysfd, mode,
                     last, rel>>
  BY DEF CloseWait, AsleepOn, csema
<1>2. \/ pc' = pc /\ kind' = kind
      \/ pc' = [pc EXCEPT ![g] = "idle"] /\ kind' = [kind EXCEPT ![g] = "misc"]
  BY DEF CloseWait, Goto
<1>3. \A x \in Goroutine, b \in {"r", "w", "c"} : x # g /\ AsleepOn(x, b) => AsleepOn(x, b)'
  BY <1>1, <1>2 DEF TypeOK, AsleepOn
<1>4. /\ QueueInv' /\ SemaTypeOK'
      /\ \A m \in Mode : sema'[m] = sema[m]
      /\ sema'[csema] > 0 => sysfd = "destroyed"
  <2>1. CASE SemSleep(g, csema, FALSE) /\ UNCHANGED <<pc, kind>>
    <3>1. sema' = sema
      BY <2>1 DEF SemSleep
    <3>2. sema[csema] > 0 => sysfd = "destroyed"
      BY DEF LastInv
    <3> QED BY <1>1, <2>1, <3>1, <3>2, QueueSleeps
  <2>2. CASE SemAcquired(g, csema)
    <3>1. /\ QueueInv' /\ SemaTypeOK' /\ sema[csema] > 0
          /\ sema' = [sema EXCEPT ![csema] = @ - 1]
      BY <1>1, <1>3, <2>2, QueueLeaves
    <3>2. \A m \in Mode : sema'[m] = sema[m]
      BY <3>1 DEF csema, TypeOK, SemaTypeOK
    <3> QED BY <3>1, <3>2 DEF LastInv
  <2> QED BY <2>1, <2>2 DEF CloseWait
<1>5. TypeOK'
  BY <1>1, <1>2, <1>4 DEF TypeOK, PC, AllKinds, Kind
<1>6. WordExact'
  <2>1. Users' = Users /\ \A m \in Mode : Holders(m)' = Holders(m)
    BY <1>1, <1>2 DEF TypeOK, Users, Holders, At
  <2>2. \A x \in Goroutine : pc'[x] # "panic"
    BY <1>2 DEF TypeOK, WordExact
  <2> QED BY <1>1, <2>1, <2>2, WordStays
<1>7. \A x \in Goroutine, m \in Mode : Unposted(x, m)' = Unposted(x, m)
  BY <1>1, <1>2 DEF TypeOK, Unposted
<1>8. WaitersMatched'
  <2>1. \A m \in Mode : Sleepers(m)' = Sleepers(m)
    BY <1>1, <1>2 DEF TypeOK, Sleepers, At
  <2> QED BY <1>1, <1>4, <1>7, <2>1, MatchedStays
<1>9. ControlInv' /\ ReleaseInv'
  BY <1>1, <1>2 DEF TypeOK, ControlInv, ReleaseInv, Kind
<1>10. CloserInv'
  <2>1. CASE pc' = pc /\ kind' = kind
    BY <1>1, <2>1 DEF CloserInv, Closer
  <2>2. CASE pc' = [pc EXCEPT ![g] = "idle"] /\ kind' = [kind EXCEPT ![g] = "misc"]
    BY <1>1, <2>2 DEF TypeOK, CloserInv, Closer
  <2> QED BY <1>2, <2>1, <2>2
<1>11. LastInv'
  BY <1>1, <1>2, <1>4 DEF TypeOK, LastInv
<1>12. ChainInv'
  <2>1. \A x \in Goroutine : pc[x] = "lock" => pc'[x] = "lock" /\ mode'[x] = mode[x]
    BY <1>1, <1>2 DEF TypeOK
  <2> QED BY <1>1, <1>4, <1>7, <2>1 DEF ChainInv
<1> QED BY <1>4, <1>5, <1>6, <1>8, <1>9, <1>10, <1>11, <1>12

\* An unlock gives back lock and reference and owes a unit to a waiter.
LEMMA rwunlockKeeps == ASSUME IInv, NEW g \in Goroutine, rwunlock(g)  PROVE IInv'
<1> USE DEF IInv, Mode
<1> PICK m \in Mode : m = mode[g]
  BY DEF TypeOK
<1>1. pc[g] = "use" /\ kind[g] \in {"read", "write"} /\ kind[g] = IF m = "r" THEN "read" ELSE "write"
  BY DEF rwunlock, ControlInv, Kind
<1>2. g \in Users /\ g \in Holders(m)
  BY <1>1 DEF Users, Holders, At
<1>3. ref \in Nat /\ ref >= 1 /\ ref \in 0..MaxCount /\ MaxCount \in Nat /\ MaxCount >= 1
  BY <1>2, UserLeaves, FdMutexAssumption DEF TypeOK
<1>4. locked[m]
  BY <1>2, Finite, CountNat, FS_EmptySet DEF WordExact
<1>5. rel[g] = None
  BY <1>1 DEF ReleaseInv
<1>6. /\ locked' = [locked EXCEPT ![m] = FALSE] /\ ref' = ref - 1
      /\ wait' = [wait EXCEPT ![m] = IF wait[m] > 0 THEN wait[m] - 1 ELSE 0]
      /\ rel' = [rel EXCEPT ![g] = Units(m)]
      /\ last' = [last EXCEPT ![g] = closed /\ ref - 1 = 0]
      /\ pc' = [pc EXCEPT ![g] = "release"] /\ kind' = kind
      /\ UNCHANGED <<closed, overflowed, isBlocking, evicted, sysfd, mode, sema, waitq, sudog>>
  BY <1>3, <1>4 DEF rwunlock, Goto, sem, IsLast
<1>7. wait[m] \in 0..MaxCount /\ wait[m] \in Nat
  BY FdMutexAssumption DEF TypeOK
<1> DEFINE n == IF wait[m] > 0 THEN 1 ELSE 0
<1>8. /\ n \in 0..MaxCount /\ wait'[m] = wait[m] - n /\ wait'[m] \in 0..MaxCount
      /\ rel'[g][m] = n /\ \A y \in Mode : y # m => rel'[g][y] = 0 /\ wait'[y] = wait[y]
  BY <1>3, <1>6, <1>7 DEF Units, TypeOK
<1>9. TypeOK'
  <2>1. ref' \in 0..MaxCount
    BY <1>3, <1>6
  <2>2. Units(m) \in [Mode -> 0..MaxCount]
    BY <1>3 DEF Units
  <2>3. (closed /\ ref - 1 = 0) \in BOOLEAN
    OBVIOUS
  <2>4. wait' \in [Mode -> 0..MaxCount]
    BY <1>3, <1>6, <1>7 DEF TypeOK
  <2> QED BY <1>6, <2>1, <2>2, <2>3, <2>4 DEF TypeOK, PC, SemaTypeOK
<1>10. Users' = Users \ {g}
  BY <1>1, <1>6 DEF TypeOK, Users, At
<1>11. WordExact'
  <2>1. Holders(m)' = Holders(m) \ {g}
    BY <1>1, <1>6 DEF TypeOK, Holders, At
  <2>2. \A y \in Mode : y # m => Holders(y)' = Holders(y)
    BY <1>1, <1>6 DEF TypeOK, Holders, At
  <2>3. Cardinality(Holders(m)') = Cardinality(Holders(m)) - 1
    BY <1>2, <2>1, Finite, CountLeave
  <2>4. \A y \in Mode : Cardinality(Holders(y)') = IF locked'[y] THEN 1 ELSE 0
    BY <1>4, <1>6, <2>2, <2>3 DEF WordExact, TypeOK
  <2>5. \A x \in Goroutine : pc'[x] # "panic"
    BY <1>6 DEF TypeOK, WordExact
  <2>6. ref' = Cardinality(Users')
    BY <1>2, <1>6, <1>10, UserLeaves
  <2> QED BY <2>4, <2>5, <2>6 DEF WordExact
<1>12. \A x \in Goroutine, y \in Mode : (x # g \/ y # m) => Unposted(x, y)' = Unposted(x, y)
  BY <1>1, <1>5, <1>6, <1>8 DEF Unposted, TypeOK, None
<1>13. Unposted(g, m) = 0 /\ Unposted(g, m)' = n
  <2>1. Unposted(g, m) = 0
    BY <1>5, NothingDue
  <2> QED BY <1>6, <1>8, <2>1 DEF Unposted, TypeOK
<1>14. WaitersMatched'
  <2> SUFFICES ASSUME NEW y \in Mode
               PROVE  Cardinality(Sleepers(y)') = wait'[y] + sema'[y] + Cardinality(Due(y)')
    BY DEF WaitersMatched, Sleepers
  <2>1. Cardinality(Sleepers(y)) = wait[y] + sema[y] + Cardinality(Due(y))
    BY DEF WaitersMatched, Sleepers
  <2>2. Sleepers(y)' = Sleepers(y)
    BY <1>1, <1>6 DEF TypeOK, Sleepers, At
  <2>3. wait[y] \in Nat /\ sema[y] \in Nat /\ Cardinality(Due(y)) \in Nat
    BY Finite, FdMutexAssumption DEF TypeOK, SemaTypeOK
  <2>4. CASE y = m
    <3>1. Cardinality(Due(y)') = Cardinality(Due(y)) + n
      BY <1>8, <1>12, <1>13, <2>4, DueGains
    <3> QED BY <1>6, <1>8, <2>1, <2>2, <2>3, <2>4, <3>1
  <2>5. CASE y # m
    <3>1. Due(y)' = Due(y)
      BY <1>12, <2>5, DueStays
    <3> QED BY <1>6, <1>8, <2>1, <2>2, <2>5, <3>1
  <2> QED BY <2>4, <2>5
<1>15. ControlInv' /\ ReleaseInv'
  BY <1>1, <1>6, <1>8 DEF TypeOK, ControlInv, ReleaseInv
<1>16. CloserInv'
  <2>1. wait \in [Mode -> 0..MaxCount] /\ wait' \in [Mode -> 0..MaxCount]
    BY <1>9 DEF TypeOK
  <2>2. closed => wait["r"] = 0 /\ wait["w"] = 0
    BY <2>1, NoneMeans DEF CloserInv
  <2>3. closed => wait'["r"] = 0 /\ wait'["w"] = 0
    BY <1>6, <2>1, <2>2
  <2>4. closed => wait' = None
    BY <2>1, <2>3, NoneMeans
  <2> QED BY <1>1, <1>6, <2>4 DEF TypeOK, CloserInv, Closer
<1>17. LastInv'
  BY LastLeaves, <1>1, <1>3, <1>6 DEF TypeOK
<1>18. QueueInv'
  BY <1>1, <1>6, QueueStays DEF TypeOK, AsleepOn, csema
<1>19. ChainInv'
  <2> SUFFICES ASSUME NEW y \in Mode, ~overflowed, ~locked'[y], wait'[y] > 0
               PROVE  \/ sema[y] > 0
                      \/ \E x \in Goroutine : Unposted(x, y)' > 0
                      \/ \E x \in Goroutine : pc'[x] = "lock" /\ mode'[x] = y
    BY <1>6 DEF ChainInv
  <2>1. CASE y = m
    BY <1>7, <1>8, <1>13, <2>1
  <2>2. CASE y # m
    <3>1. ~locked[y] /\ wait[y] > 0
      BY <1>6, <2>2 DEF TypeOK
    <3>2. \A x \in Goroutine : pc[x] = "lock" => pc'[x] = "lock" /\ mode'[x] = mode[x]
      BY <1>1, <1>6 DEF TypeOK
    <3> QED BY <1>12, <2>2, <3>1, <3>2 DEF ChainInv
  <2> QED BY <2>1, <2>2
<1> QED BY <1>9, <1>11, <1>14, <1>15, <1>16, <1>17, <1>18, <1>19

\* A reference is given back.
LEMMA decrefKeeps == ASSUME IInv, NEW g \in Goroutine, decref(g)  PROVE IInv'
<1> USE DEF IInv, Mode
<1>1. \/ pc[g] = "use" /\ kind[g] = "misc"
      \/ pc[g] = "decref" /\ kind[g] = "close" /\ evicted
  BY DEF decref, ControlInv, CloserInv, Kind
<1>2. g \in Users
  BY <1>1 DEF Users, At
<1>3. ref \in Nat /\ ref >= 1 /\ ref \in 0..MaxCount /\ MaxCount \in Nat
  BY <1>2, UserLeaves, FdMutexAssumption DEF TypeOK
<1>4. /\ ref' = ref - 1
      /\ last' = [last EXCEPT ![g] = closed /\ ref - 1 = 0]
      /\ pc' = [pc EXCEPT ![g] = "release"] /\ kind' = kind
      /\ UNCHANGED <<closed, locked, wait, overflowed, isBlocking, evicted, sysfd, mode, rel,
                     sema, waitq, sudog>>
  BY <1>3 DEF decref, Goto, sem, IsLast
<1>5. TypeOK'
  <2>1. ref' \in 0..MaxCount
    BY <1>3, <1>4
  <2>2. (closed /\ ref - 1 = 0) \in BOOLEAN
    OBVIOUS
  <2> QED BY <1>4, <2>1, <2>2 DEF TypeOK, PC, SemaTypeOK
<1>6. WordExact'
  <2>1. Users' = Users \ {g}
    BY <1>1, <1>4 DEF TypeOK, Users, At
  <2>2. \A m \in Mode : Holders(m)' = Holders(m)
    BY <1>1, <1>4 DEF TypeOK, Holders, At
  <2>3. \A x \in Goroutine : pc'[x] # "panic"
    BY <1>4 DEF TypeOK, WordExact
  <2>4. ref' = Cardinality(Users')
    BY <1>2, <1>4, <2>1, UserLeaves
  <2> QED BY <1>4, <2>2, <2>3, <2>4 DEF WordExact
<1>7. \A x \in Goroutine, m \in Mode : Unposted(x, m)' = Unposted(x, m)
  BY <1>1, <1>4 DEF TypeOK, Unposted
<1>8. WaitersMatched'
  <2>1. \A m \in Mode : Sleepers(m)' = Sleepers(m)
    BY <1>1, <1>4 DEF TypeOK, Sleepers, At
  <2> QED BY <1>4, <1>7, <2>1, MatchedStays
<1>9. ControlInv' /\ ReleaseInv'
  BY <1>1, <1>4 DEF TypeOK, ControlInv, ReleaseInv
<1>10. CloserInv'
  BY <1>1, <1>4 DEF TypeOK, CloserInv, Closer
<1>11. LastInv'
  BY LastLeaves, <1>1, <1>3, <1>4 DEF TypeOK
<1>12. QueueInv'
  BY <1>1, <1>4, QueueStays DEF TypeOK, AsleepOn, csema
<1>13. ChainInv'
  <2>1. \A x \in Goroutine : pc[x] = "lock" => pc'[x] = "lock" /\ mode'[x] = mode[x]
    BY <1>1, <1>4 DEF TypeOK
  <2> QED BY <1>4, <1>7, <2>1 DEF ChainInv
<1> QED BY <1>5, <1>6, <1>8, <1>9, <1>10, <1>11, <1>12, <1>13

-----------------------------------------------------------------------------
(* Invariance *)

\* A descriptor that has just been opened.
LEMMA InitOK == Init => IInv
<1> SUFFICES ASSUME Init  PROVE IInv
  OBVIOUS
<1> USE DEF Mode
<1>1. TypeOK
  <2>1. SemaTypeOK
    BY DEF Init, SemaInit, SemaTypeOK, SudogState
  <2>2. 0 \in 0..MaxCount
    BY FdMutexAssumption
  <2> QED BY <2>1, <2>2 DEF Init, TypeOK, None, PC, AllKinds, Kind
<1>2. Users = {} /\ \A m \in Mode : Holders(m) = {} /\ Sleepers(m) = {} /\ Due(m) = {}
  BY FdMutexAssumption DEF Init, Users, Holders, Sleepers, At, Due, Unposted, None
<1>3. WordExact
  BY <1>2, FS_EmptySet DEF Init, WordExact
<1>4. WaitersMatched
  <2>1. \A m \in Mode : wait[m] = 0 /\ sema[m] = 0
    BY DEF Init, None, SemaInit
  <2>2. \A m \in Mode : Cardinality(Sleepers(m)) = 0 /\ Cardinality(Due(m)) = 0
    BY <1>2, FS_EmptySet
  <2> QED BY <2>1, <2>2 DEF WaitersMatched, Sleepers
<1>5. ControlInv /\ ReleaseInv /\ CloserInv /\ LastInv /\ ChainInv
  BY DEF Init, ControlInv, Kind, ReleaseInv, CloserInv, Closer, LastInv, ChainInv, None,
         SemaInit, csema
<1>6. QueueInv
  BY DEF Init, SemaInit, QueueInv, Distinct, Members
<1> QED BY <1>1, <1>3, <1>4, <1>5, <1>6 DEF IInv

\* The invariant is preserved by every step.
LEMMA NextKeeps == IInv /\ [Next]_vars => IInv'
<1> SUFFICES ASSUME IInv, [Next]_vars  PROVE IInv'
  OBVIOUS
<1>1. CASE UNCHANGED vars
  <2> USE <1>1 DEF vars, IInv
  <2>1. TypeOK'
    BY DEF TypeOK, SemaTypeOK
  <2>2. WordExact'
    BY DEF WordExact, Users, Holders, At
  <2>3. WaitersMatched'
    BY DEF WaitersMatched, Due, Unposted, At
  <2>4. ControlInv' /\ ReleaseInv' /\ CloserInv' /\ LastInv'
    BY DEF ControlInv, ReleaseInv, CloserInv, Closer, LastInv
  <2>5. QueueInv'
    BY DEF QueueInv, AsleepOn
  <2>6. ChainInv'
    BY DEF ChainInv, Unposted
  <2> QED BY <2>1, <2>2, <2>3, <2>4, <2>5, <2>6
<1>2. ASSUME NEW g \in Goroutine, Operation(g)  PROVE IInv'
  BY <1>2, increfKeeps, rwlockKeeps, SemacquireKeeps, increfAndCloseKeeps, SemreleaseKeeps,
     SemreleaseDequeueKeeps, ReleasedKeeps, EvictKeeps, destroyKeeps, SignalKeeps,
     CloseWaitKeeps, rwunlockKeeps, decrefKeeps, SetBlockingKeeps
  DEF Operation, Step, Leave
<1>3. ASSUME NEW g \in Goroutine, NEW k \in Kind, Call(g, k)  PROVE IInv'
  BY <1>3, CallKeeps
<1> QED BY <1>1, <1>2, <1>3 DEF Next

\* The invariant holds throughout.
THEOREM FdInductive == Spec => []IInv
  BY InitOK, NextKeeps, PTL DEF Spec

\* Somebody asleep on a free lock is counted, or has a unit on its way.
LEMMA SleeperAwaited == IInv => NobodyStranded
<1> SUFFICES ASSUME IInv, NEW m \in Mode, ~overflowed, ~locked[m], waitq[m] # <<>>
             PROVE  \/ sema[m] > 0
                    \/ \E g \in Goroutine : rel[g][m] > 0
                    \/ \E g \in Goroutine : pc[g] = "lock" /\ mode[g] = m
  BY DEF NobodyStranded
<1> USE DEF IInv
<1>1. \A g \in Goroutine : Unposted(g, m) > 0 => rel[g][m] > 0
  BY DEF Unposted, TypeOK
<1>2. Sleepers(m) # {}
  <2>1. waitq[m] \in Seq(Goroutine) /\ m \in {"r", "w", "c"} /\ m # csema
    BY DEF TypeOK, SemaTypeOK, Mode, csema
  <2>2. Head(waitq[m]) \in Members(waitq[m]) /\ Head(waitq[m]) \in Goroutine
    BY <2>1, TailRemoves DEF QueueInv
  <2>3. AsleepOn(Head(waitq[m]), m)
    BY <2>1, <2>2 DEF QueueInv
  <2> QED BY <2>1, <2>2, <2>3 DEF AsleepOn, Sleepers, At
<1>3. wait[m] + sema[m] + Cardinality(Due(m)) # 0
  <2>1. Cardinality(Sleepers(m)) # 0
    BY <1>2, Finite, CountNat
  <2> QED BY <2>1 DEF WaitersMatched, Sleepers
<1>4. wait[m] \in Nat /\ sema[m] \in Nat /\ Cardinality(Due(m)) \in Nat
  BY Finite, FdMutexAssumption DEF TypeOK, SemaTypeOK, Mode
<1>5. wait[m] > 0 \/ sema[m] > 0 \/ Cardinality(Due(m)) # 0
  BY <1>3, <1>4
<1>6. ASSUME Cardinality(Due(m)) # 0  PROVE \E g \in Goroutine : Unposted(g, m) > 0
  <2>1. Due(m) # {}
    BY <1>6, FS_EmptySet
  <2>2. PICK u \in Goroutine \X (1..MaxCount) : u[2] <= Unposted(u[1], m)
    BY <2>1 DEF Due
  <2>3. u[1] \in Goroutine /\ u[2] \in 1..MaxCount /\ MaxCount \in Nat
    BY FdMutexAssumption
  <2>4. Unposted(u[1], m) \in 0..MaxCount
    BY <2>3, UnpostedType
  <2>5. Unposted(u[1], m) > 0
    BY <2>2, <2>3, <2>4
  <2> QED BY <2>3, <2>5
<1> QED BY <1>1, <1>5, <1>6 DEF ChainInv

\* The word and the semaphores account for every user, owner and waiter, the panics
\* of rwunlock and decref are dead code, and no waiter is stranded at a free lock:
\* for any number of goroutines and any width of the counters.
THEOREM FdInvariant == Spec => []FdInv
<1>1. IInv => FdInv
  BY SleeperAwaited DEF IInv, FdInv
<1> QED BY <1>1, FdInductive, PTL

\* A closed descriptor that nobody uses any more is destroyed.
THEOREM FdDestroyed == Spec => []ClosedIsDestroyed
<1>1. IInv => ClosedIsDestroyed
  <2> SUFFICES ASSUME IInv, closed, \A g \in Goroutine : pc[g] \in {"idle", "closewait"}
               PROVE  sysfd = "destroyed"
    BY DEF ClosedIsDestroyed
  <2>1. Users = {}
    BY DEF Users, At
  <2>2. ref = 0
    BY <2>1, FS_EmptySet DEF IInv, WordExact
  <2>3. \A g \in Goroutine : ~last[g]
    BY DEF IInv, LastInv
  <2> QED BY <2>2, <2>3 DEF IInv, LastInv, TypeOK
<1> QED BY <1>1, FdInductive, PTL

\* Steps of other goroutines leave a goroutine where it is.
LEMMA OthersStay ==
    ASSUME IInv, NEW g \in Goroutine, Operation(g) \/ \E k \in Kind : Call(g, k),
           NEW x \in Goroutine, x # g
    PROVE  pc'[x] = pc[x]
  BY DEF IInv, TypeOK, Operation, Step, Leave, Call, Goto, Fails, incref, rwlock, Semacquire,
         increfAndClose, Semrelease, SemreleaseDequeue, Released, Evict, destroy, Signal,
         CloseWait, rwunlock, decref, SetBlocking

\* Close returns only when the descriptor is destroyed, unless I/O on it may block.
THEOREM FdCloseWaits == Spec => CloseWaitsForDestroy
<1>1. IInv /\ [Next]_vars =>
      [\A g \in Goroutine :
          (kind[g] = "close" /\ pc[g] \in {"release", "signalled", "closewait"} /\ pc'[g] = "idle" /\ ~isBlocking)
              => sysfd = "destroyed"]_vars
  <2> SUFFICES ASSUME IInv, NEW h \in Goroutine, Operation(h) \/ \E k \in Kind : Call(h, k),
                      NEW g \in Goroutine, kind[g] = "close",
                      pc[g] \in {"release", "signalled", "closewait"}, pc'[g] = "idle",
                      ~isBlocking
               PROVE  sysfd = "destroyed"
    BY DEF Next
  <2>1. g = h
    BY OthersStay
  <2>2. Released(g) \/ Signal(g) \/ CloseWait(g) \/ Semrelease(g)
    BY <2>1 DEF Operation, Step, Leave, Call, incref, rwlock, Semacquire, increfAndClose,
                SemreleaseDequeue, Evict, destroy, rwunlock, decref, SetBlocking
  <2>3. pc'[g] = "idle" /\ pc \in [Goroutine -> PC]
    BY DEF IInv, TypeOK
  <2>4. ~Released(g)
    BY <2>3 DEF Released, Goto, CloseWaits
  <2>5. ~Semrelease(g)
    BY <2>3 DEF Semrelease, Goto
  <2>6. ~Signal(g)
    BY <2>3 DEF Signal, Goto, CloseWaits
  <2>7. SemAcquired(g, csema)
    BY <2>2, <2>3, <2>4, <2>5, <2>6 DEF CloseWait
  <2>8. sema[csema] > 0
    BY <2>7 DEF SemAcquired, cansemacquire, IInv, QueueInv
  <2> QED BY <2>8 DEF IInv, LastInv
<1> QED BY <1>1, FdInductive, PTL DEF Spec, CloseWaitsForDestroy

-----------------------------------------------------------------------------
(* FdMutex implements Descriptor *)

\* A step that leaves the phase, the users and the owners alone.
LEMMA Stutters ==
    ASSUME UNCHANGED <<closed, sysfd>>, Users' = Users, \A m \in Mode : Holders(m)' = Holders(m)
    PROVE  UNCHANGED LifeCycle!vars
  BY DEF LifeCycle!vars

\* Every step of the code is a step of Descriptor or leaves its state alone.
LEMMA StepSimulates ==
    ASSUME IInv, NEW g \in Goroutine, Operation(g) \/ \E k \in Kind : Call(g, k)
    PROVE  [LifeCycle!Next]_LifeCycle!vars
<1> USE DEF IInv
<1>2. CASE incref(g) /\ ~Fails(g)
  <2>1. /\ pc[g] = "incref" /\ ~closed /\ pc' = [pc EXCEPT ![g] = "use"] /\ kind' = kind
        /\ closed' = closed /\ sysfd' = sysfd /\ evicted' = evicted
    BY <1>2 DEF incref, Goto
  <2>2. sysfd = "open" /\ kind[g] = "misc"
    BY <2>1 DEF LastInv, TypeOK, ControlInv, Kind
  <2>3. g \notin Users /\ Users' = Users \cup {g}
    BY <2>1, <2>2 DEF TypeOK, Users, At
  <2>4. \A m \in Mode : Holders(m)' = Holders(m)
    BY <2>1, <2>2 DEF TypeOK, Holders, At
  <2>5. LifeCycle!Use(g)
    BY <2>1, <2>2, <2>3, <2>4 DEF LifeCycle!Use
  <2> QED BY <2>5 DEF LifeCycle!Next
<1>3. CASE rwlock(g) /\ locked' # locked
  <2> PICK m \in Mode : m = mode[g]
    BY DEF TypeOK
  <2>1. pc[g] = "lock" /\ kind[g] = IF m = "r" THEN "read" ELSE "write"
    BY <1>3 DEF rwlock, ControlInv, Kind, Mode
  <2>2. /\ ~closed /\ ~locked[m] /\ pc' = [pc EXCEPT ![g] = "use"] /\ kind' = kind
        /\ closed' = closed /\ sysfd' = sysfd /\ evicted' = evicted
    BY <1>3, <2>1 DEF rwlock, Goto, Fails, Free
  <2>3. sysfd = "open"
    BY <2>2 DEF LastInv, TypeOK
  <2>4. g \notin Users /\ Users' = Users \cup {g}
    BY <2>1, <2>2 DEF TypeOK, Users, At
  <2>5. Holders(m) = {}
    BY <2>2, Finite, CountNat DEF WordExact
  <2>6. \A x \in Mode : Holders(x)' = IF x = m THEN Holders(x) \cup {g} ELSE Holders(x)
    BY <2>1, <2>2 DEF TypeOK, Holders, At, Mode
  <2>7. LifeCycle!UseLocked(g, m)
    BY <2>2, <2>3, <2>4, <2>5, <2>6 DEF LifeCycle!UseLocked
  <2> QED BY <2>7 DEF LifeCycle!Next
<1>4. CASE Leave(g)
  <2>1. \/ rwunlock(g) /\ pc[g] = "use" /\ kind[g] \in {"read", "write"}
        \/ decref(g) /\ pc[g] = "use" /\ kind[g] = "misc"
        \/ decref(g) /\ pc[g] = "decref" /\ kind[g] = "close" /\ evicted
    BY <1>4 DEF Leave, rwunlock, decref, ControlInv, CloserInv, Kind
  <2>2. g \in Users
    BY <2>1 DEF Users, At
  <2>3. ref >= 1 /\ ref # 0
    BY <2>2, UserLeaves
  <2>4. rwunlock(g) => locked[mode[g]]
    <3>1. rwunlock(g) => g \in Holders(mode[g]) /\ mode[g] \in Mode
      BY <2>1 DEF Holders, At, ControlInv, TypeOK, Mode, rwunlock, decref, Kind
    <3> QED BY <3>1, Finite, CountNat, FS_EmptySet DEF WordExact
  <2>5. /\ pc' = [pc EXCEPT ![g] = "release"] /\ kind' = kind
        /\ closed' = closed /\ sysfd' = sysfd /\ evicted' = evicted
    BY <2>1, <2>3, <2>4 DEF rwunlock, decref, Goto
  <2>6. Users' = Users \ {g}
    BY <2>1, <2>5 DEF TypeOK, Users, At
  <2>7. \A m \in Mode : Holders(m)' = Holders(m) \ {g}
    BY <2>1, <2>5 DEF TypeOK, Holders, At
  <2>8. LifeCycle!Leave(g)
    BY <2>2, <2>5, <2>6, <2>7 DEF LifeCycle!Leave
  <2> QED BY <2>8 DEF LifeCycle!Next
<1>5. CASE increfAndClose(g) /\ ~Fails(g)
  <2>1. /\ pc[g] = "close" /\ ~closed /\ closed' = TRUE
        /\ pc' = [pc EXCEPT ![g] = "release"] /\ kind' = kind
        /\ sysfd' = sysfd /\ evicted' = evicted
    BY <1>5 DEF increfAndClose, Goto
  <2>2. sysfd = "open" /\ ~evicted /\ kind[g] = "close"
    BY <2>1 DEF LastInv, TypeOK, CloserInv, ControlInv, Kind
  <2>3. Users' = Users \cup {g}
    BY <2>1, <2>2 DEF TypeOK, Users, At
  <2>4. \A m \in Mode : Holders(m)' = Holders(m)
    BY <2>1, <2>2 DEF TypeOK, Holders, At
  <2>5. LifeCycle!Close(g)
    BY <2>1, <2>2, <2>3, <2>4 DEF LifeCycle!Close
  <2> QED BY <2>5 DEF LifeCycle!Next
<1>6. CASE destroy(g)
  <2>1. /\ pc[g] = "destroy" /\ sysfd' = "destroyed" /\ closed' = closed
        /\ pc' = [pc EXCEPT ![g] = "signal"] /\ kind' = kind /\ evicted' = evicted
    BY <1>6 DEF destroy, Goto
  <2>2. sysfd = "open" /\ closed /\ ref = 0
    BY <2>1 DEF LastInv
  <2>3. Users = {}
    BY <2>2, Finite, CountNat DEF WordExact
  <2>4. Users' = Users
    BY <2>1 DEF TypeOK, Users, At
  <2>5. \A m \in Mode : Holders(m)' = Holders(m)
    BY <2>1 DEF TypeOK, Holders, At
  <2>6. LifeCycle!Destroy
    BY <2>1, <2>2, <2>3, <2>4, <2>5 DEF LifeCycle!Destroy
  <2> QED BY <2>6 DEF LifeCycle!Next
<1>7. CASE Evict(g)
  <2>1. /\ pc[g] = "evict" /\ pc' = [pc EXCEPT ![g] = "decref"] /\ kind' = kind
        /\ evicted' = TRUE /\ UNCHANGED <<closed, sysfd>>
    BY <1>7 DEF Evict, Goto
  <2>2. kind[g] = "close" /\ \A x \in Goroutine : x # g => ~Closer(x)
    BY <2>1 DEF ControlInv, Kind, CloserInv, Closer
  <2>3. Users' = Users
    BY <2>1, <2>2 DEF TypeOK, Users, At, Closer
  <2>4. \A m \in Mode : Holders(m)' = Holders(m)
    BY <2>1 DEF TypeOK, Holders, At
  <2> QED BY <2>1, <2>3, <2>4, Stutters
<1>8. CASE SetBlocking(g)
  BY <1>8, Stutters DEF SetBlocking, Users, Holders, At
<1>9. ASSUME UNCHANGED <<closed, sysfd, evicted>>, pc[g] # "use", pc'[g] # "use",
             \A x \in Goroutine : x # g => pc'[x] = pc[x] /\ kind'[x] = kind[x],
             g \in Users' <=> g \in Users
      PROVE  UNCHANGED LifeCycle!vars
  <2>1. \A x \in Goroutine : x \in Users' <=> x \in Users
    <3>1. \A x \in Goroutine : x # g => (x \in Users' <=> x \in Users)
      BY <1>9 DEF Users, At
    <3> QED BY <1>9, <3>1
  <2>2. Users' = Users
    <3>1. Users \subseteq Goroutine /\ Users' \subseteq Goroutine
      BY DEF Users, At
    <3> QED BY <2>1, <3>1
  <2>3. \A m \in Mode : Holders(m)' = Holders(m)
    BY <1>9 DEF TypeOK, Holders, At
  <2> QED BY <1>9, <2>2, <2>3, Stutters
<1>10. CASE Semrelease(g) \/ SemreleaseDequeue(g) \/ Released(g)
  <2>1. /\ pc[g] \in {"release", "dequeue"}
        /\ kind' = IF pc'[g] = "idle" THEN [kind EXCEPT ![g] = "misc"] ELSE kind
        /\ UNCHANGED <<closed, sysfd, evicted>>
    BY <1>10 DEF Semrelease, SemreleaseDequeue, Released, Goto, TypeOK
  <2>2. \A x \in Goroutine : x # g => pc'[x] = pc[x] /\ kind'[x] = kind[x]
    BY <1>10 DEF Semrelease, SemreleaseDequeue, Released, Goto, TypeOK
  <2>3. \/ pc'[g] \in {"release", "dequeue"} /\ kind' = kind
        \/ pc'[g] = "evict" /\ kind[g] = "close" /\ ~evicted
        \/ /\ pc'[g] \in {"destroy", "closewait", "idle"}
           /\ kind[g] = "close" => evicted
    BY <1>10 DEF Semrelease, SemreleaseDequeue, Released, Goto, TypeOK, CloserInv, ControlInv,
                 Kind
  <2>4. pc'[g] # "use" /\ (g \in Users' <=> g \in Users)
    BY <2>1, <2>3 DEF Users, At
  <2> QED BY <1>9, <2>1, <2>2, <2>4
<1>11. CASE \/ Fails(g) /\ (incref(g) \/ increfAndClose(g) \/ rwlock(g))
            \/ rwlock(g) /\ locked' = locked
            \/ Semacquire(g) \/ Signal(g) \/ CloseWait(g) \/ \E k \in Kind : Call(g, k)
  <2> DEFINE Quiet == {"idle", "incref", "lock", "sleep", "close", "signal", "signalled", "closewait"}
  <2>1. /\ pc[g] \in Quiet /\ UNCHANGED <<closed, sysfd, evicted>>
        /\ \A x \in Goroutine : x # g => pc'[x] = pc[x] /\ kind'[x] = kind[x]
        /\ pc'[g] \in Quiet
    <3>1. CASE Fails(g) /\ (incref(g) \/ increfAndClose(g) \/ rwlock(g))
      BY <3>1 DEF Fails, incref, increfAndClose, rwlock, Goto, TypeOK
    <3>2. CASE rwlock(g) /\ locked' = locked
      BY <3>2 DEF rwlock, Fails, Goto, TypeOK, Free, ControlInv, Kind
    <3>3. CASE Semacquire(g) \/ Signal(g) \/ CloseWait(g)
      BY <3>3 DEF Semacquire, Signal, CloseWait, Goto, TypeOK
    <3>4. CASE \E k \in Kind : Call(g, k)
      BY <3>4 DEF Call, TypeOK, Kind
    <3> QED BY <1>11, <3>1, <3>2, <3>3, <3>4
  <2>2. g \notin Users /\ g \notin Users' /\ pc[g] # "use" /\ pc'[g] # "use"
    BY <2>1 DEF Users, At
  <2> QED BY <1>9, <2>1, <2>2
<1> QED BY <1>2, <1>3, <1>4, <1>5, <1>6, <1>7, <1>8, <1>10, <1>11 DEF Operation, Step

\* A descriptor used through fdMutex lives as Descriptor says: no use begins after
\* Close, and it is destroyed once, when nobody uses it.
THEOREM FdIsDescriptor == Spec => ImplementsDescriptor
<1>1. Init => LifeCycle!Init
  <2> SUFFICES ASSUME Init  PROVE LifeCycle!Init
    OBVIOUS
  <2>1. Users = {} /\ \A m \in Mode : Holders(m) = {}
    BY DEF Init, Users, Holders, At
  <2> QED BY <2>1 DEF Init, LifeCycle!Init
<1>2. IInv /\ [Next]_vars => [LifeCycle!Next]_LifeCycle!vars
  <2> SUFFICES ASSUME IInv, [Next]_vars  PROVE [LifeCycle!Next]_LifeCycle!vars
    OBVIOUS
  <2>1. CASE UNCHANGED vars
    BY <2>1, Stutters DEF vars, Users, Holders, At
  <2>2. CASE Next
    BY <2>2, StepSimulates DEF Next
  <2> QED BY <2>1, <2>2
<1> QED BY <1>1, <1>2, FdInductive, PTL DEF Spec, LifeCycle!Spec, ImplementsDescriptor

=============================================================================
