----------------------------- MODULE SemaProofs -----------------------------
(***************************************************************************)
(* What holds of runtime/sema.go for every set of goroutines, of addresses  *)
(* and every bound on the counts: wakeups are neither lost nor doubled,     *)
(* nwait is exact, and Sema implements SemaphoreSpec, the semaphore that    *)
(* the models of package sync stand on.                                     *)
(*                                                                         *)
(* NoLostWakeup alone is not inductive: a unit may be posted between the    *)
(* second test of the count and the park, when the list is still empty.     *)
(* WakeupInv therefore counts a goroutine as asleep from that test, and a   *)
(* releaser that reads nwait = 0 is right because the waiter was counted    *)
(* before it tested (NwaitExact, LockInv).                                  *)
(***************************************************************************)
EXTENDS Sema, FiniteSetTheorems, TLAPS

-----------------------------------------------------------------------------
(* How a count changes when one element joins or leaves *)

\* A part of a finite set has a number of elements, zero only if it is empty.
LEMMA CountNat ==
    ASSUME NEW G, IsFiniteSet(G), NEW S \in SUBSET G
    PROVE  IsFiniteSet(S) /\ Cardinality(S) \in Nat /\ (Cardinality(S) = 0 <=> S = {})
  BY FS_Subset, FS_CardinalityType, FS_EmptySet

\* One element joins.
LEMMA CountJoin ==
    ASSUME NEW S, IsFiniteSet(S), NEW x, x \notin S, NEW T, T = S \cup {x}
    PROVE  IsFiniteSet(T) /\ Cardinality(T) = Cardinality(S) + 1
  BY FS_AddElement

\* One element leaves.
LEMMA CountLeave ==
    ASSUME NEW S, IsFiniteSet(S), NEW x, x \in S, NEW T, T = S \ {x}
    PROVE  IsFiniteSet(T) /\ Cardinality(T) = Cardinality(S) - 1
  BY FS_RemoveElement

\* One element may join or leave.
LEMMA CountStep ==
    ASSUME NEW S, IsFiniteSet(S), NEW x, NEW T, T \ {x} = S \ {x}
    PROVE  /\ IsFiniteSet(T) /\ Cardinality(S) \in Nat /\ Cardinality(T) \in Nat
           /\ Cardinality(T) + (IF x \in S THEN 1 ELSE 0)
                = Cardinality(S) + (IF x \in T THEN 1 ELSE 0)
<1>1. Cardinality(S) \in Nat
  BY FS_CardinalityType
<1>2. CASE x \in T /\ x \notin S
  <2>1. T = S \cup {x}
    BY <1>2
  <2> QED BY <1>1, <1>2, <2>1, CountJoin
<1>3. CASE x \notin T /\ x \in S
  <2>1. T = S \ {x}
    BY <1>3
  <2>2. IsFiniteSet(T) /\ Cardinality(T) = Cardinality(S) - 1
    BY <1>3, <2>1, CountLeave
  <2>3. Cardinality(T) \in Nat
    BY <2>2, FS_CardinalityType
  <2> QED BY <1>1, <1>3, <2>2, <2>3
<1>4. CASE x \in T <=> x \in S
  <2>1. T = S
    BY <1>4
  <2> QED BY <1>1, <1>4, <2>1
<1> QED BY <1>2, <1>3, <1>4

-----------------------------------------------------------------------------
(* Queues that gain or lose an entry *)

\* The members of a queue.
Members(q) == {q[i] : i \in DOMAIN q}

\* Nobody is in the queue twice.
Distinct(q) == \A i, j \in DOMAIN q : q[i] = q[j] => i = j

\* The members of a queue of S are in S.
LEMMA MembersIn ==
    ASSUME NEW S, NEW q \in Seq(S)
    PROVE  Members(q) \subseteq S
  BY DEF Members

\* A newcomer at the end.
LEMMA AppendAdds ==
    ASSUME NEW S, NEW q \in Seq(S), NEW x \in S, x \notin Members(q), Distinct(q)
    PROVE  /\ Append(q, x) \in Seq(S) /\ Append(q, x) # <<>>
           /\ Members(Append(q, x)) = Members(q) \cup {x}
           /\ Distinct(Append(q, x))
<1> DEFINE r == Append(q, x)
<1>1. /\ r \in Seq(S) /\ r # <<>> /\ Len(q) \in Nat /\ DOMAIN q = 1..Len(q)
      /\ DOMAIN r = 1..(Len(q) + 1) /\ r[Len(q) + 1] = x
      /\ \A i \in 1..Len(q) : r[i] = q[i]
  OBVIOUS
<1>2. \A i \in 1..(Len(q) + 1) : i \in 1..Len(q) \/ i = Len(q) + 1
  BY <1>1
<1>3. \A i \in 1..Len(q) : i \in DOMAIN r
  BY <1>1
<1>4. Len(q) + 1 \in DOMAIN r
  BY <1>1
<1> HIDE DEF r
<1>5. Members(r) = Members(q) \cup {x}
  BY <1>1, <1>2, <1>3, <1>4 DEF Members
<1>6. Distinct(r)
  BY <1>1, <1>2 DEF Distinct, Members
<1> QED BY <1>1, <1>5, <1>6 DEF r

\* A newcomer at the head.
LEMMA PrependAdds ==
    ASSUME NEW S, NEW q \in Seq(S), NEW x \in S, x \notin Members(q), Distinct(q)
    PROVE  /\ <<x>> \o q \in Seq(S) /\ <<x>> \o q # <<>>
           /\ Members(<<x>> \o q) = Members(q) \cup {x}
           /\ Distinct(<<x>> \o q)
<1> DEFINE r == <<x>> \o q
<1>1. /\ r \in Seq(S) /\ r # <<>> /\ Len(q) \in Nat /\ DOMAIN q = 1..Len(q)
      /\ DOMAIN r = 1..(Len(q) + 1) /\ r[1] = x
  OBVIOUS
<1>2. \A i \in 2..(Len(q) + 1) : r[i] = q[i - 1]
  OBVIOUS
<1> HIDE DEF r
<1>3. \A i \in DOMAIN r : i = 1 \/ (i \in 2..(Len(q) + 1) /\ i - 1 \in DOMAIN q)
  BY <1>1
<1>4. \A i \in DOMAIN q : i + 1 \in DOMAIN r /\ i + 1 \in 2..(Len(q) + 1) /\ (i + 1) - 1 = i
  BY <1>1
<1>5. Members(r) = Members(q) \cup {x}
  <2>1. \A y : y \in Members(r) => y \in Members(q) \cup {x}
    BY <1>1, <1>2, <1>3 DEF Members
  <2>2. \A i \in DOMAIN q : r[i + 1] = q[i]
    BY <1>2, <1>4
  <2>3. x \in Members(r)
    BY <1>1 DEF Members
  <2>4. \A y \in Members(q) : y \in Members(r)
    BY <1>4, <2>2 DEF Members
  <2> QED BY <2>1, <2>3, <2>4
<1>6. Distinct(r)
  <2> SUFFICES ASSUME NEW i \in DOMAIN r, NEW j \in DOMAIN r, r[i] = r[j]
               PROVE  i = j
    BY DEF Distinct
  <2>1. \A k \in 2..(Len(q) + 1) : k - 1 \in DOMAIN q => r[k] # x
    BY <1>2 DEF Members
  <2>2. CASE i = 1 \/ j = 1
    BY <1>1, <1>3, <2>1, <2>2
  <2>3. CASE i # 1 /\ j # 1
    <3>1. i - 1 \in DOMAIN q /\ j - 1 \in DOMAIN q /\ q[i - 1] = q[j - 1]
      BY <1>2, <1>3, <2>3
    <3>2. i - 1 = j - 1
      BY <3>1 DEF Distinct
    <3> QED BY <1>1, <3>2
  <2> QED BY <2>2, <2>3
<1> QED BY <1>1, <1>5, <1>6 DEF r

\* The first one leaves.
LEMMA TailRemoves ==
    ASSUME NEW S, NEW q \in Seq(S), q # <<>>, Distinct(q)
    PROVE  /\ Tail(q) \in Seq(S)
           /\ Head(q) \in S /\ Head(q) \in Members(q) /\ Head(q) \notin Members(Tail(q))
           /\ Members(Tail(q)) = Members(q) \ {Head(q)}
           /\ Distinct(Tail(q))
<1> DEFINE r == Tail(q)
<1>1. /\ r \in Seq(S) /\ Len(q) \in Nat /\ Len(q) >= 1 /\ DOMAIN q = 1..Len(q)
      /\ DOMAIN r = 1..(Len(q) - 1) /\ Head(q) = q[1] /\ Head(q) \in S
      /\ \A i \in 1..(Len(q) - 1) : r[i] = q[i + 1]
  OBVIOUS
<1> HIDE DEF r
<1>2. \A i \in 1..(Len(q) - 1) : i + 1 \in DOMAIN q /\ i + 1 # 1
  BY <1>1
<1>3. 1 \in DOMAIN q
  BY <1>1
<1>4. \A x : x \in Members(r) => x \in Members(q) \ {q[1]}
  <2> SUFFICES ASSUME NEW i \in 1..(Len(q) - 1)  PROVE r[i] \in Members(q) \ {q[1]}
    BY <1>1 DEF Members
  <2> QED BY <1>1, <1>2, <1>3 DEF Members, Distinct
<1>5. \A x : x \in Members(q) \ {q[1]} => x \in Members(r)
  <2> SUFFICES ASSUME NEW i \in 1..Len(q), q[i] # q[1]  PROVE q[i] \in Members(r)
    BY <1>1 DEF Members
  <2>1. i - 1 \in 1..(Len(q) - 1) /\ (i - 1) + 1 = i
    BY <1>1
  <2>2. r[i - 1] = q[i]
    BY <1>1, <2>1
  <2> QED BY <1>1, <2>1, <2>2 DEF Members
<1>6. Distinct(r)
  <2> SUFFICES ASSUME NEW i \in 1..(Len(q) - 1), NEW j \in 1..(Len(q) - 1), r[i] = r[j]
               PROVE  i = j
    BY <1>1 DEF Distinct
  <2>1. i + 1 = j + 1
    BY <1>1, <1>2 DEF Distinct
  <2> QED BY <1>1, <2>1
<1> QED BY <1>1, <1>3, <1>4, <1>5, <1>6 DEF r, Members

-----------------------------------------------------------------------------
(* The inductive invariant *)

\* The posts under way fit under the bound.
BoundInv == \A a \in Addr : sema[a] + Pending(a) <= MaxSema

\* root.lock is held from the announcement of a waiter to its undo or its park.
LockInv == \A g \in Goroutine : pc[g] \in {"check", "undo", "queue"} <=> lock = g

\* The locals of a call.
CallInv ==
    \A g \in Goroutine :
        /\ pc[g] = "idle" <=> arg[g] = Nil
        /\ pc[g] = "ready" <=> s[g] # Nil
        /\ ticket[g] # 0 => pc[g] = "awake"

\* A list holds parked goroutines that wait for its address, each once.
ListInv ==
    \A a \in Addr : /\ Distinct(list[a])
                    /\ \A g \in Members(list[a]) : pc[g] = "parked" /\ arg[g] = a

\* The waiter that a releaser has dequeued is parked, off the lists, and nobody else's.
TargetInv ==
    \A g \in Goroutine : pc[g] = "ready" =>
        /\ pc[s[g]] = "parked" /\ arg[s[g]] = arg[g] /\ s[g] \notin Members(list[arg[g]])
        /\ \A h \in Goroutine \ {g} : s[h] # s[g]

\* Somebody sleeps on a or has made up its mind to.
Sleeping(a) == list[a] # <<>> \/ \E g \in Goroutine : pc[g] = "queue" /\ arg[g] = a

\* NoLostWakeup from the moment the second test of the count fails.
WakeupInv == \A a \in Addr : Sleeping(a) => sema[a] <= Cardinality(InFlight(a))

IInv ==
    /\ TypeOK
    /\ BoundInv
    /\ LockInv
    /\ CallInv
    /\ ListInv
    /\ TargetInv
    /\ NwaitExact
    /\ WakeupInv

-----------------------------------------------------------------------------
(* Counting *)

Held == {"check", "undo", "queue"}

\* Who is counted by root.nwait.
Waiters == {g \in Goroutine : \/ pc[g] \in {"check", "undo", "queue"}
                              \/ \E a \in Addr : g \in Queued(a)}

\* The sets that are counted are finite.
LEMMA Finite ==
    /\ IsFiniteSet(Waiters) /\ Cardinality(Waiters) \in Nat
    /\ Cardinality(Waiters) <= Cardinality(Goroutine)
    /\ \A a \in Addr : /\ IsFiniteSet(InFlight(a)) /\ Cardinality(InFlight(a)) \in Nat
                       /\ Pending(a) \in Nat
<1>1. /\ Waiters \in SUBSET Goroutine
      /\ \A a \in Addr : /\ InFlight(a) \in SUBSET Goroutine
                         /\ {g \in Goroutine : pc[g] = "xadd" /\ arg[g] = a} \in SUBSET Goroutine
  BY DEF Waiters, InFlight
<1> QED BY <1>1, SemaAssumption, CountNat, FS_Subset DEF Pending

\* One goroutine moves and the list of a stays: it may enter or leave InFlight.
LEMMA InFlightStep ==
    ASSUME NEW g \in Goroutine, NEW a \in Addr, list'[a] = list[a],
           \A x \in Goroutine \ {g} :
               pc'[x] = pc[x] /\ arg'[x] = arg[x] /\ ticket'[x] = ticket[x]
    PROVE  /\ Cardinality(InFlight(a)) \in Nat /\ Cardinality(InFlight(a)') \in Nat
           /\ Cardinality(InFlight(a)') + (IF g \in InFlight(a) THEN 1 ELSE 0)
                = Cardinality(InFlight(a)) + (IF g \in InFlight(a)' THEN 1 ELSE 0)
<1>1. InFlight(a)' \ {g} = InFlight(a) \ {g}
  BY DEF InFlight, Queued
<1>2. IsFiniteSet(InFlight(a))
  BY Finite
<1> QED BY <1>1, <1>2, CountStep

\* The same for the releases that have not raised the count yet.
LEMMA PendingStep ==
    ASSUME NEW g \in Goroutine, NEW a \in Addr,
           \A x \in Goroutine \ {g} : pc'[x] = pc[x] /\ arg'[x] = arg[x]
    PROVE  /\ Pending(a) \in Nat /\ Pending(a)' \in Nat
           /\ Pending(a)' + (IF pc[g] = "xadd" /\ arg[g] = a THEN 1 ELSE 0)
                = Pending(a) + (IF pc'[g] = "xadd" /\ arg'[g] = a THEN 1 ELSE 0)
<1> DEFINE P == {x \in Goroutine : pc[x] = "xadd" /\ arg[x] = a}
<1>1. P' \ {g} = P \ {g}
  OBVIOUS
<1>2. IsFiniteSet(P)
  BY SemaAssumption, CountNat
<1>3. (g \in P <=> pc[g] = "xadd" /\ arg[g] = a) /\ (g \in P' <=> pc'[g] = "xadd" /\ arg'[g] = a)
  OBVIOUS
<1>4. Pending(a) = Cardinality(P) /\ Pending(a)' = Cardinality(P')
  BY DEF Pending
<1> HIDE DEF P
<1>5. /\ Cardinality(P) \in Nat /\ Cardinality(P') \in Nat
      /\ Cardinality(P') + (IF g \in P THEN 1 ELSE 0) = Cardinality(P) + (IF g \in P' THEN 1 ELSE 0)
  BY <1>1, <1>2, CountStep
<1> QED BY <1>3, <1>4, <1>5

\* Nothing sleeps on a root that counts nobody.
LEMMA NobodyWaits ==
    ASSUME TypeOK, NwaitExact, nwait = 0, NEW a \in Addr
    PROVE  ~ Sleeping(a)
<1>1. Waiters = {}
  <2>1. Cardinality(Waiters) = 0
    BY DEF NwaitExact, Waiters
  <2> QED BY <2>1, Finite, FS_EmptySet
<1>2. list[a] = <<>>
  <2> SUFFICES ASSUME list[a] # <<>>  PROVE FALSE
    OBVIOUS
  <2>1. list[a] \in Seq(Goroutine) /\ 1 \in DOMAIN list[a] /\ list[a][1] \in Goroutine
    BY DEF TypeOK
  <2>2. list[a][1] \in Waiters
    BY <2>1 DEF Waiters, Queued
  <2> QED BY <1>1, <2>2
<1> QED BY <1>1, <1>2 DEF Sleeping, Waiters

\* Only the holder of root.lock is about to sleep.
LEMMA LockFree ==
    ASSUME TypeOK, LockInv, lock = Nil, NEW a \in Addr
    PROVE  Sleeping(a) <=> list[a] # <<>>
  BY SemaAssumption DEF LockInv, Sleeping

-----------------------------------------------------------------------------
(* Steps outside root.lock, and the second test of the count under it *)

\* Such a step moves one goroutine, on one address, and leaves the lists alone.
Alone(g, b) ==
    /\ UNCHANGED <<lock, nwait, list, s>>
    /\ \A x \in Goroutine \ {g} : pc'[x] = pc[x] /\ arg'[x] = arg[x] /\ ticket'[x] = ticket[x]
    /\ \A a \in Addr \ {b} : sema'[a] = sema[a]
    /\ arg[g] \in {b, Nil} /\ arg'[g] \in {b, Nil}
    /\ pc[g] \notin {"parked", "ready"} /\ pc'[g] \notin {"parked", "ready"}
    /\ pc[g] \in Held <=> pc'[g] \in Held
    /\ pc'[g] = "idle" <=> arg'[g] = Nil
    /\ ticket'[g] # 0 => pc'[g] = "awake"
    /\ sema' \in [Addr -> Nat] /\ ticket' \in [Goroutine -> 0..1] /\ pc' \in [Goroutine -> PC]
    /\ arg' \in [Goroutine -> Addr \cup {Nil}] /\ flag' \in [Goroutine -> BOOLEAN]

\* It keeps the invariant if it does so for its own address.
LEMMA AloneKeeps ==
    ASSUME IInv, NEW g \in Goroutine, NEW b \in Addr, Alone(g, b),
           sema'[b] + Pending(b)' <= MaxSema,
           Sleeping(b)' => sema'[b] <= Cardinality(InFlight(b)')
    PROVE  IInv'
<1> USE DEF IInv
<1>1. BoundInv'
  <2> SUFFICES ASSUME NEW a \in Addr, a # b  PROVE sema'[a] + Pending(a)' <= MaxSema
    BY DEF BoundInv
  <2>1. Pending(a)' = Pending(a) /\ sema'[a] = sema[a]
    <3>1. {x \in Goroutine : pc[x] = "xadd" /\ arg[x] = a}'
            = {x \in Goroutine : pc[x] = "xadd" /\ arg[x] = a}
      BY SemaAssumption DEF Alone
    <3> QED BY <3>1 DEF Pending, Alone
  <2> QED BY <2>1 DEF BoundInv
<1>2. WakeupInv'
  <2> SUFFICES ASSUME NEW a \in Addr, a # b, Sleeping(a)'
               PROVE  sema'[a] <= Cardinality(InFlight(a)')
    BY DEF WakeupInv
  <2>1. InFlight(a)' = InFlight(a)
    BY SemaAssumption DEF InFlight, Queued, Alone
  <2>2. Sleeping(a)
    <3>1. list'[a] = list[a] /\ arg'[g] # a
      BY SemaAssumption DEF Alone
    <3> QED BY <3>1 DEF Sleeping, Alone
  <2>3. sema'[a] = sema[a]
    BY DEF Alone
  <2> QED BY <2>1, <2>2, <2>3 DEF WakeupInv
<1>3. LockInv'
  BY DEF LockInv, Alone, Held
<1>4. CallInv'
  BY DEF CallInv, Alone
<1>5. ListInv'
  <2>1. \A a \in Addr : list'[a] = list[a] /\ list[a] \in Seq(Goroutine)
    BY DEF Alone, TypeOK
  <2>2. \A a \in Addr : \A x \in Members(list[a]) : x \in Goroutine \ {g}
    BY <2>1, MembersIn DEF ListInv, Alone
  <2> QED BY <2>1, <2>2 DEF ListInv, Alone
<1>6. TargetInv'
  <2> SUFFICES ASSUME NEW h \in Goroutine, pc'[h] = "ready"
               PROVE  /\ pc'[s'[h]] = "parked" /\ arg'[s'[h]] = arg'[h]
                      /\ s'[h] \notin Members(list'[arg'[h]])
                      /\ \A k \in Goroutine \ {h} : s'[k] # s'[h]
    BY DEF TargetInv
  <2>1. h # g /\ pc[h] = "ready" /\ arg'[h] = arg[h] /\ s' = s /\ list' = list
    BY DEF Alone
  <2>2. s[h] \in Goroutine
    BY <2>1 DEF CallInv, TypeOK
  <2>3. s[h] # g
    BY <2>1 DEF TargetInv, Alone
  <2> QED BY <2>1, <2>2, <2>3 DEF TargetInv, Alone
<1>7. NwaitExact'
  <2>1. Waiters' = Waiters
    BY DEF Waiters, Queued, Alone, Held
  <2> QED BY <2>1 DEF NwaitExact, Waiters, Alone
<1>8. TypeOK'
  <2>1. sema' \in [Addr -> 0..MaxSema]
    <3>1. \A a \in Addr : sema'[a] \in Nat /\ sema'[a] <= MaxSema
      <4> TAKE a \in Addr
      <4>1. sema'[a] \in Nat /\ Pending(a)' \in Nat
        BY PendingStep DEF Alone
      <4> QED BY <1>1, <4>1, SemaAssumption DEF BoundInv
    <3> QED BY <3>1, SemaAssumption DEF Alone
  <2> QED BY <2>1 DEF TypeOK, Alone
<1> QED BY <1>1, <1>2, <1>3, <1>4, <1>5, <1>6, <1>7, <1>8

\* A call of semacquire1 or semrelease1 begins.
LEMMA CallKeeps ==
    ASSUME IInv, NEW g \in Goroutine, NEW a \in Addr, NEW f \in BOOLEAN,
           Semacquire(g, a, f) \/ Semrelease(g, a, f)
    PROVE  IInv'
<1> USE DEF IInv
<1>1. PICK l \in {"easy", "xadd"} :
          /\ pc[g] = "idle" /\ pc' = [pc EXCEPT ![g] = l]
          /\ arg' = [arg EXCEPT ![g] = a] /\ flag' = [flag EXCEPT ![g] = f]
          /\ l = "xadd" => sema[a] + Pending(a) < MaxSema
          /\ UNCHANGED <<sema, lock, nwait, list, ticket, s>>
  BY DEF Semacquire, Semrelease, Call, Goto
<1>2. /\ \A x \in Goroutine : pc'[x] = IF x = g THEN l ELSE pc[x]
      /\ \A x \in Goroutine : arg'[x] = IF x = g THEN a ELSE arg[x]
  BY <1>1 DEF TypeOK
<1>3. /\ pc' \in [Goroutine -> PC] /\ arg' \in [Goroutine -> Addr \cup {Nil}]
      /\ flag' \in [Goroutine -> BOOLEAN] /\ sema \in [Addr -> Nat]
  BY <1>1 DEF TypeOK, PC
<1>4. arg[g] = Nil /\ ticket[g] = 0 /\ a # Nil
  BY <1>1, SemaAssumption DEF CallInv, TypeOK
<1>5. Alone(g, a)
  BY <1>1, <1>2, <1>3, <1>4 DEF Alone, Held, TypeOK
<1>6. sema'[a] + Pending(a)' <= MaxSema
  <2>1. /\ Pending(a) \in Nat /\ Pending(a)' \in Nat
        /\ Pending(a)' + (IF pc[g] = "xadd" /\ arg[g] = a THEN 1 ELSE 0)
             = Pending(a) + (IF pc'[g] = "xadd" /\ arg'[g] = a THEN 1 ELSE 0)
    BY <1>2, PendingStep
  <2>2. Pending(a)' = Pending(a) + (IF l = "xadd" THEN 1 ELSE 0)
    BY <1>1, <1>2, <2>1
  <2>3. sema[a] + Pending(a) <= MaxSema /\ sema'[a] = sema[a] /\ sema[a] \in Nat
    BY <1>1, <1>3 DEF BoundInv
  <2> QED BY <1>1, <2>1, <2>2, <2>3, SemaAssumption
<1>7. Sleeping(a)' => sema'[a] <= Cardinality(InFlight(a)')
  <2>1. Sleeping(a)' => Sleeping(a)
    BY <1>1, <1>2 DEF Sleeping
  <2>2. InFlight(a)' = InFlight(a)
    BY <1>1, <1>2, <1>4 DEF InFlight, Queued
  <2> QED BY <1>1, <2>1, <2>2 DEF WakeupInv
<1> QED BY <1>5, <1>6, <1>7, AloneKeeps

\* A goroutine inside a call goes on to l, or returns: what it can disturb on its
\* own address is the count, the posts under way and the wakeups under way.
GoesOn(g, b, l, c) ==
    /\ l \in PC \ {"parked", "ready", "xadd"} /\ c \in Nat
    /\ arg[g] = b /\ pc[g] \notin {"parked", "ready"} /\ pc' = [pc EXCEPT ![g] = l]
    /\ \/ /\ l = "idle" /\ arg' = [arg EXCEPT ![g] = Nil]
          /\ flag' = [flag EXCEPT ![g] = FALSE]
       \/ l # "idle" /\ UNCHANGED <<arg, flag>>
    /\ \/ ticket' = [ticket EXCEPT ![g] = 0]
       \/ pc[g] # "awake" /\ UNCHANGED ticket
    /\ UNCHANGED <<lock, nwait, list, s>>
    /\ sema' = [sema EXCEPT ![b] = c]
    /\ pc[g] \in Held <=> l \in Held
    /\ pc[g] = "xadd" <=> l = "load"
    /\ IF l = "load" THEN c = sema[b] + 1 ELSE c <= sema[b]
    /\ l = "queue" => c = 0
    /\ g \in InFlight(b) => \/ c = 0 \/ ~Sleeping(b) \/ c < sema[b] \/ l = "rlock"

\* Its step keeps the invariant.
LEMMA GoOn ==
    ASSUME IInv, NEW g \in Goroutine, NEW b \in Addr, NEW CONSTANT l, NEW CONSTANT c,
           GoesOn(g, b, l, c)
    PROVE  IInv'
<1> USE DEF IInv
<1>1. /\ \A x \in Goroutine : pc'[x] = IF x = g THEN l ELSE pc[x]
      /\ \A x \in Goroutine : arg'[x] = IF x = g /\ l = "idle" THEN Nil ELSE arg[x]
      /\ \A x \in Goroutine : x # g => ticket'[x] = ticket[x]
      /\ ticket'[g] = 0
  BY DEF TypeOK, CallInv, GoesOn
<1>2. /\ pc' \in [Goroutine -> PC] /\ arg' \in [Goroutine -> Addr \cup {Nil}]
      /\ flag' \in [Goroutine -> BOOLEAN] /\ ticket' \in [Goroutine -> 0..1]
      /\ sema' \in [Addr -> Nat] /\ sema'[b] = c /\ sema[b] \in Nat
      /\ \A a \in Addr \ {b} : sema'[a] = sema[a]
  <2>1. pc' \in [Goroutine -> PC] /\ ticket' \in [Goroutine -> 0..1]
    BY DEF TypeOK, GoesOn
  <2>2. arg' \in [Goroutine -> Addr \cup {Nil}] /\ flag' \in [Goroutine -> BOOLEAN]
    BY DEF TypeOK, GoesOn
  <2>3. sema \in [Addr -> Nat] /\ c \in Nat /\ sema' = [sema EXCEPT ![b] = c]
    BY DEF TypeOK, GoesOn
  <2> QED BY <2>1, <2>2, <2>3
<1>3. pc[g] # "idle" /\ b # Nil
  BY SemaAssumption DEF CallInv, GoesOn
<1>4. Alone(g, b)
  BY <1>1, <1>2, <1>3 DEF Alone, GoesOn
<1>5. sema'[b] + Pending(b)' <= MaxSema
  <2>1. /\ Pending(b) \in Nat /\ Pending(b)' \in Nat
        /\ Pending(b)' + (IF pc[g] = "xadd" /\ arg[g] = b THEN 1 ELSE 0)
             = Pending(b) + (IF pc'[g] = "xadd" /\ arg'[g] = b THEN 1 ELSE 0)
    BY <1>1, PendingStep
  <2>2. Pending(b)' + (IF pc[g] = "xadd" THEN 1 ELSE 0) = Pending(b)
    BY <1>1, <2>1 DEF GoesOn
  <2>3. sema[b] + Pending(b) <= MaxSema
    BY DEF BoundInv
  <2> QED BY <1>2, <2>1, <2>2, <2>3, SemaAssumption DEF GoesOn
<1>6. ASSUME Sleeping(b)'  PROVE sema'[b] <= Cardinality(InFlight(b)')
  <2>1. /\ Cardinality(InFlight(b)) \in Nat /\ Cardinality(InFlight(b)') \in Nat
        /\ Cardinality(InFlight(b)') + (IF g \in InFlight(b) THEN 1 ELSE 0)
             = Cardinality(InFlight(b)) + (IF g \in InFlight(b)' THEN 1 ELSE 0)
    BY <1>1, InFlightStep DEF GoesOn
  <2>2. CASE c = 0
    BY <1>2, <2>1, <2>2
  <2>3. CASE c # 0
    <3>1. Sleeping(b)
      BY <1>1, <1>6, <2>3 DEF Sleeping, GoesOn
    <3>2. sema[b] <= Cardinality(InFlight(b))
      BY <3>1 DEF WakeupInv
    <3>3. l \in {"load", "rlock"} => g \in InFlight(b)'
      BY <1>1 DEF InFlight, GoesOn
    <3>4. CASE l = "load"
      <4>1. g \notin InFlight(b)
        BY <3>4 DEF InFlight, GoesOn
      <4> QED BY <1>2, <2>1, <3>2, <3>3, <3>4, <4>1 DEF GoesOn
    <3>5. CASE l # "load" /\ g \notin InFlight(b)
      BY <1>2, <2>1, <3>2, <3>5 DEF GoesOn
    <3>6. CASE l # "load" /\ g \in InFlight(b)
      BY <1>2, <2>1, <2>3, <3>1, <3>2, <3>3, <3>6 DEF GoesOn
    <3> QED BY <3>4, <3>5, <3>6
  <2> QED BY <2>2, <2>3
<1> QED BY <1>4, <1>5, <1>6, AloneKeeps

\* The address of a call.
LEMMA ArgIsAddr ==
    ASSUME IInv, NEW g \in Goroutine, pc[g] # "idle"
    PROVE  arg[g] \in Addr /\ sema[arg[g]] \in Nat
  BY DEF IInv, TypeOK, CallInv

\* The first test of the count.
LEMMA AcquireEasyKeeps == ASSUME IInv, NEW g \in Goroutine, AcquireEasy(g)  PROVE IInv'
<1>1. PICK b \in Addr : b = arg[g] /\ sema[b] \in Nat
  BY ArgIsAddr DEF AcquireEasy
<1>2. pc[g] = "easy" /\ UNCHANGED <<lock, nwait, list, ticket, s>>
  BY DEF AcquireEasy
<1>3. g \notin InFlight(b)
  BY <1>2 DEF InFlight
<1>4. CASE cansemacquire(arg[g]) /\ Return(g)
  <2>1. /\ sema[b] > 0 /\ sema' = [sema EXCEPT ![b] = sema[b] - 1] /\ sema[b] - 1 \in Nat
        /\ pc' = [pc EXCEPT ![g] = "idle"]
        /\ arg' = [arg EXCEPT ![g] = Nil] /\ flag' = [flag EXCEPT ![g] = FALSE]
    BY <1>1, <1>4 DEF cansemacquire, Return, Goto
  <2>9. GoesOn(g, b, "idle", sema[b] - 1)
    BY <1>1, <1>2, <1>3, <2>1 DEF PC, Held, GoesOn
  <2> QED BY <2>9, GoOn
<1>5. CASE sema[arg[g]] = 0 /\ Goto(g, "lock") /\ UNCHANGED <<sema, arg, flag>>
  <2>1. /\ sema' = [sema EXCEPT ![b] = sema[b]]
        /\ pc' = [pc EXCEPT ![g] = "lock"] /\ UNCHANGED <<arg, flag>>
    BY <1>1, <1>5 DEF IInv, TypeOK, Goto
  <2>9. GoesOn(g, b, "lock", sema[b])
    BY <1>1, <1>2, <1>3, <2>1 DEF PC, Held, GoesOn
  <2> QED BY <2>9, GoOn
<1> QED BY <1>4, <1>5 DEF AcquireEasy

\* The second test of the count.
LEMMA AcquireCheckKeeps == ASSUME IInv, NEW g \in Goroutine, AcquireCheck(g)  PROVE IInv'
<1>1. PICK b \in Addr : b = arg[g] /\ sema[b] \in Nat
  BY ArgIsAddr DEF AcquireCheck
<1>2. pc[g] = "check" /\ UNCHANGED <<lock, nwait, list, ticket, arg, flag, s>>
  BY DEF AcquireCheck
<1>3. g \notin InFlight(b)
  BY <1>2 DEF InFlight
<1>4. CASE cansemacquire(arg[g]) /\ Goto(g, "undo")
  <2>1. /\ sema[b] > 0 /\ sema' = [sema EXCEPT ![b] = sema[b] - 1] /\ sema[b] - 1 \in Nat
        /\ pc' = [pc EXCEPT ![g] = "undo"]
    BY <1>1, <1>4 DEF cansemacquire, Goto
  <2>9. GoesOn(g, b, "undo", sema[b] - 1)
    BY <1>1, <1>2, <1>3, <2>1 DEF PC, Held, GoesOn
  <2> QED BY <2>9, GoOn
<1>5. CASE sema[arg[g]] = 0 /\ Goto(g, "queue") /\ UNCHANGED sema
  <2>1. sema' = [sema EXCEPT ![b] = 0] /\ sema[b] = 0 /\ pc' = [pc EXCEPT ![g] = "queue"]
    BY <1>1, <1>5 DEF IInv, TypeOK, Goto
  <2>9. GoesOn(g, b, "queue", 0)
    BY <1>1, <1>2, <1>3, <2>1 DEF PC, Held, GoesOn
  <2> QED BY <2>9, GoOn
<1> QED BY <1>4, <1>5 DEF AcquireCheck

\* A waiter runs again.
LEMMA AcquireAwakeKeeps == ASSUME IInv, NEW g \in Goroutine, AcquireAwake(g)  PROVE IInv'
<1>1. PICK b \in Addr : b = arg[g] /\ sema[b] \in Nat
  BY ArgIsAddr DEF AcquireAwake
<1>2. /\ pc[g] = "awake" /\ ticket' = [ticket EXCEPT ![g] = 0] /\ ticket'[g] = 0
      /\ UNCHANGED <<lock, nwait, list, s>>
  BY DEF AcquireAwake, IInv, TypeOK
<1>3. CASE ticket[g] # 0 /\ Return(g) /\ UNCHANGED sema
  <2>1. /\ sema' = [sema EXCEPT ![b] = sema[b]]
        /\ pc' = [pc EXCEPT ![g] = "idle"]
        /\ arg' = [arg EXCEPT ![g] = Nil] /\ flag' = [flag EXCEPT ![g] = FALSE]
    BY <1>1, <1>3 DEF IInv, TypeOK, Return, Goto
  <2>2. g \notin InFlight(b)
    BY <1>2, <1>3 DEF InFlight
  <2>9. GoesOn(g, b, "idle", sema[b])
    BY <1>1, <1>2, <2>1, <2>2 DEF PC, Held, GoesOn
  <2> QED BY <2>9, GoOn
<1>4. CASE cansemacquire(arg[g]) /\ Return(g)
  <2>1. /\ sema[b] > 0 /\ sema' = [sema EXCEPT ![b] = sema[b] - 1] /\ sema[b] - 1 \in Nat
        /\ sema[b] - 1 < sema[b]
        /\ pc' = [pc EXCEPT ![g] = "idle"]
        /\ arg' = [arg EXCEPT ![g] = Nil] /\ flag' = [flag EXCEPT ![g] = FALSE]
    BY <1>1, <1>4 DEF cansemacquire, Return, Goto
  <2>9. GoesOn(g, b, "idle", sema[b] - 1)
    BY <1>1, <1>2, <2>1 DEF PC, Held, GoesOn
  <2> QED BY <2>9, GoOn
<1>5. CASE sema[arg[g]] = 0 /\ Goto(g, "lock") /\ UNCHANGED <<sema, arg, flag>>
  <2>1. /\ sema' = [sema EXCEPT ![b] = 0] /\ sema[b] = 0
        /\ pc' = [pc EXCEPT ![g] = "lock"] /\ UNCHANGED <<arg, flag>>
    BY <1>1, <1>5 DEF IInv, TypeOK, Goto
  <2>9. GoesOn(g, b, "lock", 0)
    BY <1>1, <1>2, <2>1 DEF PC, Held, GoesOn
  <2> QED BY <2>9, GoOn
<1> QED BY <1>3, <1>4, <1>5 DEF AcquireAwake

\* The count is raised: the releaser is on its way to use the unit.
LEMMA ReleaseXaddKeeps == ASSUME IInv, NEW g \in Goroutine, ReleaseXadd(g)  PROVE IInv'
<1>1. PICK b \in Addr : b = arg[g] /\ sema[b] \in Nat
  BY ArgIsAddr DEF ReleaseXadd
<1>2. /\ pc[g] = "xadd" /\ UNCHANGED <<lock, nwait, list, ticket, arg, flag, s>>
      /\ sema' = [sema EXCEPT ![b] = sema[b] + 1] /\ pc' = [pc EXCEPT ![g] = "load"]
      /\ sema[b] + 1 \in Nat
  BY <1>1 DEF ReleaseXadd, Goto
<1>3. g \notin InFlight(b)
  BY <1>2 DEF InFlight
<1>9. GoesOn(g, b, "load", sema[b] + 1)
  BY <1>1, <1>2, <1>3 DEF PC, Held, GoesOn
<1> QED BY <1>9, GoOn

\* A releaser that reads zero waiters has nobody to wake.
LEMMA ReleaseLoadKeeps == ASSUME IInv, NEW g \in Goroutine, ReleaseLoad(g)  PROVE IInv'
<1>1. PICK b \in Addr : b = arg[g] /\ sema[b] \in Nat
  BY ArgIsAddr DEF ReleaseLoad
<1>2. /\ pc[g] = "load" /\ UNCHANGED <<lock, nwait, list, ticket, s>>
      /\ sema' = [sema EXCEPT ![b] = sema[b]]
  BY <1>1 DEF ReleaseLoad, IInv, TypeOK
<1>3. CASE nwait = 0 /\ Return(g)
  <2>1. /\ pc' = [pc EXCEPT ![g] = "idle"]
        /\ arg' = [arg EXCEPT ![g] = Nil] /\ flag' = [flag EXCEPT ![g] = FALSE]
    BY <1>3 DEF Return, Goto
  <2>2. ~ Sleeping(b)
    BY <1>3, NobodyWaits DEF IInv
  <2>9. GoesOn(g, b, "idle", sema[b])
    BY <1>1, <1>2, <2>1, <2>2 DEF PC, Held, GoesOn
  <2> QED BY <2>9, GoOn
<1>4. CASE nwait # 0 /\ Goto(g, "rlock") /\ UNCHANGED <<arg, flag>>
  <2>9. GoesOn(g, b, "rlock", sema[b])
    BY <1>1, <1>2, <1>4 DEF PC, Held, Goto, GoesOn
  <2> QED BY <2>9, GoOn
<1> QED BY <1>3, <1>4 DEF ReleaseLoad

-----------------------------------------------------------------------------
(* Steps under root.lock *)

\* root.queue puts a newcomer in a list.
LEMMA EnqueueAdds ==
    ASSUME NEW q \in Seq(Goroutine), NEW g \in Goroutine, g \notin Members(q), Distinct(q),
           NEW lifo \in BOOLEAN
    PROVE  /\ Enqueue(q, g, lifo) \in Seq(Goroutine) /\ Enqueue(q, g, lifo) # <<>>
           /\ Members(Enqueue(q, g, lifo)) = Members(q) \cup {g}
           /\ Distinct(Enqueue(q, g, lifo))
  BY AppendAdds, PrependAdds DEF Enqueue

\* A step that leaves the counts and the posts under way alone keeps the bound.
LEMMA BoundStays ==
    ASSUME BoundInv, UNCHANGED sema,
           \A x \in Goroutine, a \in Addr :
               (pc'[x] = "xadd" /\ arg'[x] = a) <=> (pc[x] = "xadd" /\ arg[x] = a)
    PROVE  BoundInv'
<1>1. ASSUME NEW a \in Addr  PROVE Pending(a)' = Pending(a)
  <2>1. {x \in Goroutine : pc[x] = "xadd" /\ arg[x] = a}'
          = {x \in Goroutine : pc[x] = "xadd" /\ arg[x] = a}
    OBVIOUS
  <2> QED BY <2>1 DEF Pending
<1> QED BY <1>1 DEF BoundInv

\* The types of nwait follow from what it counts.
LEMMA NwaitType ==
    ASSUME NwaitExact'
    PROVE  nwait' \in 0..Cardinality(Goroutine)
<1>1. Waiters' \in SUBSET Goroutine
  BY DEF Waiters
<1>2. Cardinality(Waiters') \in Nat /\ Cardinality(Waiters') <= Cardinality(Goroutine)
  BY <1>1, SemaAssumption, FS_Subset, FS_CardinalityType
<1>3. Cardinality(Goroutine) \in Nat
  BY SemaAssumption, FS_CardinalityType
<1> QED BY <1>2, <1>3 DEF NwaitExact, Waiters

\* The waiter announces itself before it tests the count again.
LEMMA AcquireLockKeeps == ASSUME IInv, NEW g \in Goroutine, AcquireLock(g)  PROVE IInv'
<1> USE DEF IInv
<1>1. /\ pc[g] = "lock" /\ lock = Nil /\ lock' = g /\ nwait' = nwait + 1
      /\ pc' = [pc EXCEPT ![g] = "check"]
      /\ UNCHANGED <<sema, list, ticket, arg, flag, s>>
  BY DEF AcquireLock, Goto
<1>2. \A x \in Goroutine : pc'[x] = IF x = g THEN "check" ELSE pc[x]
  BY <1>1 DEF TypeOK
<1>3. \A a \in Addr : Queued(a)' = Queued(a) /\ Queued(a) = Members(list[a]) /\ g \notin Queued(a)
  BY <1>1 DEF ListInv, Queued, Members
<1>4. NwaitExact'
  <2>1. Waiters' = Waiters \cup {g} /\ g \notin Waiters
    BY <1>1, <1>2, <1>3 DEF Waiters
  <2>2. Cardinality(Waiters') = Cardinality(Waiters) + 1
    BY <2>1, Finite, CountJoin
  <2> QED BY <1>1, <2>2 DEF NwaitExact, Waiters
<1>5. TypeOK'
  BY <1>1, <1>4, NwaitType DEF TypeOK, PC
<1>6. BoundInv'
  BY <1>1, <1>2, BoundStays
<1>7. LockInv' /\ CallInv'
  BY <1>1, <1>2, SemaAssumption DEF LockInv, CallInv
<1>8. ListInv'
  BY <1>1, <1>2 DEF ListInv
<1>9. TargetInv'
  BY <1>1, <1>2 DEF TargetInv
<1>10. WakeupInv'
  <2>1. \A a \in Addr : (Sleeping(a)' <=> Sleeping(a)) /\ InFlight(a)' = InFlight(a)
    BY <1>1, <1>2, <1>3 DEF Sleeping, InFlight
  <2> QED BY <1>1, <2>1 DEF WakeupInv
<1> QED BY <1>4, <1>5, <1>6, <1>7, <1>8, <1>9, <1>10

\* The waiter withdraws.
LEMMA AcquireUndoKeeps == ASSUME IInv, NEW g \in Goroutine, AcquireUndo(g)  PROVE IInv'
<1> USE DEF IInv
<1>1. /\ pc[g] = "undo" /\ lock' = Nil /\ nwait' = nwait - 1
      /\ pc' = [pc EXCEPT ![g] = "idle"] /\ arg' = [arg EXCEPT ![g] = Nil]
      /\ flag' = [flag EXCEPT ![g] = FALSE]
      /\ UNCHANGED <<sema, list, ticket, s>>
  BY DEF AcquireUndo, Return, Goto
<1>2. /\ \A x \in Goroutine : pc'[x] = IF x = g THEN "idle" ELSE pc[x]
      /\ \A x \in Goroutine : arg'[x] = IF x = g THEN Nil ELSE arg[x]
      /\ lock = g
  BY <1>1 DEF TypeOK, LockInv
<1>3. \A a \in Addr : Queued(a)' = Queued(a) /\ Queued(a) = Members(list[a]) /\ g \notin Queued(a)
  BY <1>1 DEF ListInv, Queued, Members
<1>4. NwaitExact'
  <2>1. Waiters' = Waiters \ {g} /\ g \in Waiters
    BY <1>1, <1>2, <1>3 DEF Waiters
  <2>2. Cardinality(Waiters') = Cardinality(Waiters) - 1
    BY <2>1, Finite, CountLeave
  <2> QED BY <1>1, <2>2 DEF NwaitExact, Waiters
<1>5. TypeOK'
  BY <1>1, <1>4, NwaitType DEF TypeOK, PC
<1>6. BoundInv'
  BY <1>1, <1>2, BoundStays
<1>7. LockInv' /\ CallInv'
  BY <1>1, <1>2, SemaAssumption DEF LockInv, CallInv
<1>8. ListInv'
  BY <1>1, <1>2 DEF ListInv
<1>9. TargetInv'
  BY <1>1, <1>2 DEF TargetInv
<1>10. WakeupInv'
  <2>1. \A a \in Addr : (Sleeping(a)' <=> Sleeping(a)) /\ InFlight(a)' = InFlight(a)
    BY <1>1, <1>2, <1>3 DEF Sleeping, InFlight
  <2> QED BY <1>1, <2>1 DEF WakeupInv
<1> QED BY <1>4, <1>5, <1>6, <1>7, <1>8, <1>9, <1>10

\* The waiter queues and parks.
LEMMA AcquireQueueKeeps == ASSUME IInv, NEW g \in Goroutine, AcquireQueue(g)  PROVE IInv'
<1> USE DEF IInv
<1>1. PICK b \in Addr : b = arg[g]
  BY ArgIsAddr DEF AcquireQueue
<1>2. PICK q : q = Enqueue(list[b], g, flag[g])
  OBVIOUS
<1>3. /\ pc[g] = "queue" /\ lock' = Nil /\ list' = [list EXCEPT ![b] = q]
      /\ pc' = [pc EXCEPT ![g] = "parked"] /\ UNCHANGED <<sema, nwait, ticket, arg, flag, s>>
  BY <1>1, <1>2 DEF AcquireQueue, Goto
<1>4. list[b] \in Seq(Goroutine) /\ flag[g] \in BOOLEAN /\ Distinct(list[b])
  BY DEF TypeOK, ListInv
<1>5. \A a \in Addr : g \notin Members(list[a])
  BY <1>3 DEF ListInv
<1>6. /\ q \in Seq(Goroutine) /\ q # <<>> /\ Members(q) = Members(list[b]) \cup {g}
      /\ Distinct(q)
  BY <1>2, <1>4, <1>5, EnqueueAdds
<1>7. /\ \A x \in Goroutine : pc'[x] = IF x = g THEN "parked" ELSE pc[x]
      /\ \A a \in Addr : list'[a] = IF a = b THEN q ELSE list[a]
      /\ lock = g /\ pc'[g] = "parked"
  BY <1>3 DEF TypeOK, LockInv
<1>8. \A a \in Addr : /\ Queued(a) = Members(list[a])
                      /\ Queued(a)' = IF a = b THEN Queued(a) \cup {g} ELSE Queued(a)
  <2>1. \A a \in Addr : Queued(a) = Members(list[a]) /\ Queued(a)' = Members(list'[a])
    BY DEF Queued, Members
  <2> QED BY <1>6, <1>7, <2>1
<1>9. NwaitExact'
  <2>1. Waiters' = Waiters
    BY <1>3, <1>7, <1>8 DEF Waiters
  <2> QED BY <1>3, <2>1 DEF NwaitExact, Waiters
<1>10. TypeOK'
  BY <1>3, <1>6 DEF TypeOK, PC
<1>11. BoundInv'
  BY <1>3, <1>7, BoundStays
<1>12. LockInv' /\ CallInv'
  BY <1>3, <1>7, SemaAssumption DEF LockInv, CallInv
<1>13. ListInv'
  <2> SUFFICES ASSUME NEW a \in Addr
               PROVE  Distinct(list'[a]) /\ \A x \in Members(list'[a]) : pc'[x] = "parked" /\ arg'[x] = a
    BY DEF ListInv
  <2>1. \A x \in Members(list[a]) : x \in Goroutine /\ pc[x] = "parked" /\ arg[x] = a
    BY MembersIn DEF ListInv, TypeOK
  <2> QED BY <1>1, <1>3, <1>6, <1>7, <2>1 DEF ListInv
<1>14. TargetInv'
  <2> SUFFICES ASSUME NEW h \in Goroutine, pc'[h] = "ready"
               PROVE  /\ pc'[s'[h]] = "parked" /\ arg'[s'[h]] = arg'[h]
                      /\ s'[h] \notin Members(list'[arg'[h]])
                      /\ \A k \in Goroutine \ {h} : s'[k] # s'[h]
    BY DEF TargetInv
  <2>1. h # g /\ pc[h] = "ready" /\ s[h] \in Goroutine /\ arg[h] \in Addr
    BY <1>7, ArgIsAddr DEF CallInv, TypeOK
  <2>2. s[h] # g
    BY <1>3, <2>1 DEF TargetInv
  <2>3. s[h] \notin Members(list'[arg[h]])
    BY <1>6, <1>7, <2>1, <2>2 DEF TargetInv
  <2> QED BY <1>3, <1>7, <2>1, <2>2, <2>3 DEF TargetInv
<1>15. WakeupInv'
  <2>1. \A a \in Addr : Sleeping(a)' => Sleeping(a)
    BY <1>1, <1>3, <1>7 DEF Sleeping
  <2>2. \A a \in Addr : InFlight(a)' = InFlight(a)
    BY <1>1, <1>3, <1>7, <1>8 DEF InFlight
  <2> QED BY <1>3, <2>1, <2>2 DEF WakeupInv
<1> QED BY <1>9, <1>10, <1>11, <1>12, <1>13, <1>14, <1>15

\* A releaser dequeues the head of its list: the wakeup passes from one to the other.
LEMMA ReleaseHeadKeeps ==
    ASSUME IInv, NEW g \in Goroutine, NEW b \in Addr, NEW CONSTANT h, NEW CONSTANT q,
           pc[g] = "rlock", lock = Nil, arg[g] = b,
           list[b] # <<>>, h = Head(list[b]), q = Tail(list[b]),
           s' = [s EXCEPT ![g] = h], list' = [list EXCEPT ![b] = q],
           nwait' = nwait - 1, pc' = [pc EXCEPT ![g] = "ready"],
           UNCHANGED <<sema, lock, ticket, arg, flag>>
    PROVE  IInv'
<1> USE DEF IInv
<1>1. list[b] \in Seq(Goroutine) /\ list[b] # <<>> /\ Distinct(list[b])
  BY DEF TypeOK, ListInv
<1>2. /\ h \in Goroutine /\ q \in Seq(Goroutine)
      /\ Members(q) = Members(list[b]) \ {h} /\ Distinct(q) /\ h \in Members(list[b])
  BY <1>1, TailRemoves
<1>7. pc[h] = "parked" /\ arg[h] = b /\ h # g
  BY <1>2 DEF ListInv
<1>8. /\ \A x \in Goroutine : pc'[x] = IF x = g THEN "ready" ELSE pc[x]
      /\ \A x \in Goroutine : s'[x] = IF x = g THEN h ELSE s[x]
      /\ \A a \in Addr : list'[a] = IF a = b THEN q ELSE list[a]
  BY <1>2 DEF TypeOK
<1>9. \A a \in Addr : /\ Queued(a) = Members(list[a])
                      /\ Queued(a)' = IF a = b THEN Queued(a) \ {h} ELSE Queued(a)
                      /\ h \in Queued(a) <=> a = b
  <2>1. \A a \in Addr : Queued(a) = Members(list[a]) /\ Queued(a)' = Members(list'[a])
    BY DEF Queued, Members
  <2>2. \A a \in Addr : h \in Members(list[a]) => a = b
    BY <1>7 DEF ListInv
  <2> QED BY <1>2, <1>8, <2>1, <2>2
<1>10. NwaitExact'
  <2>1. Waiters' = Waiters \ {h} /\ h \in Waiters
    BY <1>2, <1>7, <1>8, <1>9 DEF Waiters
  <2>2. Cardinality(Waiters') = Cardinality(Waiters) - 1
    BY <2>1, Finite, CountLeave
  <2> QED BY <2>2 DEF NwaitExact, Waiters
<1>11. TypeOK'
  BY <1>2, <1>10, NwaitType DEF TypeOK, PC
<1>12. BoundInv'
  BY <1>8, BoundStays
<1>13. LockInv' /\ CallInv'
  BY <1>2, <1>8, SemaAssumption DEF LockInv, CallInv
<1>14. ListInv'
  <2> SUFFICES ASSUME NEW a \in Addr
               PROVE  Distinct(list'[a]) /\ \A x \in Members(list'[a]) : pc'[x] = "parked" /\ arg'[x] = a
    BY DEF ListInv
  <2>1. \A x \in Members(list[a]) : x \in Goroutine /\ pc[x] = "parked" /\ arg[x] = a
    BY MembersIn DEF ListInv, TypeOK
  <2> QED BY <1>2, <1>8, <2>1 DEF ListInv
<1>15. TargetInv'
  <2>1. \A k \in Goroutine : s[k] # h
    <3> SUFFICES ASSUME NEW k \in Goroutine, s[k] = h  PROVE FALSE
      OBVIOUS
    <3>1. pc[k] = "ready" /\ arg[k] = b
      BY <1>2, <1>7, SemaAssumption DEF CallInv, TargetInv
    <3> QED BY <1>2, <3>1 DEF TargetInv
  <2> SUFFICES ASSUME NEW k \in Goroutine, pc'[k] = "ready"
               PROVE  /\ pc'[s'[k]] = "parked" /\ arg'[s'[k]] = arg'[k]
                      /\ s'[k] \notin Members(list'[arg'[k]])
                      /\ \A x \in Goroutine \ {k} : s'[x] # s'[k]
    BY DEF TargetInv
  <2>2. CASE k = g
    BY <1>2, <1>7, <1>8, <2>1, <2>2
  <2>3. CASE k # g
    <3>1. pc[k] = "ready" /\ s[k] \in Goroutine /\ arg[k] \in Addr /\ s[k] # g
      BY <1>8, <2>3, ArgIsAddr DEF CallInv, TypeOK, TargetInv
    <3>2. s[k] \notin Members(list'[arg[k]])
      BY <1>2, <1>8, <3>1 DEF TargetInv
    <3> QED BY <1>8, <2>1, <2>3, <3>1, <3>2 DEF TargetInv
  <2> QED BY <2>2, <2>3
<1>16. WakeupInv'
  <2> SUFFICES ASSUME NEW a \in Addr, Sleeping(a)'
               PROVE  sema'[a] <= Cardinality(InFlight(a)')
    BY DEF WakeupInv
  <2>1. Sleeping(a)
    BY <1>1, <1>8 DEF Sleeping
  <2>2. CASE a # b
    <3>1. InFlight(a)' = InFlight(a)
      BY <1>7, <1>8, <1>9, <2>2 DEF InFlight
    <3> QED BY <2>1, <3>1 DEF WakeupInv
  <2>3. CASE a = b
    <3>1. InFlight(a)' = (InFlight(a) \ {g}) \cup {h} /\ g \in InFlight(a) /\ h \notin InFlight(a) \ {g}
      BY <1>2, <1>7, <1>8, <1>9, <2>3 DEF InFlight
    <3>2. /\ IsFiniteSet(InFlight(a) \ {g})
          /\ Cardinality(InFlight(a) \ {g}) = Cardinality(InFlight(a)) - 1
      BY <3>1, Finite, CountLeave
    <3>3. Cardinality(InFlight(a)') = Cardinality(InFlight(a) \ {g}) + 1
      BY <3>1, <3>2, CountJoin
    <3>4. Cardinality(InFlight(a)') = Cardinality(InFlight(a))
      BY <3>2, <3>3, Finite
    <3> QED BY <2>1, <3>4 DEF WakeupInv
  <2> QED BY <2>2, <2>3
<1> QED BY <1>10, <1>11, <1>12, <1>13, <1>14, <1>15, <1>16

\* The releaser under root.lock finds nobody on its address, or wakes the head.
LEMMA ReleaseDequeueKeeps == ASSUME IInv, NEW g \in Goroutine, ReleaseDequeue(g)  PROVE IInv'
<1>1. pc[g] = "rlock" /\ lock = Nil /\ UNCHANGED <<lock, ticket>>
  BY DEF ReleaseDequeue
<1>2. PICK b \in Addr : b = arg[g] /\ sema[b] \in Nat
  BY <1>1, ArgIsAddr
<1>3. CASE (nwait = 0 \/ list[arg[g]] = <<>>) /\ Return(g) /\ UNCHANGED <<nwait, list, s>>
  <2>1. ~ Sleeping(b)
    BY <1>1, <1>2, <1>3, NobodyWaits, LockFree DEF IInv
  <2>2. sema' = [sema EXCEPT ![b] = sema[b]]
    BY <1>2 DEF IInv, TypeOK, ReleaseDequeue
  <2>3. /\ pc' = [pc EXCEPT ![g] = "idle"] /\ arg' = [arg EXCEPT ![g] = Nil]
        /\ flag' = [flag EXCEPT ![g] = FALSE]
    BY <1>3 DEF Return, Goto
  <2>4. GoesOn(g, b, "idle", sema[b])
    BY <1>1, <1>2, <1>3, <2>1, <2>2, <2>3 DEF GoesOn, PC, Held
  <2> QED BY <2>4, GoOn
<1>4. CASE /\ nwait # 0 /\ list[arg[g]] # <<>>
           /\ s' = [s EXCEPT ![g] = Head(list[arg[g]])]
           /\ list' = [list EXCEPT ![arg[g]] = Tail(@)]
           /\ nwait' = nwait - 1
           /\ Goto(g, "ready")
           /\ UNCHANGED <<arg, flag>>
  <2>1. PICK h, q : h = Head(list[b]) /\ q = Tail(list[b])
    OBVIOUS
  <2>2. /\ s' = [s EXCEPT ![g] = h] /\ list' = [list EXCEPT ![b] = q] /\ list[b] # <<>>
        /\ nwait' = nwait - 1 /\ pc' = [pc EXCEPT ![g] = "ready"] /\ UNCHANGED <<sema, arg, flag>>
    BY <1>2, <1>4, <2>1 DEF Goto, ReleaseDequeue
  <2> QED BY <1>1, <1>2, <2>1, <2>2, ReleaseHeadKeeps
<1> QED BY <1>3, <1>4 DEF ReleaseDequeue

\* The dequeued waiter is made runnable, with the unit or without it.
LEMMA ReleaseReadyKeeps == ASSUME IInv, NEW g \in Goroutine, ReleaseReady(g)  PROVE IInv'
<1> USE DEF IInv
<1>1. PICK b \in Addr : b = arg[g]
  BY ArgIsAddr DEF ReleaseReady
<1>2. pc[g] = "ready"
  BY DEF ReleaseReady
<1>3. PICK h \in Goroutine : h = s[g]
  BY <1>2 DEF CallInv, TypeOK
<1>4. /\ pc[h] = "parked" /\ arg[h] = b /\ h # g /\ h \notin Members(list[b])
      /\ \A k \in Goroutine \ {g} : s[k] # h
  BY <1>1, <1>2, <1>3 DEF TargetInv
<1>5. PICK c, t : c = sema'[b] /\ t = ticket'[h]
  OBVIOUS
<1>5a. /\ sema' = [sema EXCEPT ![b] = c] /\ ticket' = [ticket EXCEPT ![h] = t]
       /\ c \in Nat /\ t \in 0..1 /\ c <= sema[b] /\ sema[b] \in Nat
       /\ (t = 0 /\ c = sema[b]) \/ (t = 1 /\ c = sema[b] - 1)
  <2>1. /\ sema[b] \in Nat /\ sema = [sema EXCEPT ![b] = sema[b]]
        /\ ticket = [ticket EXCEPT ![h] = ticket[h]]
    BY DEF TypeOK
  <2>2. ticket[h] = 0
    BY <1>4 DEF CallInv, TypeOK
  <2>3. CASE cansemacquire(b) /\ ticket' = [ticket EXCEPT ![h] = 1]
    <3>1. sema[b] > 0 /\ sema' = [sema EXCEPT ![b] = sema[b] - 1] /\ sema[b] - 1 \in Nat
      BY <2>1, <2>3 DEF cansemacquire
    <3>2. c = sema[b] - 1 /\ t = 1
      BY <1>5, <2>3, <3>1 DEF TypeOK
    <3> QED BY <2>1, <2>3, <3>1, <3>2
  <2>4. CASE UNCHANGED <<sema, ticket>>
    <3>1. c = sema[b] /\ t = 0
      BY <1>5, <2>2, <2>4
    <3>2. sema' = [sema EXCEPT ![b] = c] /\ ticket' = [ticket EXCEPT ![h] = t]
      BY <2>1, <2>2, <2>4, <3>1
    <3> QED BY <2>1, <3>1, <3>2
  <2> QED BY <1>1, <1>3, <2>3, <2>4 DEF ReleaseReady
<1>6. /\ pc' = [pc EXCEPT ![g] = "idle", ![h] = "awake"]
      /\ arg' = [arg EXCEPT ![g] = Nil] /\ flag' = [flag EXCEPT ![g] = FALSE]
      /\ s' = [s EXCEPT ![g] = Nil]
  BY <1>3 DEF ReleaseReady
<1>6a. UNCHANGED <<lock, nwait, list>>
  BY DEF ReleaseReady
<1>7. /\ \A x \in Goroutine : pc'[x] = IF x = h THEN "awake" ELSE IF x = g THEN "idle" ELSE pc[x]
      /\ \A x \in Goroutine : s'[x] = IF x = g THEN Nil ELSE s[x]
      /\ \A x \in Goroutine : arg'[x] = IF x = g THEN Nil ELSE arg[x]
      /\ \A x \in Goroutine : ticket'[x] = IF x = h THEN t ELSE ticket[x]
      /\ \A a \in Addr : sema'[a] = IF a = b THEN c ELSE sema[a]
      /\ sema[b] \in Nat
  BY <1>4, <1>5a, <1>6 DEF TypeOK
<1>8. \A a \in Addr : /\ Queued(a)' = Queued(a) /\ Queued(a) = Members(list[a])
                      /\ h \notin Queued(a) /\ g \notin Queued(a)
  BY <1>2, <1>4, <1>6a DEF Queued, Members, ListInv
<1>9. NwaitExact'
  <2>1. Waiters' = Waiters
    BY <1>2, <1>4, <1>7, <1>8 DEF Waiters
  <2> QED BY <1>6a, <2>1 DEF NwaitExact, Waiters
<1>10. BoundInv'
  <2> SUFFICES ASSUME NEW a \in Addr  PROVE sema'[a] + Pending(a)' <= MaxSema
    BY DEF BoundInv
  <2>1. Pending(a)' = Pending(a)
    <3>1. {x \in Goroutine : pc[x] = "xadd" /\ arg[x] = a}'
            = {x \in Goroutine : pc[x] = "xadd" /\ arg[x] = a}
      BY <1>2, <1>4, <1>7
    <3> QED BY <3>1 DEF Pending
  <2>2. sema'[a] <= sema[a] /\ sema'[a] \in Nat /\ sema[a] \in Nat
    BY <1>5a, <1>7 DEF TypeOK
  <2>3. sema[a] + Pending(a) <= MaxSema /\ Pending(a) \in Nat
    BY Finite DEF BoundInv
  <2> QED BY <2>1, <2>2, <2>3, SemaAssumption
<1>11. TypeOK'
  <2>1. sema' \in [Addr -> 0..MaxSema]
    <3>1. \A a \in Addr : sema'[a] \in 0..MaxSema
      BY <1>5a, <1>7, SemaAssumption DEF TypeOK
    <3> QED BY <1>5a, <3>1 DEF TypeOK
  <2>2. ticket' \in [Goroutine -> 0..1]
    BY <1>5a DEF TypeOK
  <2> QED BY <1>6, <1>6a, <2>1, <2>2 DEF TypeOK, PC
<1>12. LockInv'
  BY <1>2, <1>4, <1>6a, <1>7, SemaAssumption DEF LockInv
<1>13. CallInv'
  BY <1>2, <1>4, <1>7, SemaAssumption DEF CallInv
<1>14. ListInv'
  <2>1. \A a \in Addr : \A x \in Members(list[a]) : x \in Goroutine
    BY MembersIn DEF TypeOK
  <2> QED BY <1>6a, <1>7, <1>8, <2>1 DEF ListInv
<1>15. TargetInv'
  <2> SUFFICES ASSUME NEW k \in Goroutine, pc'[k] = "ready"
               PROVE  /\ pc'[s'[k]] = "parked" /\ arg'[s'[k]] = arg'[k]
                      /\ s'[k] \notin Members(list'[arg'[k]])
                      /\ \A x \in Goroutine \ {k} : s'[x] # s'[k]
    BY DEF TargetInv
  <2>1. k # g /\ k # h /\ pc[k] = "ready"
    BY <1>7
  <2>2. s[k] \in Goroutine /\ s[k] # g /\ s[k] # h
    BY <1>2, <1>4, <2>1 DEF CallInv, TypeOK, TargetInv
  <2>3. \A x \in Goroutine \ {k} : s'[x] # s[k]
    BY <1>7, <2>1, <2>2, SemaAssumption DEF TargetInv
  <2> QED BY <1>6a, <1>7, <2>1, <2>2, <2>3 DEF TargetInv
<1>16. WakeupInv'
  <2> SUFFICES ASSUME NEW a \in Addr, Sleeping(a)'
               PROVE  sema'[a] <= Cardinality(InFlight(a)')
    BY DEF WakeupInv
  <2>1. Sleeping(a)
    BY <1>6a, <1>7 DEF Sleeping
  <2>2. sema[a] <= Cardinality(InFlight(a)) /\ sema[a] \in Nat /\ sema'[a] \in Nat
    BY <1>5a, <1>7, <2>1 DEF WakeupInv, TypeOK
  <2>3. CASE a # b \/ t = 0
    <3>1. ticket[h] = 0
      BY <1>4 DEF CallInv
    <3>2. InFlight(a)' = InFlight(a)
      BY <1>1, <1>2, <1>4, <1>7, <1>8, <2>3, <3>1, SemaAssumption DEF InFlight
    <3>3. sema'[a] = sema[a]
      BY <1>5a, <1>7, <2>3
    <3> QED BY <2>2, <3>2, <3>3
  <2>4. CASE a = b /\ t = 1
    <3>1. InFlight(a)' = InFlight(a) \ {h} /\ h \in InFlight(a)
      BY <1>1, <1>2, <1>4, <1>7, <1>8, <2>4, SemaAssumption DEF InFlight
    <3>2. Cardinality(InFlight(a)') = Cardinality(InFlight(a)) - 1 /\ Cardinality(InFlight(a)) \in Nat
      BY <3>1, Finite, CountLeave
    <3>3. sema'[a] = sema[a] - 1
      BY <1>5a, <1>7, <2>4
    <3> QED BY <2>2, <3>2, <3>3
  <2> QED BY <1>5a, <2>3, <2>4
<1> QED BY <1>9, <1>10, <1>11, <1>12, <1>13, <1>14, <1>15, <1>16

-----------------------------------------------------------------------------
(* Safety *)

\* The invariant holds of unused semaphores.
LEMMA InitOK == Init => IInv
<1> SUFFICES ASSUME Init  PROVE IInv
  OBVIOUS
<1> USE DEF Init
<1>1. Cardinality(Goroutine) \in Nat
  BY SemaAssumption, FS_CardinalityType
<1>2. TypeOK
  BY <1>1, SemaAssumption DEF TypeOK, PC
<1>3. BoundInv
  <2> SUFFICES ASSUME NEW a \in Addr  PROVE sema[a] + Pending(a) <= MaxSema
    BY DEF BoundInv
  <2>1. {g \in Goroutine : pc[g] = "xadd" /\ arg[g] = a} = {}
    OBVIOUS
  <2>2. Pending(a) = 0
    BY <2>1, FS_EmptySet DEF Pending
  <2> QED BY <2>2, SemaAssumption
<1>4. \A a \in Addr : Members(list[a]) = {} /\ Distinct(list[a]) /\ Queued(a) = {}
  BY DEF Members, Distinct, Queued
<1>5. LockInv /\ CallInv
  BY SemaAssumption DEF LockInv, CallInv
<1>6. ListInv /\ TargetInv
  BY <1>4 DEF ListInv, TargetInv
<1>7. NwaitExact
  <2>1. Waiters = {}
    BY <1>4 DEF Waiters
  <2> QED BY <2>1, FS_EmptySet DEF NwaitExact, Waiters
<1>8. WakeupInv
  BY DEF WakeupInv, Sleeping
<1> QED BY <1>2, <1>3, <1>5, <1>6, <1>7, <1>8 DEF IInv

\* Every step of every goroutine keeps the invariant.
LEMMA NextKeeps == IInv /\ [Next]_vars => IInv'
<1> SUFFICES ASSUME IInv, [Next]_vars  PROVE IInv'
  OBVIOUS
<1>1. ASSUME NEW g \in Goroutine, NEW a \in Addr, NEW f \in BOOLEAN,
             Semacquire(g, a, f) \/ Semrelease(g, a, f)
      PROVE  IInv'
  BY <1>1, CallKeeps
<1>2. ASSUME NEW g \in Goroutine, AcquireStep(g)  PROVE IInv'
  BY <1>2, AcquireEasyKeeps, AcquireLockKeeps, AcquireCheckKeeps, AcquireUndoKeeps,
     AcquireQueueKeeps, AcquireAwakeKeeps DEF AcquireStep
<1>3. ASSUME NEW g \in Goroutine, ReleaseStep(g)  PROVE IInv'
  BY <1>3, ReleaseXaddKeeps, ReleaseLoadKeeps, ReleaseDequeueKeeps, ReleaseReadyKeeps
     DEF ReleaseStep
<1>4. CASE UNCHANGED vars
  <2>1. /\ TypeOK' /\ LockInv' /\ CallInv' /\ ListInv' /\ TargetInv'
    BY <1>4 DEF vars, IInv, TypeOK, LockInv, CallInv, ListInv, TargetInv
  <2>2. \A a \in Addr : /\ Pending(a)' = Pending(a) /\ InFlight(a)' = InFlight(a)
                        /\ Sleeping(a)' <=> Sleeping(a)
    BY <1>4 DEF vars, Pending, InFlight, Queued, Sleeping
  <2>3. Waiters' = Waiters
    BY <1>4 DEF vars, Waiters, Queued
  <2> QED BY <1>4, <2>1, <2>2, <2>3 DEF vars, IInv, BoundInv, WakeupInv, NwaitExact, Waiters
<1> QED BY <1>1, <1>2, <1>3, <1>4 DEF Next

\* IInv is an invariant of sema.go, for every set of goroutines and of addresses
\* and every bound on the counts.
THEOREM SemaInductive == Spec => []IInv
  BY InitOK, NextKeeps, PTL DEF Spec

\* A wakeup is neither lost nor sent twice, and nwait, which releasers read without
\* root.lock, is exact (sema.go: semacquire1, semrelease1).
THEOREM SemaSafe == Spec => []SemaInv
<1>1. IInv => SemaInv
  <2> SUFFICES ASSUME IInv  PROVE SemaInv
    OBVIOUS
  <2>1. NoLostWakeup
    BY DEF IInv, WakeupInv, NoLostWakeup, Sleeping
  <2>2. OneWakeup
    <3> SUFFICES ASSUME NEW g \in Goroutine, pc[g] = "ready"
                 PROVE  /\ pc[s[g]] = "parked" /\ s[g] \notin Queued(arg[g]) /\ ticket[s[g]] = 0
                        /\ \A h \in Goroutine \ {g} : s[h] # s[g]
      BY DEF OneWakeup
    <3>1. s[g] \in Goroutine
      BY DEF IInv, CallInv, TypeOK
    <3>2. ticket[s[g]] = 0
      BY <3>1 DEF IInv, TargetInv, CallInv
    <3>3. Queued(arg[g]) = Members(list[arg[g]])
      BY DEF Queued, Members
    <3> QED BY <3>1, <3>2, <3>3 DEF IInv, TargetInv
  <2> QED BY <2>1, <2>2 DEF IInv, SemaInv
<1> QED BY <1>1, SemaInductive, PTL

-----------------------------------------------------------------------------
(* sema.go implements the semaphore of SemaphoreSpec *)

\* The refinement mapping, goroutine by goroutine.
CallOf(p, f) ==
    IF p \in {"idle", "undo"} \/ (p = "ready" /\ ~f) THEN "idle"
    ELSE IF p \in {"easy", "lock", "check", "queue", "parked", "awake"} THEN "acquire"
    ELSE IF p = "xadd" THEN "xadd"
    ELSE IF p \in {"load", "rlock"} THEN "dequeue" ELSE "handoff"

Done(p, f) == p = "undo" \/ (p = "ready" /\ ~f)

InLine(g) == pc[g] = "queue" \/ \E a \in Addr : g \in Queued(a)

Picked(g) == \E r \in Goroutine : s[r] = g /\ flag[r]

\* A function that changes at one point, and one that does not change.
LEMMA AtOnePoint ==
    ASSUME NEW S, NEW f, NEW h, f = [x \in S |-> f[x]], h = [x \in S |-> h[x]],
           NEW p \in S, \A x \in S \ {p} : h[x] = f[x]
    PROVE  h = [f EXCEPT ![p] = h[p]]
  OBVIOUS

\* The values of the mapping.
LEMMA MappingIs ==
    ASSUME NEW x \in Goroutine
    PROVE  /\ AbsCall[x] = CallOf(pc[x], flag[x])
           /\ AbsArg[x] = IF Done(pc[x], flag[x]) THEN Nil ELSE arg[x]
           /\ AbsFlag[x] = IF Done(pc[x], flag[x]) THEN FALSE ELSE flag[x]
           /\ AbsS[x] = IF Done(pc[x], flag[x]) THEN Nil ELSE s[x]
           /\ AbsSudog[x] = IF InLine(x) THEN "queued" ELSE IF Picked(x) THEN "picked"
                            ELSE IF ticket[x] = 1 THEN "ticket" ELSE "none"
           /\ AbsCall'[x] = CallOf(pc'[x], flag'[x])
           /\ AbsArg'[x] = IF Done(pc'[x], flag'[x]) THEN Nil ELSE arg'[x]
           /\ AbsFlag'[x] = IF Done(pc'[x], flag'[x]) THEN FALSE ELSE flag'[x]
           /\ AbsS'[x] = IF Done(pc'[x], flag'[x]) THEN Nil ELSE s'[x]
           /\ AbsSudog'[x] = IF InLine(x)' THEN "queued" ELSE IF Picked(x)' THEN "picked"
                             ELSE IF ticket'[x] = 1 THEN "ticket" ELSE "none"
<1>1. AbsCall[x] = CallOf(pc[x], flag[x]) /\ AbsCall'[x] = CallOf(pc'[x], flag'[x])
  BY DEF AbsCall, CallOf, Finished
<1>2. /\ AbsArg[x] = IF Done(pc[x], flag[x]) THEN Nil ELSE arg[x]
      /\ AbsFlag[x] = IF Done(pc[x], flag[x]) THEN FALSE ELSE flag[x]
      /\ AbsS[x] = IF Done(pc[x], flag[x]) THEN Nil ELSE s[x]
      /\ AbsArg'[x] = IF Done(pc'[x], flag'[x]) THEN Nil ELSE arg'[x]
      /\ AbsFlag'[x] = IF Done(pc'[x], flag'[x]) THEN FALSE ELSE flag'[x]
      /\ AbsS'[x] = IF Done(pc'[x], flag'[x]) THEN Nil ELSE s'[x]
  BY DEF AbsArg, AbsFlag, AbsS, Done, Finished
<1>3. AbsSudog[x] = IF InLine(x) THEN "queued" ELSE IF Picked(x) THEN "picked"
                    ELSE IF ticket[x] = 1 THEN "ticket" ELSE "none"
  BY DEF AbsSudog, InLine, Picked
<1>4. AbsSudog'[x] = IF InLine(x)' THEN "queued" ELSE IF Picked(x)' THEN "picked"
                     ELSE IF ticket'[x] = 1 THEN "ticket" ELSE "none"
  BY DEF AbsSudog, InLine, Picked
<1> QED BY <1>1, <1>2, <1>3, <1>4

\* Its shapes.
LEMMA MappingShape ==
    /\ AbsCall = [x \in Goroutine |-> AbsCall[x]] /\ AbsCall' = [x \in Goroutine |-> AbsCall'[x]]
    /\ AbsArg = [x \in Goroutine |-> AbsArg[x]] /\ AbsArg' = [x \in Goroutine |-> AbsArg'[x]]
    /\ AbsFlag = [x \in Goroutine |-> AbsFlag[x]] /\ AbsFlag' = [x \in Goroutine |-> AbsFlag'[x]]
    /\ AbsS = [x \in Goroutine |-> AbsS[x]] /\ AbsS' = [x \in Goroutine |-> AbsS'[x]]
    /\ AbsSudog = [x \in Goroutine |-> AbsSudog[x]] /\ AbsSudog' = [x \in Goroutine |-> AbsSudog'[x]]
    /\ AbsWaitq = [a \in Addr |-> AbsWaitq[a]] /\ AbsWaitq' = [a \in Addr |-> AbsWaitq'[a]]
<1>1. /\ AbsCall = [x \in Goroutine |-> AbsCall[x]] /\ AbsCall' = [x \in Goroutine |-> AbsCall'[x]]
  BY DEF AbsCall
<1>2. /\ AbsArg = [x \in Goroutine |-> AbsArg[x]] /\ AbsArg' = [x \in Goroutine |-> AbsArg'[x]]
      /\ AbsFlag = [x \in Goroutine |-> AbsFlag[x]] /\ AbsFlag' = [x \in Goroutine |-> AbsFlag'[x]]
      /\ AbsS = [x \in Goroutine |-> AbsS[x]] /\ AbsS' = [x \in Goroutine |-> AbsS'[x]]
  BY DEF AbsArg, AbsFlag, AbsS
<1>3. AbsSudog = [x \in Goroutine |-> AbsSudog[x]] /\ AbsSudog' = [x \in Goroutine |-> AbsSudog'[x]]
  BY DEF AbsSudog
<1>4. AbsWaitq = [a \in Addr |-> AbsWaitq[a]] /\ AbsWaitq' = [a \in Addr |-> AbsWaitq'[a]]
  BY DEF AbsWaitq
<1> QED BY <1>1, <1>2, <1>3, <1>4

\* Who is about to sleep is the holder of root.lock, so there is at most one.
LEMMA WaitqIs ==
    ASSUME IInv, IInv', NEW a \in Addr
    PROVE  /\ (\A x \in Goroutine : ~(pc[x] = "queue" /\ arg[x] = a)) => AbsWaitq[a] = list[a]
           /\ \A x \in Goroutine : pc[x] = "queue" /\ arg[x] = a
                => AbsWaitq[a] = Enqueue(list[a], x, flag[x])
           /\ (\A x \in Goroutine : ~(pc'[x] = "queue" /\ arg'[x] = a)) => AbsWaitq'[a] = list'[a]
           /\ \A x \in Goroutine : pc'[x] = "queue" /\ arg'[x] = a
                => AbsWaitq'[a] = Enqueue(list'[a], x, flag'[x])
<1>1. \A x, y \in Goroutine : pc[x] = "queue" /\ pc[y] = "queue" => x = y
  BY DEF IInv, LockInv
<1>2. \A x, y \in Goroutine : pc'[x] = "queue" /\ pc'[y] = "queue" => x = y
  BY DEF IInv, LockInv
<1>3. ASSUME NEW x \in Goroutine, pc[x] = "queue"
      PROVE  (CHOOSE h \in Goroutine : pc[h] = "queue") = x
  BY <1>1, <1>3
<1>4. ASSUME NEW x \in Goroutine, pc'[x] = "queue"
      PROVE  (CHOOSE h \in Goroutine : pc'[h] = "queue") = x
  BY <1>2, <1>4
<1>5. AbsWaitq[a] = IF \E g \in Goroutine : pc[g] = "queue" /\ arg[g] = a
                    THEN LET g == CHOOSE h \in Goroutine : pc[h] = "queue"
                         IN  Enqueue(list[a], g, flag[g])
                    ELSE list[a]
  BY DEF AbsWaitq
<1>6. AbsWaitq'[a] = IF \E g \in Goroutine : pc'[g] = "queue" /\ arg'[g] = a
                     THEN LET g == CHOOSE h \in Goroutine : pc'[h] = "queue"
                          IN  Enqueue(list'[a], g, flag'[g])
                     ELSE list'[a]
  BY DEF AbsWaitq, Enqueue
<1>7. ASSUME NEW x \in Goroutine, pc[x] = "queue", arg[x] = a
      PROVE  AbsWaitq[a] = Enqueue(list[a], x, flag[x])
  BY <1>3, <1>5, <1>7
<1>8. ASSUME NEW x \in Goroutine, pc'[x] = "queue", arg'[x] = a
      PROVE  AbsWaitq'[a] = Enqueue(list'[a], x, flag'[x])
  BY <1>4, <1>6, <1>8
<1> QED BY <1>5, <1>6, <1>7, <1>8

\* At most g makes a move of its own, and a parked goroutine may be made runnable.
Only(g) ==
    \A x \in Goroutine \ {g} :
        /\ arg'[x] = arg[x] /\ flag'[x] = flag[x] /\ s'[x] = s[x]
        /\ pc'[x] = pc[x] \/ (pc[x] = "parked" /\ pc'[x] = "awake")

\* What the callers see of a move of g.
LEMMA OnlyMaps ==
    ASSUME NEW g \in Goroutine, Only(g)
    PROVE  /\ AbsCall' = [AbsCall EXCEPT ![g] = AbsCall'[g]]
           /\ AbsArg' = [AbsArg EXCEPT ![g] = AbsArg'[g]]
           /\ AbsFlag' = [AbsFlag EXCEPT ![g] = AbsFlag'[g]]
           /\ AbsS' = [AbsS EXCEPT ![g] = AbsS'[g]]
           /\ AbsCall = [AbsCall EXCEPT ![g] = AbsCall[g]]
           /\ AbsArg = [AbsArg EXCEPT ![g] = AbsArg[g]]
           /\ AbsFlag = [AbsFlag EXCEPT ![g] = AbsFlag[g]]
           /\ AbsS = [AbsS EXCEPT ![g] = AbsS[g]]
<1>1. \A x \in Goroutine \ {g} : /\ CallOf(pc'[x], flag'[x]) = CallOf(pc[x], flag[x])
                                 /\ Done(pc'[x], flag'[x]) <=> Done(pc[x], flag[x])
  BY DEF Only, CallOf, Done
<1>2. \A x \in Goroutine \ {g} : /\ AbsCall'[x] = AbsCall[x] /\ AbsArg'[x] = AbsArg[x]
                                 /\ AbsFlag'[x] = AbsFlag[x] /\ AbsS'[x] = AbsS[x]
  <2> TAKE x \in Goroutine \ {g}
  <2>1. /\ arg'[x] = arg[x] /\ flag'[x] = flag[x] /\ s'[x] = s[x]
    BY DEF Only
  <2>2. /\ CallOf(pc'[x], flag'[x]) = CallOf(pc[x], flag[x])
        /\ Done(pc'[x], flag'[x]) <=> Done(pc[x], flag[x])
    BY <1>1
  <2>3. AbsCall'[x] = AbsCall[x]
    BY <2>2, MappingIs
  <2>4. AbsArg'[x] = AbsArg[x] /\ AbsFlag'[x] = AbsFlag[x] /\ AbsS'[x] = AbsS[x]
    BY <2>1, <2>2, MappingIs
  <2> QED BY <2>3, <2>4
<1>3. /\ AbsCall' = [AbsCall EXCEPT ![g] = AbsCall'[g]] /\ AbsArg' = [AbsArg EXCEPT ![g] = AbsArg'[g]]
  BY <1>2, MappingShape, AtOnePoint
<1>4. /\ AbsFlag' = [AbsFlag EXCEPT ![g] = AbsFlag'[g]] /\ AbsS' = [AbsS EXCEPT ![g] = AbsS'[g]]
  BY <1>2, MappingShape, AtOnePoint
<1>5. /\ AbsCall = [AbsCall EXCEPT ![g] = AbsCall[g]] /\ AbsArg = [AbsArg EXCEPT ![g] = AbsArg[g]]
      /\ AbsFlag = [AbsFlag EXCEPT ![g] = AbsFlag[g]] /\ AbsS = [AbsS EXCEPT ![g] = AbsS[g]]
  BY MappingShape, AtOnePoint
<1> QED BY <1>3, <1>4, <1>5

\* A call that ends, or that has only invisible steps left.
LEMMA ReturnMaps ==
    ASSUME NEW g \in Goroutine, Only(g),
           \/ Done(pc'[g], flag'[g])
           \/ pc'[g] = "idle" /\ arg'[g] = Nil /\ flag'[g] = FALSE /\ s'[g] = Nil
    PROVE  Abs!Return(g)
<1>1. AbsCall'[g] = "idle" /\ AbsArg'[g] = Nil /\ AbsFlag'[g] = FALSE /\ AbsS'[g] = Nil
  BY MappingIs DEF CallOf, Done
<1> QED BY <1>1, OnlyMaps DEF Abs!Return

\* A move that the callers do not see.
LEMMA HiddenMaps ==
    ASSUME NEW g \in Goroutine, Only(g),
           CallOf(pc'[g], flag'[g]) = CallOf(pc[g], flag[g]),
           \/ /\ ~Done(pc[g], flag[g]) /\ ~Done(pc'[g], flag'[g])
              /\ arg'[g] = arg[g] /\ flag'[g] = flag[g] /\ s'[g] = s[g]
           \/ /\ Done(pc[g], flag[g]) /\ ~Done(pc'[g], flag'[g])
              /\ arg'[g] = Nil /\ flag'[g] = FALSE /\ s'[g] = Nil
    PROVE  UNCHANGED <<AbsCall, AbsArg, AbsFlag, AbsS>>
<1>1. /\ AbsCall'[g] = AbsCall[g] /\ AbsArg'[g] = AbsArg[g]
      /\ AbsFlag'[g] = AbsFlag[g] /\ AbsS'[g] = AbsS[g]
  BY MappingIs
<1> QED BY <1>1, OnlyMaps

\* Nobody joins or leaves a list or makes up its mind to.
LEMMA QueueStays ==
    ASSUME IInv, IInv', list' = list,
           \A x \in Goroutine : /\ pc'[x] = "queue" <=> pc[x] = "queue"
                                /\ pc[x] = "queue" => arg'[x] = arg[x] /\ flag'[x] = flag[x]
    PROVE  AbsWaitq' = AbsWaitq /\ \A x \in Goroutine : InLine(x)' <=> InLine(x)
<1>1. \A x \in Goroutine : InLine(x)' <=> InLine(x)
  BY DEF InLine, Queued
<1>2. ASSUME NEW a \in Addr  PROVE AbsWaitq'[a] = AbsWaitq[a]
  <2>1. CASE \E x \in Goroutine : pc[x] = "queue" /\ arg[x] = a
    <3>1. PICK x \in Goroutine : pc[x] = "queue" /\ arg[x] = a
      BY <2>1
    <3>2. pc'[x] = "queue" /\ arg'[x] = a /\ flag'[x] = flag[x]
      BY <3>1
    <3>3. AbsWaitq[a] = Enqueue(list[a], x, flag[x]) /\ AbsWaitq'[a] = Enqueue(list'[a], x, flag'[x])
      BY <3>1, <3>2, WaitqIs
    <3> QED BY <3>2, <3>3
  <2>2. CASE \A x \in Goroutine : ~(pc[x] = "queue" /\ arg[x] = a)
    <3>1. \A x \in Goroutine : ~(pc'[x] = "queue" /\ arg'[x] = a)
      BY <2>2
    <3> QED BY <2>2, <3>1, WaitqIs
  <2> QED BY <2>1, <2>2
<1>3. AbsWaitq' = AbsWaitq
  BY <1>2, MappingShape
<1> QED BY <1>1, <1>3

\* A releaser's flag matters while it has a target.
LEMMA PickedStays ==
    ASSUME s' = s, \A r \in Goroutine : s[r] # Nil => flag'[r] = flag[r]
    PROVE  \A x \in Goroutine : Picked(x)' <=> Picked(x)
  BY SemaAssumption DEF Picked

\* The descriptors, when one may change.
LEMMA SudogMaps ==
    ASSUME NEW g \in Goroutine,
           \A x \in Goroutine \ {g} : /\ InLine(x)' <=> InLine(x)
                                      /\ Picked(x)' <=> Picked(x)
                                      /\ ticket'[x] = ticket[x]
    PROVE  /\ AbsSudog' = [AbsSudog EXCEPT ![g] = AbsSudog'[g]]
           /\ AbsSudog = [AbsSudog EXCEPT ![g] = AbsSudog[g]]
<1>1. \A x \in Goroutine \ {g} : AbsSudog'[x] = AbsSudog[x]
  BY MappingIs
<1> QED BY <1>1, MappingShape, AtOnePoint

Simulates == [Abs!SpecNext]_(Abs!specVars)

\* A step that changes nothing the callers see.
LEMMA Invisible ==
    ASSUME sema' = sema, AbsWaitq' = AbsWaitq, AbsSudog' = AbsSudog,
           UNCHANGED <<AbsCall, AbsArg, AbsFlag, AbsS>>
    PROVE  Simulates
  BY DEF Simulates, Abs!specVars

\* A step that leaves the lists and the releasers' targets alone.
LEMMA QuietStep ==
    ASSUME IInv, IInv', list' = list, s' = s, NEW g \in Goroutine, Only(g),
           \A x \in Goroutine \ {g} : pc'[x] = pc[x] /\ ticket'[x] = ticket[x],
           pc[g] # "queue" /\ pc'[g] # "queue", pc[g] # "ready"
    PROVE  /\ AbsWaitq' = AbsWaitq
           /\ \A x \in Goroutine : InLine(x)' <=> InLine(x)
           /\ \A x \in Goroutine : Picked(x)' <=> Picked(x)
           /\ AbsSudog' = [AbsSudog EXCEPT ![g] = AbsSudog'[g]]
           /\ AbsSudog = [AbsSudog EXCEPT ![g] = AbsSudog[g]]
<1>1. \A x \in Goroutine : /\ pc'[x] = "queue" <=> pc[x] = "queue"
                           /\ pc[x] = "queue" => arg'[x] = arg[x] /\ flag'[x] = flag[x]
  BY DEF Only
<1>2. AbsWaitq' = AbsWaitq /\ \A x \in Goroutine : InLine(x)' <=> InLine(x)
  BY <1>1, QueueStays
<1>3. s[g] = Nil
  BY DEF IInv, CallInv
<1>4. \A r \in Goroutine : s[r] # Nil => flag'[r] = flag[r]
  BY <1>3 DEF Only
<1>5. \A x \in Goroutine : Picked(x)' <=> Picked(x)
  BY <1>4, PickedStays
<1> QED BY <1>2, <1>5, SudogMaps

\* A goroutine that is neither parked nor about to park has no descriptor in a list.
LEMMA NoDescriptor ==
    ASSUME IInv, NEW g \in Goroutine, pc[g] \notin {"queue", "parked"}
    PROVE  ~InLine(g) /\ ~Picked(g) /\ AbsSudog[g] = IF ticket[g] = 1 THEN "ticket" ELSE "none"
<1>1. ~InLine(g)
  <2>1. \A a \in Addr : Queued(a) = Members(list[a])
    BY DEF Queued, Members
  <2> QED BY <2>1 DEF InLine, IInv, ListInv
<1>2. ~Picked(g)
  <2> SUFFICES ASSUME NEW r \in Goroutine, s[r] = g  PROVE FALSE
    BY DEF Picked
  <2>1. pc[r] = "ready"
    BY SemaAssumption DEF IInv, CallInv
  <2> QED BY <2>1 DEF IInv, TargetInv
<1> QED BY <1>1, <1>2, MappingIs

\* A call begins.
LEMMA CallSimulates ==
    ASSUME IInv, IInv', NEW g \in Goroutine, NEW a \in Addr, NEW f \in BOOLEAN,
           Semacquire(g, a, f) \/ Semrelease(g, a, f)
    PROVE  Simulates
<1>1. PICK l \in {"easy", "xadd"} :
          /\ pc[g] = "idle" /\ pc' = [pc EXCEPT ![g] = l]
          /\ arg' = [arg EXCEPT ![g] = a] /\ flag' = [flag EXCEPT ![g] = f]
          /\ UNCHANGED <<sema, lock, nwait, list, ticket, s>>
  BY DEF Semacquire, Semrelease, Call, Goto
<1>2. /\ \A x \in Goroutine \ {g} : pc'[x] = pc[x] /\ arg'[x] = arg[x] /\ flag'[x] = flag[x]
      /\ pc'[g] = l /\ arg'[g] = a /\ flag'[g] = f
  BY <1>1 DEF IInv, TypeOK
<1>3. Only(g)
  BY <1>1, <1>2 DEF Only
<1>4. /\ AbsCall[g] = "idle" /\ AbsCall'[g] = (IF l = "easy" THEN "acquire" ELSE "xadd")
      /\ AbsArg'[g] = a /\ AbsFlag'[g] = f
  <2>1. /\ AbsCall[g] = CallOf(pc[g], flag[g]) /\ AbsCall'[g] = CallOf(pc'[g], flag'[g])
        /\ AbsArg'[g] = IF Done(pc'[g], flag'[g]) THEN Nil ELSE arg'[g]
        /\ AbsFlag'[g] = IF Done(pc'[g], flag'[g]) THEN FALSE ELSE flag'[g]
    BY MappingIs
  <2> QED BY <1>1, <1>2, <2>1 DEF CallOf, Done
<1>5. AbsS' = AbsS
  <2>1. AbsS'[g] = AbsS[g]
    BY <1>1, <1>2, MappingIs DEF Done
  <2> QED BY <1>3, <2>1, OnlyMaps
<1>6. AbsWaitq' = AbsWaitq /\ AbsSudog' = AbsSudog
  <2>1. /\ AbsWaitq' = AbsWaitq
        /\ \A x \in Goroutine : InLine(x)' <=> InLine(x)
        /\ \A x \in Goroutine : Picked(x)' <=> Picked(x)
        /\ AbsSudog' = [AbsSudog EXCEPT ![g] = AbsSudog'[g]]
        /\ AbsSudog = [AbsSudog EXCEPT ![g] = AbsSudog[g]]
    BY <1>1, <1>2, <1>3, QuietStep
  <2>2. AbsSudog'[g] = AbsSudog[g]
    BY <1>1, <2>1, MappingIs
  <2> QED BY <2>1, <2>2
<1>7. Abs!Begin(g, a, f, IF l = "easy" THEN "acquire" ELSE "xadd")
  BY <1>1, <1>3, <1>4, <1>5, <1>6, OnlyMaps DEF Abs!Begin
<1>8. (IF l = "easy" THEN "acquire" ELSE "xadd") \in {"acquire", "xadd"}
  OBVIOUS
<1> QED BY <1>7, <1>8 DEF Simulates, Abs!SpecNext

\* semacquire1 ends: with a unit of the count, or with the ticket.
LEMMA AcquiredSimulates ==
    ASSUME IInv, IInv', NEW g \in Goroutine, NEW b \in Addr, arg[g] = b,
           pc[g] \in {"easy", "check", "awake"},
           \/ ticket[g] = 0 /\ cansemacquire(b)
           \/ ticket[g] # 0 /\ sema' = sema,
           Only(g), \A x \in Goroutine \ {g} : pc'[x] = pc[x] /\ ticket'[x] = ticket[x],
           list' = list, s' = s, ticket'[g] = 0,
           pc'[g] = "undo" \/ (pc'[g] = "idle" /\ arg'[g] = Nil /\ flag'[g] = FALSE)
    PROVE  Simulates
<1>1. s[g] = Nil /\ ticket[g] \in 0..1
  BY DEF IInv, CallInv, TypeOK
<1>2. Abs!Return(g)
  BY <1>1, ReturnMaps DEF Done
<1>3. /\ AbsWaitq' = AbsWaitq
      /\ ~InLine(g)' /\ ~Picked(g)'
      /\ AbsSudog' = [AbsSudog EXCEPT ![g] = AbsSudog'[g]]
  <2>1. ~InLine(g) /\ ~Picked(g)
    BY NoDescriptor
  <2> QED BY <2>1, QuietStep
<1>4. AbsSudog'[g] = "none"
  <2>1. AbsSudog'[g] = IF InLine(g)' THEN "queued" ELSE IF Picked(g)' THEN "picked"
                       ELSE IF ticket'[g] = 1 THEN "ticket" ELSE "none"
    BY MappingIs
  <2> QED BY <1>3, <2>1
<1>5. AbsSudog[g] = IF ticket[g] = 1 THEN "ticket" ELSE "none"
  BY NoDescriptor
<1>6. AbsCall[g] = "acquire" /\ AbsArg[g] = b
  <2>1. /\ AbsCall[g] = CallOf(pc[g], flag[g])
        /\ AbsArg[g] = IF Done(pc[g], flag[g]) THEN Nil ELSE arg[g]
    BY MappingIs
  <2> QED BY <2>1 DEF CallOf, Done
<1>7. Abs!SemAcquired(g, b)
  <2>1. CASE ticket[g] = 0 /\ cansemacquire(b)
    <3>1. Abs!cansemacquire(b) /\ AbsSudog[g] = "none"
      BY <1>5, <2>1 DEF cansemacquire, Abs!cansemacquire
    <3> QED BY <1>3, <1>4, <3>1 DEF Abs!SemAcquired
  <2>2. CASE ticket[g] # 0 /\ sema' = sema
    <3>1. AbsSudog[g] = "ticket"
      BY <1>1, <1>5, <2>2
    <3> QED BY <1>3, <1>4, <2>2, <3>1 DEF Abs!SemAcquired
  <2> QED BY <2>1, <2>2
<1>8. Abs!Acquire(g)
  BY <1>2, <1>6, <1>7 DEF Abs!Acquire
<1> QED BY <1>8 DEF Simulates, Abs!SpecNext

\* A step inside a call that leaves the count, the lists and the targets alone.
LEMMA InsideSimulates ==
    ASSUME IInv, IInv', NEW g \in Goroutine, sema' = sema, list' = list, s' = s, ticket' = ticket,
           Only(g), \A x \in Goroutine \ {g} : pc'[x] = pc[x],
           arg'[g] = arg[g], flag'[g] = flag[g],
           \/ pc[g] \in {"easy", "lock", "awake"} /\ pc'[g] \in {"lock", "check"}
           \/ pc[g] = "load" /\ pc'[g] = "rlock"
    PROVE  Simulates
<1>1. UNCHANGED <<AbsCall, AbsArg, AbsFlag, AbsS>>
  <2>1. CallOf(pc'[g], flag'[g]) = CallOf(pc[g], flag[g]) /\ ~Done(pc[g], flag[g]) /\ ~Done(pc'[g], flag'[g])
    BY DEF CallOf, Done
  <2> QED BY <2>1, HiddenMaps
<1>2. /\ AbsWaitq' = AbsWaitq
      /\ \A x \in Goroutine : InLine(x)' <=> InLine(x)
      /\ \A x \in Goroutine : Picked(x)' <=> Picked(x)
      /\ AbsSudog' = [AbsSudog EXCEPT ![g] = AbsSudog'[g]]
      /\ AbsSudog = [AbsSudog EXCEPT ![g] = AbsSudog[g]]
  BY QuietStep
<1>3. AbsSudog'[g] = AbsSudog[g]
  BY <1>2, MappingIs
<1> QED BY <1>1, <1>2, <1>3, Invisible

\* The first test of the count.
LEMMA AcquireEasySimulates ==
    ASSUME IInv, IInv', NEW g \in Goroutine, AcquireEasy(g)  PROVE Simulates
<1>1. PICK b \in Addr : b = arg[g]
  BY ArgIsAddr DEF AcquireEasy
<1>2. pc[g] = "easy" /\ UNCHANGED <<list, ticket, s>> /\ ticket[g] = 0
  BY DEF AcquireEasy, IInv, CallInv
<1>3. CASE cansemacquire(b) /\ Return(g)
  <2>1. /\ \A x \in Goroutine \ {g} : pc'[x] = pc[x] /\ arg'[x] = arg[x] /\ flag'[x] = flag[x]
        /\ pc'[g] = "idle" /\ arg'[g] = Nil /\ flag'[g] = FALSE
    BY <1>3 DEF Return, Goto, IInv, TypeOK
  <2>2. Only(g)
    BY <1>2, <2>1 DEF Only
  <2> QED BY <1>1, <1>2, <1>3, <2>1, <2>2, AcquiredSimulates
<1>4. CASE Goto(g, "lock") /\ UNCHANGED <<sema, arg, flag>>
  <2>1. (\A x \in Goroutine \ {g} : pc'[x] = pc[x]) /\ pc'[g] = "lock"
    BY <1>4 DEF Goto, IInv, TypeOK
  <2>2. Only(g)
    BY <1>2, <1>4, <2>1 DEF Only
  <2> QED BY <1>2, <1>4, <2>1, <2>2, InsideSimulates
<1> QED BY <1>1, <1>3, <1>4 DEF AcquireEasy

\* A waiter runs again.
LEMMA AcquireAwakeSimulates ==
    ASSUME IInv, IInv', NEW g \in Goroutine, AcquireAwake(g)  PROVE Simulates
<1>1. PICK b \in Addr : b = arg[g]
  BY ArgIsAddr DEF AcquireAwake
<1>2. /\ pc[g] = "awake" /\ UNCHANGED <<list, s>> /\ ticket'[g] = 0
      /\ \A x \in Goroutine \ {g} : ticket'[x] = ticket[x]
  BY DEF AcquireAwake, IInv, TypeOK
<1>3. CASE /\ (ticket[g] = 0 /\ cansemacquire(b)) \/ (ticket[g] # 0 /\ sema' = sema)
           /\ Return(g)
  <2>1. /\ \A x \in Goroutine \ {g} : pc'[x] = pc[x] /\ arg'[x] = arg[x] /\ flag'[x] = flag[x]
        /\ pc'[g] = "idle" /\ arg'[g] = Nil /\ flag'[g] = FALSE
    BY <1>3 DEF Return, Goto, IInv, TypeOK
  <2>2. Only(g)
    BY <1>2, <2>1 DEF Only
  <2> QED BY <1>1, <1>2, <1>3, <2>1, <2>2, AcquiredSimulates
<1>4. CASE ticket[g] = 0 /\ Goto(g, "lock") /\ UNCHANGED <<sema, arg, flag>>
  <2>1. (\A x \in Goroutine \ {g} : pc'[x] = pc[x]) /\ pc'[g] = "lock"
    BY <1>4 DEF Goto, IInv, TypeOK
  <2>2. Only(g)
    BY <1>2, <1>4, <2>1 DEF Only
  <2>3. ticket' = ticket
    BY <1>4 DEF AcquireAwake, IInv, TypeOK
  <2> QED BY <1>2, <1>4, <2>1, <2>2, <2>3, InsideSimulates
<1> QED BY <1>1, <1>3, <1>4 DEF AcquireAwake

\* The waiter announces itself.
LEMMA AcquireLockSimulates ==
    ASSUME IInv, IInv', NEW g \in Goroutine, AcquireLock(g)  PROVE Simulates
<1>1. pc[g] = "lock" /\ UNCHANGED <<sema, list, ticket, arg, flag, s>>
  BY DEF AcquireLock
<1>2. (\A x \in Goroutine \ {g} : pc'[x] = pc[x]) /\ pc'[g] = "check"
  BY DEF AcquireLock, Goto, IInv, TypeOK
<1>3. Only(g)
  BY <1>1, <1>2 DEF Only
<1> QED BY <1>1, <1>2, <1>3, InsideSimulates

\* The test that fails under root.lock is where the waiter falls asleep.
LEMMA AcquireCheckSimulates ==
    ASSUME IInv, IInv', NEW g \in Goroutine, AcquireCheck(g)  PROVE Simulates
<1>1. PICK b \in Addr : b = arg[g]
  BY ArgIsAddr DEF AcquireCheck
<1>2. pc[g] = "check" /\ UNCHANGED <<list, ticket, s, arg, flag>> /\ ticket[g] = 0
  BY DEF AcquireCheck, IInv, CallInv
<1>3. CASE cansemacquire(b) /\ Goto(g, "undo")
  <2>1. (\A x \in Goroutine \ {g} : pc'[x] = pc[x]) /\ pc'[g] = "undo"
    BY <1>3 DEF Goto, IInv, TypeOK
  <2>2. Only(g)
    BY <1>2, <2>1 DEF Only
  <2> QED BY <1>1, <1>2, <1>3, <2>1, <2>2, AcquiredSimulates
<1>4. CASE sema[b] = 0 /\ Goto(g, "queue") /\ UNCHANGED sema
  <2>1. (\A x \in Goroutine \ {g} : pc'[x] = pc[x]) /\ pc'[g] = "queue"
    BY <1>4 DEF Goto, IInv, TypeOK
  <2>2. Only(g)
    BY <1>2, <2>1 DEF Only
  <2>3. UNCHANGED <<AbsCall, AbsArg, AbsFlag, AbsS>>
    <3>1. /\ CallOf(pc'[g], flag'[g]) = CallOf(pc[g], flag[g])
          /\ ~Done(pc[g], flag[g]) /\ ~Done(pc'[g], flag'[g])
      BY <1>2, <2>1 DEF CallOf, Done
    <3> QED BY <1>2, <2>2, <3>1, HiddenMaps
  <2>4. \A x \in Goroutine : pc[x] # "queue"
    BY <1>2 DEF IInv, LockInv
  <2>5. AbsWaitq' = [AbsWaitq EXCEPT ![b] = Enqueue(AbsWaitq[b], g, flag[g])]
    <3>1. \A a \in Addr : AbsWaitq[a] = list[a]
      BY <2>4, WaitqIs
    <3>2. AbsWaitq'[b] = Enqueue(list[b], g, flag[g])
      BY <1>1, <1>2, <2>1, WaitqIs
    <3>3. ASSUME NEW a \in Addr \ {b}  PROVE AbsWaitq'[a] = list[a]
      <4>1. \A x \in Goroutine : ~(pc'[x] = "queue" /\ arg'[x] = a)
        BY <1>1, <1>2, <2>1, <2>4
      <4> QED BY <1>2, <4>1, WaitqIs
    <3>4. AbsWaitq' = [AbsWaitq EXCEPT ![b] = AbsWaitq'[b]]
      BY <3>1, <3>3, MappingShape, AtOnePoint
    <3> QED BY <3>1, <3>2, <3>4
  <2>6. AbsSudog' = [AbsSudog EXCEPT ![g] = "queued"]
    <3>1. \A x \in Goroutine \ {g} : InLine(x)' <=> InLine(x)
      BY <1>2, <2>1 DEF InLine, Queued
    <3>2. \A x \in Goroutine : Picked(x)' <=> Picked(x)
      BY <1>2, PickedStays
    <3>3. AbsSudog'[g] = "queued"
      BY <2>1, MappingIs DEF InLine
    <3> QED BY <1>2, <3>1, <3>2, <3>3, SudogMaps
  <2>7. AbsSudog[g] = "none"
    BY <1>2, NoDescriptor
  <2>8. AbsCall[g] = "acquire" /\ AbsArg[g] = b /\ AbsFlag[g] = flag[g]
    <3>1. /\ AbsCall[g] = CallOf(pc[g], flag[g])
          /\ AbsArg[g] = IF Done(pc[g], flag[g]) THEN Nil ELSE arg[g]
          /\ AbsFlag[g] = IF Done(pc[g], flag[g]) THEN FALSE ELSE flag[g]
      BY MappingIs
    <3> QED BY <1>1, <1>2, <3>1 DEF CallOf, Done
  <2>9. Abs!SemSleep(g, b, flag[g])
    BY <1>4, <2>5, <2>6, <2>7 DEF Abs!SemSleep, Abs!Enqueue, Enqueue
  <2>10. Abs!Acquire(g)
    BY <2>3, <2>8, <2>9 DEF Abs!Acquire
  <2> QED BY <2>10 DEF Simulates, Abs!SpecNext
<1> QED BY <1>1, <1>3, <1>4 DEF AcquireCheck

\* The waiter that got its unit withdraws: nobody sees it.
LEMMA AcquireUndoSimulates ==
    ASSUME IInv, IInv', NEW g \in Goroutine, AcquireUndo(g)  PROVE Simulates
<1>1. pc[g] = "undo" /\ UNCHANGED <<sema, list, ticket, s>> /\ s[g] = Nil
  BY DEF AcquireUndo, IInv, CallInv
<1>2. /\ \A x \in Goroutine \ {g} : pc'[x] = pc[x] /\ arg'[x] = arg[x] /\ flag'[x] = flag[x]
      /\ pc'[g] = "idle" /\ arg'[g] = Nil /\ flag'[g] = FALSE
  BY DEF AcquireUndo, Return, Goto, IInv, TypeOK
<1>3. Only(g)
  BY <1>1, <1>2 DEF Only
<1>4. UNCHANGED <<AbsCall, AbsArg, AbsFlag, AbsS>>
  <2>1. /\ CallOf(pc'[g], flag'[g]) = CallOf(pc[g], flag[g])
        /\ Done(pc[g], flag[g]) /\ ~Done(pc'[g], flag'[g])
    BY <1>1, <1>2 DEF CallOf, Done
  <2> QED BY <1>1, <1>2, <1>3, <2>1, HiddenMaps
<1>5. /\ AbsWaitq' = AbsWaitq
      /\ \A x \in Goroutine : InLine(x)' <=> InLine(x)
      /\ \A x \in Goroutine : Picked(x)' <=> Picked(x)
      /\ AbsSudog' = [AbsSudog EXCEPT ![g] = AbsSudog'[g]]
      /\ AbsSudog = [AbsSudog EXCEPT ![g] = AbsSudog[g]]
  BY <1>1, <1>2, <1>3, QuietStep
<1>6. AbsSudog'[g] = AbsSudog[g]
  BY <1>1, <1>5, MappingIs
<1> QED BY <1>1, <1>4, <1>5, <1>6, Invisible

\* The waiter queues: it slept already.
LEMMA AcquireQueueSimulates ==
    ASSUME IInv, IInv', NEW g \in Goroutine, AcquireQueue(g)  PROVE Simulates
<1>1. PICK b \in Addr : b = arg[g]
  BY ArgIsAddr DEF AcquireQueue
<1>2. pc[g] = "queue" /\ UNCHANGED <<sema, ticket, arg, flag, s>>
  BY DEF AcquireQueue
<1>3. /\ \A x \in Goroutine \ {g} : pc'[x] = pc[x]
      /\ pc'[g] = "parked"
      /\ list'[b] = Enqueue(list[b], g, flag[g])
      /\ \A a \in Addr \ {b} : list'[a] = list[a]
  BY <1>1 DEF AcquireQueue, Goto, IInv, TypeOK
<1>4. Only(g)
  BY <1>2, <1>3 DEF Only
<1>5. UNCHANGED <<AbsCall, AbsArg, AbsFlag, AbsS>>
  <2>1. /\ CallOf(pc'[g], flag'[g]) = CallOf(pc[g], flag[g])
        /\ ~Done(pc[g], flag[g]) /\ ~Done(pc'[g], flag'[g])
    BY <1>2, <1>3 DEF CallOf, Done
  <2> QED BY <1>2, <1>4, <2>1, HiddenMaps
<1>6. \A x \in Goroutine \ {g} : pc[x] # "queue"
  BY <1>2 DEF IInv, LockInv
<1>7. AbsWaitq' = AbsWaitq
  <2>1. \A a \in Addr : AbsWaitq'[a] = list'[a]
    BY <1>3, <1>6, WaitqIs
  <2>2. AbsWaitq[b] = Enqueue(list[b], g, flag[g])
    BY <1>1, <1>2, WaitqIs
  <2>3. \A a \in Addr \ {b} : AbsWaitq[a] = list[a]
    BY <1>1, <1>6, WaitqIs
  <2>4. \A a \in Addr : AbsWaitq'[a] = AbsWaitq[a]
    BY <1>3, <2>1, <2>2, <2>3
  <2> QED BY <2>4, MappingShape
<1>8. AbsSudog' = AbsSudog
  <2>1. \A a \in Addr : Queued(a) = Members(list[a]) /\ Queued(a)' = Members(list'[a])
    BY DEF Queued, Members
  <2>2. list[b] \in Seq(Goroutine) /\ flag[g] \in BOOLEAN /\ Distinct(list[b]) /\ g \notin Members(list[b])
    BY <1>2 DEF IInv, TypeOK, ListInv
  <2>3. Members(list'[b]) = Members(list[b]) \cup {g}
    BY <1>3, <2>2, EnqueueAdds
  <2>4. \A x \in Goroutine \ {g} : InLine(x)' <=> InLine(x)
    BY <1>3, <2>1, <2>3 DEF InLine
  <2>5. InLine(g) /\ InLine(g)'
    BY <1>2, <2>1, <2>3 DEF InLine
  <2>6. \A x \in Goroutine : Picked(x)' <=> Picked(x)
    BY <1>2, PickedStays
  <2>7. AbsSudog'[g] = AbsSudog[g]
    BY <2>5, MappingIs
  <2> QED BY <1>2, <2>4, <2>6, <2>7, SudogMaps
<1> QED BY <1>2, <1>5, <1>7, <1>8, Invisible

\* The unit is published.
LEMMA ReleaseXaddSimulates ==
    ASSUME IInv, IInv', NEW g \in Goroutine, ReleaseXadd(g)  PROVE Simulates
<1>1. PICK b \in Addr : b = arg[g]
  BY ArgIsAddr DEF ReleaseXadd
<1>2. /\ pc[g] = "xadd" /\ UNCHANGED <<list, ticket, arg, flag, s>>
      /\ sema' = [sema EXCEPT ![b] = sema[b] + 1]
  BY <1>1 DEF ReleaseXadd
<1>3. (\A x \in Goroutine \ {g} : pc'[x] = pc[x]) /\ pc'[g] = "load"
  BY DEF ReleaseXadd, Goto, IInv, TypeOK
<1>4. Only(g)
  BY <1>2, <1>3 DEF Only
<1>5. /\ AbsCall[g] = "xadd" /\ AbsCall'[g] = "dequeue" /\ AbsArg[g] = b
      /\ AbsArg'[g] = AbsArg[g] /\ AbsFlag'[g] = AbsFlag[g] /\ AbsS'[g] = AbsS[g]
  <2>1. /\ AbsCall[g] = CallOf(pc[g], flag[g]) /\ AbsCall'[g] = CallOf(pc'[g], flag'[g])
    BY MappingIs
  <2>2. ~Done(pc[g], flag[g]) /\ ~Done(pc'[g], flag'[g])
    BY <1>2, <1>3 DEF Done
  <2>3. /\ AbsArg[g] = arg[g] /\ AbsArg'[g] = arg'[g]
        /\ AbsFlag'[g] = flag'[g] /\ AbsFlag[g] = flag[g] /\ AbsS'[g] = s'[g] /\ AbsS[g] = s[g]
    BY <2>2, MappingIs
  <2> QED BY <1>1, <1>2, <1>3, <2>1, <2>3 DEF CallOf
<1>6. /\ AbsWaitq' = AbsWaitq
      /\ \A x \in Goroutine : InLine(x)' <=> InLine(x)
      /\ \A x \in Goroutine : Picked(x)' <=> Picked(x)
      /\ AbsSudog' = [AbsSudog EXCEPT ![g] = AbsSudog'[g]]
      /\ AbsSudog = [AbsSudog EXCEPT ![g] = AbsSudog[g]]
  BY <1>2, <1>3, <1>4, QuietStep
<1>7. AbsSudog'[g] = AbsSudog[g]
  BY <1>2, <1>6, MappingIs
<1>8. Abs!SemXadd(b)
  BY <1>2, <1>6, <1>7 DEF Abs!SemXadd
<1>9. Abs!Xadd(g)
  BY <1>4, <1>5, <1>8, OnlyMaps DEF Abs!Xadd
<1> QED BY <1>9 DEF Simulates, Abs!SpecNext

\* A releaser that returns because nobody sleeps on its address.
LEMMA NoWaiterSimulates ==
    ASSUME IInv, IInv', NEW g \in Goroutine, NEW b \in Addr, arg[g] = b,
           pc[g] \in {"load", "rlock"}, ~Sleeping(b), Return(g),
           UNCHANGED <<sema, list, ticket, s>>
    PROVE  Simulates
<1>1. /\ \A x \in Goroutine \ {g} : pc'[x] = pc[x] /\ arg'[x] = arg[x] /\ flag'[x] = flag[x]
      /\ pc'[g] = "idle" /\ arg'[g] = Nil /\ flag'[g] = FALSE /\ s'[g] = Nil
  BY DEF Return, Goto, IInv, TypeOK, CallInv
<1>2. Only(g)
  BY <1>1 DEF Only
<1>3. Abs!Return(g)
  BY <1>1, <1>2, ReturnMaps
<1>4. /\ AbsWaitq' = AbsWaitq
      /\ \A x \in Goroutine : InLine(x)' <=> InLine(x)
      /\ \A x \in Goroutine : Picked(x)' <=> Picked(x)
      /\ AbsSudog' = [AbsSudog EXCEPT ![g] = AbsSudog'[g]]
      /\ AbsSudog = [AbsSudog EXCEPT ![g] = AbsSudog[g]]
  BY <1>1, <1>2, QuietStep
<1>5. AbsSudog'[g] = AbsSudog[g]
  BY <1>4, MappingIs
<1>6. AbsWaitq[b] = <<>>
  BY WaitqIs DEF Sleeping
<1>7. AbsCall[g] = "dequeue" /\ AbsArg[g] = b
  <2>1. /\ AbsCall[g] = CallOf(pc[g], flag[g])
        /\ AbsArg[g] = IF Done(pc[g], flag[g]) THEN Nil ELSE arg[g]
    BY MappingIs
  <2> QED BY <2>1 DEF CallOf, Done
<1>8. Abs!SemNoWaiter(b)
  BY <1>4, <1>5, <1>6 DEF Abs!SemNoWaiter
<1>9. Abs!Dequeue(g)
  BY <1>3, <1>7, <1>8 DEF Abs!Dequeue
<1> QED BY <1>9 DEF Simulates, Abs!SpecNext

\* The unlocked read of nwait.
LEMMA ReleaseLoadSimulates ==
    ASSUME IInv, IInv', NEW g \in Goroutine, ReleaseLoad(g)  PROVE Simulates
<1>1. PICK b \in Addr : b = arg[g]
  BY ArgIsAddr DEF ReleaseLoad
<1>2. pc[g] = "load" /\ UNCHANGED <<sema, list, ticket, s>>
  BY DEF ReleaseLoad
<1>3. CASE nwait = 0 /\ Return(g)
  <2>1. ~Sleeping(b)
    BY <1>3, NobodyWaits DEF IInv
  <2> QED BY <1>1, <1>2, <1>3, <2>1, NoWaiterSimulates
<1>4. CASE Goto(g, "rlock") /\ UNCHANGED <<arg, flag>>
  <2>1. (\A x \in Goroutine \ {g} : pc'[x] = pc[x]) /\ pc'[g] = "rlock"
    BY <1>4 DEF Goto, IInv, TypeOK
  <2>2. Only(g)
    BY <1>2, <1>4, <2>1 DEF Only
  <2> QED BY <1>2, <1>4, <2>1, <2>2, InsideSimulates
<1> QED BY <1>3, <1>4 DEF ReleaseLoad

\* The releaser takes the first sleeper off the list.
LEMMA ReleaseHeadSimulates ==
    ASSUME IInv, IInv', NEW g \in Goroutine, NEW b \in Addr, NEW CONSTANT h, NEW CONSTANT q,
           pc[g] = "rlock", lock = Nil, arg[g] = b,
           list[b] # <<>>, h = Head(list[b]), q = Tail(list[b]),
           s' = [s EXCEPT ![g] = h], list' = [list EXCEPT ![b] = q],
           pc' = [pc EXCEPT ![g] = "ready"],
           UNCHANGED <<sema, lock, ticket, arg, flag>>
    PROVE  Simulates
<1>1. list[b] \in Seq(Goroutine) /\ Distinct(list[b])
  BY DEF IInv, TypeOK, ListInv
<1>2. /\ h \in Goroutine /\ q \in Seq(Goroutine)
      /\ Members(q) = Members(list[b]) \ {h} /\ h \in Members(list[b])
  BY <1>1, TailRemoves
<1>3. pc[h] = "parked" /\ arg[h] = b /\ h # g /\ ticket[h] = 0 /\ s[g] = Nil /\ flag[g] \in BOOLEAN
  BY <1>2 DEF IInv, ListInv, CallInv, TypeOK
<1>4. /\ \A x \in Goroutine \ {g} : pc'[x] = pc[x] /\ s'[x] = s[x]
      /\ pc'[g] = "ready" /\ s'[g] = h
      /\ \A a \in Addr \ {b} : list'[a] = list[a]
      /\ list'[b] = q
  BY DEF IInv, TypeOK
<1>5. Only(g)
  BY <1>4 DEF Only
<1>6. \A a \in Addr : AbsWaitq[a] = list[a] /\ AbsWaitq'[a] = list'[a]
  <2>1. \A x \in Goroutine : pc[x] # "queue" /\ pc'[x] # "queue"
    BY SemaAssumption DEF IInv, LockInv
  <2> QED BY <2>1, WaitqIs
<1>7. AbsWaitq' = [AbsWaitq EXCEPT ![b] = Tail(AbsWaitq[b])]
  <2>1. AbsWaitq' = [AbsWaitq EXCEPT ![b] = AbsWaitq'[b]]
    <3>1. \A a \in Addr \ {b} : AbsWaitq'[a] = AbsWaitq[a]
      BY <1>4, <1>6
    <3> QED BY <3>1, MappingShape, AtOnePoint
  <2>2. AbsWaitq'[b] = Tail(AbsWaitq[b])
    BY <1>4, <1>6
  <2> QED BY <2>1, <2>2
<1>8. AbsSudog' = [AbsSudog EXCEPT ![h] = IF flag[g] THEN "picked" ELSE "none"]
  <2>1. \A a \in Addr : Queued(a) = Members(list[a]) /\ Queued(a)' = Members(list'[a])
    BY DEF Queued, Members
  <2>2. \A a \in Addr : h \in Members(list[a]) => a = b
    BY <1>3 DEF IInv, ListInv
  <2>3. \A x \in Goroutine \ {h} : InLine(x)' <=> InLine(x)
    BY <1>2, <1>4, <2>1 DEF InLine
  <2>4. ~InLine(h)'
    BY <1>2, <1>3, <1>4, <2>1, <2>2 DEF InLine
  <2>5. \A r \in Goroutine : s[r] # h
    <3> SUFFICES ASSUME NEW r \in Goroutine, s[r] = h  PROVE FALSE
      OBVIOUS
    <3>1. pc[r] = "ready" /\ arg[r] = b
      BY <1>2, <1>3, SemaAssumption DEF IInv, CallInv, TargetInv
    <3> QED BY <1>2, <3>1 DEF IInv, TargetInv
  <2>6. \A x \in Goroutine \ {h} : Picked(x)' <=> Picked(x)
    BY <1>3, <1>4, SemaAssumption DEF Picked
  <2>7. Picked(h)' <=> flag[g]
    BY <1>4, <2>5 DEF Picked
  <2>8. AbsSudog'[h] = IF flag[g] THEN "picked" ELSE "none"
    <3>1. AbsSudog'[h] = IF InLine(h)' THEN "queued" ELSE IF Picked(h)' THEN "picked"
                         ELSE IF ticket'[h] = 1 THEN "ticket" ELSE "none"
      BY <1>2, MappingIs
    <3> QED BY <1>3, <2>4, <2>7, <3>1
  <2> QED BY <1>2, <2>3, <2>6, <2>8, SudogMaps
<1>9. AbsWaitq[b] # <<>> /\ Head(AbsWaitq[b]) = h
  BY <1>6
<1>10. AbsCall[g] = "dequeue" /\ AbsArg[g] = b /\ AbsFlag[g] = flag[g]
  <2>1. /\ AbsCall[g] = CallOf(pc[g], flag[g])
        /\ AbsArg[g] = IF Done(pc[g], flag[g]) THEN Nil ELSE arg[g]
        /\ AbsFlag[g] = IF Done(pc[g], flag[g]) THEN FALSE ELSE flag[g]
    BY MappingIs
  <2> QED BY <2>1 DEF CallOf, Done
<1>11. CASE ~flag[g]
  <2>1. Abs!Return(g)
    BY <1>4, <1>5, <1>11, ReturnMaps DEF Done
  <2>2. Abs!SemDequeue(b, FALSE)
    BY <1>7, <1>8, <1>9, <1>11 DEF Abs!SemDequeue
  <2>3. Abs!Dequeue(g)
    BY <1>10, <1>11, <2>1, <2>2 DEF Abs!Dequeue
  <2> QED BY <2>3 DEF Simulates, Abs!SpecNext
<1>12. CASE flag[g]
  <2>1. /\ AbsCall'[g] = "handoff" /\ AbsArg'[g] = AbsArg[g] /\ AbsFlag'[g] = AbsFlag[g]
        /\ AbsS'[g] = h
    <3>1. ~Done(pc'[g], flag'[g]) /\ CallOf(pc'[g], flag'[g]) = "handoff"
      BY <1>4, <1>12 DEF Done, CallOf
    <3>2. AbsCall'[g] = "handoff" /\ AbsArg'[g] = arg'[g] /\ AbsFlag'[g] = flag'[g] /\ AbsS'[g] = s'[g]
      BY <3>1, MappingIs
    <3> QED BY <1>4, <1>10, <3>2
  <2>2. Abs!SemDequeue(b, TRUE)
    BY <1>7, <1>8, <1>9, <1>12 DEF Abs!SemDequeue
  <2>3. Abs!Dequeue(g)
    <3>1. /\ AbsCall' = [AbsCall EXCEPT ![g] = "handoff"] /\ AbsS' = [AbsS EXCEPT ![g] = h]
      BY <1>5, <2>1, OnlyMaps
    <3>2. AbsArg' = AbsArg /\ AbsFlag' = AbsFlag
      BY <1>5, <2>1, OnlyMaps
    <3>3. AbsS' = [AbsS EXCEPT ![g] = Head(AbsWaitq[AbsArg[g]])]
      BY <1>9, <1>10, <3>1
    <3> QED BY <1>10, <1>12, <2>2, <3>1, <3>2, <3>3 DEF Abs!Dequeue
  <2> QED BY <2>3 DEF Simulates, Abs!SpecNext
<1> QED BY <1>3, <1>11, <1>12

\* The releaser under root.lock.
LEMMA ReleaseDequeueSimulates ==
    ASSUME IInv, IInv', NEW g \in Goroutine, ReleaseDequeue(g)  PROVE Simulates
<1>1. pc[g] = "rlock" /\ lock = Nil /\ UNCHANGED <<sema, lock, ticket>>
  BY DEF ReleaseDequeue
<1>2. PICK b \in Addr : b = arg[g]
  BY <1>1, ArgIsAddr
<1>3. CASE (nwait = 0 \/ list[arg[g]] = <<>>) /\ Return(g) /\ UNCHANGED <<nwait, list, s>>
  <2>1. ~ Sleeping(b)
    BY <1>1, <1>2, <1>3, NobodyWaits, LockFree DEF IInv
  <2> QED BY <1>1, <1>2, <1>3, <2>1, NoWaiterSimulates
<1>4. CASE /\ nwait # 0 /\ list[arg[g]] # <<>>
           /\ s' = [s EXCEPT ![g] = Head(list[arg[g]])]
           /\ list' = [list EXCEPT ![arg[g]] = Tail(@)]
           /\ nwait' = nwait - 1
           /\ Goto(g, "ready")
           /\ UNCHANGED <<arg, flag>>
  <2>1. PICK h, q : h = Head(list[b]) /\ q = Tail(list[b])
    OBVIOUS
  <2>2. /\ s' = [s EXCEPT ![g] = h] /\ list' = [list EXCEPT ![b] = q] /\ list[b] # <<>>
        /\ pc' = [pc EXCEPT ![g] = "ready"] /\ UNCHANGED <<sema, arg, flag>>
    BY <1>1, <1>2, <1>4, <2>1 DEF Goto
  <2> QED BY <1>1, <1>2, <2>1, <2>2, ReleaseHeadSimulates
<1> QED BY <1>3, <1>4 DEF ReleaseDequeue

\* The waiter is made runnable; with handoff this is where it gets its ticket.
LEMMA ReleaseReadySimulates ==
    ASSUME IInv, IInv', NEW g \in Goroutine, ReleaseReady(g)  PROVE Simulates
<1>1. PICK b \in Addr : b = arg[g]
  BY ArgIsAddr DEF ReleaseReady
<1>2. pc[g] = "ready" /\ list' = list /\ flag[g] \in BOOLEAN
  BY DEF ReleaseReady, IInv, TypeOK
<1>3. PICK h \in Goroutine : h = s[g]
  BY <1>2 DEF IInv, CallInv, TypeOK
<1>4. /\ pc[h] = "parked" /\ arg[h] = b /\ h # g /\ h \notin Members(list[b]) /\ ticket[h] = 0
      /\ \A k \in Goroutine \ {g} : s[k] # h
  BY <1>1, <1>2, <1>3 DEF IInv, TargetInv, CallInv
<1>5. /\ \A x \in Goroutine \ {g, h} : pc'[x] = pc[x]
      /\ \A x \in Goroutine \ {g} : arg'[x] = arg[x] /\ flag'[x] = flag[x] /\ s'[x] = s[x]
      /\ pc'[g] = "idle" /\ arg'[g] = Nil /\ flag'[g] = FALSE /\ s'[g] = Nil /\ pc'[h] = "awake"
  BY <1>3, <1>4 DEF ReleaseReady, IInv, TypeOK
<1>6. Only(g)
  BY <1>4, <1>5 DEF Only
<1>7. AbsWaitq' = AbsWaitq /\ \A x \in Goroutine : InLine(x)' <=> InLine(x)
  <2>1. \A x \in Goroutine : /\ pc'[x] = "queue" <=> pc[x] = "queue"
                             /\ pc[x] = "queue" => arg'[x] = arg[x] /\ flag'[x] = flag[x]
    BY <1>2, <1>4, <1>5
  <2> QED BY <1>2, <2>1, QueueStays
<1>8. ~InLine(h) /\ ~InLine(h)'
  <2>1. \A a \in Addr : Queued(a) = Members(list[a])
    BY DEF Queued, Members
  <2>2. ~InLine(h)
    BY <1>4, <2>1 DEF InLine, IInv, ListInv
  <2> QED BY <1>7, <2>2
<1>9. /\ \A x \in Goroutine \ {h} : Picked(x)' <=> Picked(x)
      /\ Picked(h) <=> flag[g]
      /\ ~Picked(h)'
  BY <1>2, <1>3, <1>4, <1>5, SemaAssumption DEF Picked
<1>10. /\ AbsSudog[h] = IF flag[g] THEN "picked" ELSE "none"
       /\ AbsSudog'[h] = IF ticket'[h] = 1 THEN "ticket" ELSE "none"
  <2>1. /\ AbsSudog[h] = IF InLine(h) THEN "queued" ELSE IF Picked(h) THEN "picked"
                         ELSE IF ticket[h] = 1 THEN "ticket" ELSE "none"
        /\ AbsSudog'[h] = IF InLine(h)' THEN "queued" ELSE IF Picked(h)' THEN "picked"
                          ELSE IF ticket'[h] = 1 THEN "ticket" ELSE "none"
    BY MappingIs
  <2> QED BY <1>4, <1>8, <1>9, <2>1
<1>11. \A x \in Goroutine \ {h} : ticket'[x] = ticket[x]
  BY <1>3 DEF ReleaseReady, IInv, TypeOK
<1>12. /\ AbsSudog' = [AbsSudog EXCEPT ![h] = AbsSudog'[h]]
       /\ AbsSudog = [AbsSudog EXCEPT ![h] = AbsSudog[h]]
  BY <1>7, <1>9, <1>11, SudogMaps
<1>13. CASE ~flag[g]
  <2>1. sema' = sema /\ ticket' = ticket
    BY <1>13 DEF ReleaseReady
  <2>2. AbsSudog' = AbsSudog
    BY <1>4, <1>10, <1>12, <1>13, <2>1
  <2>3. UNCHANGED <<AbsCall, AbsArg, AbsFlag, AbsS>>
    <3>1. /\ CallOf(pc'[g], flag'[g]) = CallOf(pc[g], flag[g])
          /\ Done(pc[g], flag[g]) /\ ~Done(pc'[g], flag'[g])
      BY <1>2, <1>5, <1>13 DEF CallOf, Done
    <3> QED BY <1>5, <1>6, <3>1, HiddenMaps
  <2> QED BY <1>7, <2>1, <2>2, <2>3, Invisible
<1>14. CASE flag[g]
  <2>1. Abs!Return(g)
    BY <1>5, <1>6, ReturnMaps
  <2>2. AbsCall[g] = "handoff" /\ AbsArg[g] = b /\ AbsS[g] = h
    <3>1. ~Done(pc[g], flag[g]) /\ CallOf(pc[g], flag[g]) = "handoff"
      BY <1>2, <1>14 DEF Done, CallOf
    <3> QED BY <1>1, <1>3, <3>1, MappingIs
  <2>3. \/ cansemacquire(b) /\ ticket'[h] = 1
        \/ sema[b] = 0 /\ sema' = sema /\ ticket'[h] = 0
    BY <1>1, <1>3, <1>4, <1>14 DEF ReleaseReady, IInv, TypeOK
  <2>4. CASE cansemacquire(b) /\ ticket'[h] = 1
    <3>1. Abs!cansemacquire(b)
      BY <2>4 DEF cansemacquire, Abs!cansemacquire
    <3>2. Abs!SemHandoff(h, b)
      BY <1>7, <1>10, <1>12, <1>14, <2>4, <3>1 DEF Abs!SemHandoff
    <3>3. Abs!Handoff(g)
      BY <2>1, <2>2, <3>2 DEF Abs!Handoff
    <3> QED BY <3>3 DEF Simulates, Abs!SpecNext
  <2>5. CASE sema[b] = 0 /\ sema' = sema /\ ticket'[h] = 0
    <3>1. Abs!SemHandoff(h, b)
      BY <1>7, <1>10, <1>12, <1>14, <2>5 DEF Abs!SemHandoff
    <3>2. Abs!Handoff(g)
      BY <2>1, <2>2, <3>1 DEF Abs!Handoff
    <3> QED BY <3>2 DEF Simulates, Abs!SpecNext
  <2> QED BY <2>3, <2>4, <2>5
<1> QED BY <1>2, <1>13, <1>14

\* sema.go, with its lock and its unlocked counter, is the semaphore that the models of
\* package sync are built on: every step is a step of SemaphoreSpec or is invisible.
THEOREM SemaIsSemaphore == Spec => ImplementsSemaphore
<1>1. Init => Abs!SpecInit
  <2> SUFFICES ASSUME Init  PROVE Abs!SpecInit
    OBVIOUS
  <2>1. /\ AbsCall = [g \in Goroutine |-> "idle"] /\ AbsArg = [g \in Goroutine |-> Nil]
        /\ AbsFlag = [g \in Goroutine |-> FALSE] /\ AbsS = [g \in Goroutine |-> Nil]
    BY DEF Init, AbsCall, AbsArg, AbsFlag, AbsS, Finished
  <2>2. AbsWaitq = [a \in Addr |-> <<>>]
    BY DEF Init, AbsWaitq
  <2>3. AbsSudog = [g \in Goroutine |-> "none"]
    BY SemaAssumption DEF Init, AbsSudog, Queued
  <2>4. sema = [a \in Addr |-> 0]
    BY DEF Init
  <2> QED BY <2>1, <2>2, <2>3, <2>4 DEF Abs!SpecInit, Abs!SemaInit
<1>2. IInv /\ IInv' /\ [Next]_vars => [Abs!SpecNext]_(Abs!specVars)
  <2> SUFFICES ASSUME IInv, IInv', [Next]_vars  PROVE Simulates
    BY DEF Simulates
  <2>1. ASSUME NEW g \in Goroutine, NEW a \in Addr, NEW f \in BOOLEAN,
               Semacquire(g, a, f) \/ Semrelease(g, a, f)
        PROVE  Simulates
    BY <2>1, CallSimulates
  <2>2. ASSUME NEW g \in Goroutine, AcquireStep(g)  PROVE Simulates
    BY <2>2, AcquireEasySimulates, AcquireLockSimulates, AcquireCheckSimulates,
       AcquireUndoSimulates, AcquireQueueSimulates, AcquireAwakeSimulates DEF AcquireStep
  <2>3. ASSUME NEW g \in Goroutine, ReleaseStep(g)  PROVE Simulates
    BY <2>3, ReleaseXaddSimulates, ReleaseLoadSimulates, ReleaseDequeueSimulates,
       ReleaseReadySimulates DEF ReleaseStep
  <2>4. CASE UNCHANGED vars
    <3>1. /\ AbsCall' = AbsCall /\ AbsArg' = AbsArg /\ AbsFlag' = AbsFlag /\ AbsS' = AbsS
      BY <2>4 DEF vars, AbsCall, AbsArg, AbsFlag, AbsS, Finished
    <3>2. AbsWaitq' = AbsWaitq /\ AbsSudog' = AbsSudog
      BY <2>4 DEF vars, AbsWaitq, AbsSudog, Queued, Enqueue
    <3> QED BY <2>4, <3>1, <3>2, Invisible DEF vars
  <2> QED BY <2>1, <2>2, <2>3, <2>4 DEF Next
<1> QED BY <1>1, <1>2, SemaInductive, PTL DEF Spec, Abs!Spec, ImplementsSemaphore
=============================================================================
