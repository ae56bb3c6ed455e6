------------------------ MODULE WaitGroupTreapProofs ------------------------
(***************************************************************************)
(* WaitGroup and SemaTreap, one after the other; they do not depend on each *)
(* other.                                                                   *)
(*                                                                         *)
(* What holds of WaitGroup for every number of goroutines and every bound   *)
(* on the counter: callers that keep to the rules meet no panic, no sleeper *)
(* and no unit of a round is left for the next, and Wait returns only when  *)
(* no task is running.                                                      *)
(*                                                                         *)
(* Three facts carry the proof.  The counter is the number of running tasks *)
(* and of calls of Add by such tasks (CountInv), so it is zero only when    *)
(* nobody but an outsider can add.  An outsider does not meet a waiter      *)
(* (OutsideInv).  Hence nothing moves the state from the Add that found the *)
(* counter at zero to its Store (FinishInv), nor as long as one unit of the *)
(* round is on its way (RoundInv), which is what lets Store(0) forget the   *)
(* wait count and a woken waiter insist on a state of zero.                 *)
(*                                                                         *)
(* What holds of SemaTreap for all finite sets of sudogs, and all sets of   *)
(* addresses and of tickets: TreapInv is an invariant, queue and dequeue    *)
(* implement the lists of WaitLists, and their loops end.                   *)
(*                                                                         *)
(* The invariant Rep(Q, D) speaks of a list Q[a] for each address and of a  *)
(* set D[n] for the subtree at each node, related to the pointers one link  *)
(* at a time, so that a step changes them by a formula and no induction is  *)
(* needed.  A rotation to the left is one to the right in the mirror, with  *)
(* the keys negated.  Only Represents needs induction, to show that Q and D *)
(* are what the recursive Chain and Below compute.                          *)
(***************************************************************************)
EXTENDS WaitGroup, SemaTreap, FiniteSetTheorems, SequenceTheorems, WellFoundedInduction, TLAPS

-----------------------------------------------------------------------------
(* How a count changes when one element joins or leaves *)

\* A part of a finite set has a number of elements, zero only if it is empty.
LEMMA CountNat ==
    ASSUME NEW G, IsFiniteSet(G), NEW S \in SUBSET G
    PROVE  IsFiniteSet(S) /\ Cardinality(S) \in Nat /\ (Cardinality(S) = 0 <=> S = {})
  BY FS_Subset, FS_CardinalityType, FS_EmptySet

\* One element joins.
LEMMA CountJoin ==
    ASSUME NEW S, IsFiniteSet(S), NEW x, x \notin S, NEW T, T = S \cup {x}
    PROVE  IsFiniteSet(T) /\ Cardinality(T) = Cardinality(S) + 1
  BY FS_AddElement

\* One element leaves.
LEMMA CountLeave ==
    ASSUME NEW S, IsFiniteSet(S), NEW x, x \in S, NEW T, T = S \ {x}
    PROVE  IsFiniteSet(T) /\ Cardinality(T) = Cardinality(S) - 1
  BY FS_RemoveElement

\* One element may join or leave.
LEMMA CountStep ==
    ASSUME NEW S, IsFiniteSet(S), NEW x, NEW T, T \ {x} = S \ {x}
    PROVE  /\ IsFiniteSet(T) /\ Cardinality(S) \in Nat /\ Cardinality(T) \in Nat
           /\ Cardinality(T) + (IF x \in S THEN 1 ELSE 0)
                = Cardinality(S) + (IF x \in T THEN 1 ELSE 0)
<1>1. Cardinality(S) \in Nat
  BY FS_CardinalityType
<1>2. CASE x \in T /\ x \notin S
  <2>1. T = S \cup {x}
    BY <1>2
  <2> QED BY <1>1, <1>2, <2>1, CountJoin
<1>3. CASE x \notin T /\ x \in S
  <2>1. T = S \ {x}
    BY <1>3
  <2>2. IsFiniteSet(T) /\ Cardinality(T) = Cardinality(S) - 1
    BY <1>3, <2>1, CountLeave
  <2>3. Cardinality(T) \in Nat
    BY <2>2, FS_CardinalityType
  <2> QED BY <1>1, <1>3, <2>2, <2>3
<1>4. CASE x \in T <=> x \in S
  <2>1. T = S
    BY <1>4
  <2> QED BY <1>1, <1>4, <2>1
<1> QED BY <1>2, <1>3, <1>4

\* The pairs of one x with the numbers 1 to k are k.
LEMMA CountPairs ==
    ASSUME NEW x, NEW k \in Nat
    PROVE  IsFiniteSet({x} \X (1..k)) /\ Cardinality({x} \X (1..k)) = k
<1>1. IsFiniteSet({x}) /\ Cardinality({x}) = 1
  BY FS_Singleton
<1>2. IsFiniteSet(1..k) /\ Cardinality(1..k) = k
  BY FS_Interval
<1>3. /\ IsFiniteSet({x} \X (1..k))
      /\ Cardinality({x} \X (1..k)) = Cardinality({x}) * Cardinality(1..k)
  BY <1>1, <1>2, FS_Product, Zenon
<1>4. Cardinality({x}) * Cardinality(1..k) = 1 * k
  BY <1>1, <1>2, Zenon
<1>5. 1 * k = k
  OBVIOUS
<1> QED BY <1>3, <1>4, <1>5, Zenon

-----------------------------------------------------------------------------
(* The inductive invariant *)

Sleepers == At({"sleep"})

\* Calls of Add by a running task, and calls that will raise the counter.
Callers == {g \in At({"add"}) : kind[g] # "outside"}
Growing == {g \in At({"add"}) : kind[g] # "done"}

\* The counter counts the running tasks and the tasks inside a call.
CountInv == v = tasks + Cardinality(Callers)

BoundInv == v + Cardinality(Growing) <= MaxTasks

\* An Add from outside meets no Wait.
OutsideInv ==
    \A g \in Goroutine : pc[g] = "add" /\ kind[g] = "outside" => Waiting = {}

\* Only Done wakes the waiters.
KindInv ==
    \A g \in Goroutine : pc[g] \in {"check", "store", "release", "dequeue"} => kind[g] = "done"

\* A state that a waiter registers on has a counter that is not zero.
SeenInv == \A g \in Goroutine : pc[g] = "cas" => seen[g].v # 0

\* The state stays as the last Done found it until it is stored.
FinishInv ==
    /\ \A g \in Goroutine : pc[g] \in {"check", "store"} =>
          v = 0 /\ w >= 1 /\ seen[g] = [v |-> v, w |-> w]
    /\ \A g, h \in At({"check", "store"}) : g = h

\* The loop around runtime_Semrelease.
LoopInv ==
    \A g \in Goroutine : pc[g] \in {"release", "dequeue"} => left[g] \in 1..Cardinality(Goroutine)

\* As long as one unit of a round is on its way the state is zero.
RoundInv ==
    sema[wgSema] > 0 \/ Due # {} \/ At({"woken"}) # {} => v = 0 /\ w = 0

\* Nobody is handed a unit directly.
SudogInv == \A g \in Goroutine : sudog[g] \in {"none", "queued"}

IInv ==
    /\ TypeOK
    /\ NoPanic
    /\ SleepersCounted
    /\ CountInv
    /\ BoundInv
    /\ OutsideInv
    /\ KindInv
    /\ SeenInv
    /\ FinishInv
    /\ LoopInv
    /\ RoundInv
    /\ SudogInv

-----------------------------------------------------------------------------
(* Counting *)

\* The sets of goroutines that the invariants count.
LEMMA Finite ==
    /\ IsFiniteSet(Goroutine) /\ Cardinality(Goroutine) \in Nat /\ MaxTasks \in Nat
    /\ IsFiniteSet(Sleepers) /\ IsFiniteSet(Callers) /\ IsFiniteSet(Growing)
    /\ Cardinality(Sleepers) \in 0..Cardinality(Goroutine)
    /\ Cardinality(Callers) \in Nat /\ Cardinality(Growing) \in Nat
    /\ Cardinality(Sleepers) = 0 <=> Sleepers = {}
    /\ Cardinality(Callers) = 0 <=> Callers = {}
<1>1. IsFiniteSet(Goroutine) /\ Cardinality(Goroutine) \in Nat /\ MaxTasks \in Nat
  BY WaitGroupAssumption, FS_CardinalityType
<1>2. /\ Sleepers \in SUBSET Goroutine /\ Callers \in SUBSET Goroutine
      /\ Growing \in SUBSET Goroutine
  BY DEF Sleepers, Callers, Growing, At
<1>3. Cardinality(Sleepers) <= Cardinality(Goroutine)
  BY <1>1, <1>2, FS_Subset
<1> QED BY <1>1, <1>2, <1>3, CountNat

\* A goroutine that moves leaves one set and joins another.
LEMMA Move ==
    ASSUME NEW g \in Goroutine,
           \A x \in Goroutine : x # g => pc'[x] = pc[x] /\ kind'[x] = kind[x]
    PROVE  /\ Cardinality(Sleepers') + (IF g \in Sleepers THEN 1 ELSE 0)
                = Cardinality(Sleepers) + (IF g \in Sleepers' THEN 1 ELSE 0)
           /\ Cardinality(Callers') + (IF g \in Callers THEN 1 ELSE 0)
                = Cardinality(Callers) + (IF g \in Callers' THEN 1 ELSE 0)
           /\ Cardinality(Growing') + (IF g \in Growing THEN 1 ELSE 0)
                = Cardinality(Growing) + (IF g \in Growing' THEN 1 ELSE 0)
           /\ Cardinality(Sleepers') \in 0..Cardinality(Goroutine)
           /\ Cardinality(Callers') \in Nat /\ Cardinality(Growing') \in Nat
<1>1. /\ Sleepers' \ {g} = Sleepers \ {g} /\ Callers' \ {g} = Callers \ {g}
      /\ Growing' \ {g} = Growing \ {g}
  BY DEF Sleepers, Callers, Growing, At
<1>2. Sleepers' \in SUBSET Goroutine
  BY DEF Sleepers, At
<1>3. Cardinality(Sleepers') <= Cardinality(Goroutine)
  BY <1>2, Finite, FS_Subset
<1> HIDE DEF Sleepers, Callers, Growing
<1>4. /\ Cardinality(Sleepers') \in Nat
      /\ Cardinality(Sleepers') + (IF g \in Sleepers THEN 1 ELSE 0)
           = Cardinality(Sleepers) + (IF g \in Sleepers' THEN 1 ELSE 0)
  BY <1>1, Finite, CountStep
<1>5. /\ Cardinality(Callers') \in Nat
      /\ Cardinality(Callers') + (IF g \in Callers THEN 1 ELSE 0)
           = Cardinality(Callers) + (IF g \in Callers' THEN 1 ELSE 0)
  BY <1>1, Finite, CountStep
<1>6. /\ Cardinality(Growing') \in Nat
      /\ Cardinality(Growing') + (IF g \in Growing THEN 1 ELSE 0)
           = Cardinality(Growing) + (IF g \in Growing' THEN 1 ELSE 0)
  BY <1>1, Finite, CountStep
<1> QED BY <1>3, <1>4, <1>5, <1>6, Finite

\* What an Add has still to post.
LEMMA DueFinite == IsFiniteSet(Due) /\ Cardinality(Due) \in Nat /\ (Cardinality(Due) = 0 <=> Due = {})
<1>1. IsFiniteSet(1..Cardinality(Goroutine))
  BY Finite, FS_Interval
<1>2. IsFiniteSet(Goroutine \X (1..Cardinality(Goroutine)))
  BY <1>1, Finite, FS_Product, Zenon
<1>3. Due \in SUBSET (Goroutine \X (1..Cardinality(Goroutine)))
  BY DEF Due
<1> QED BY <1>2, <1>3, CountNat, Zenon

\* Nothing becomes due and nothing is posted.
LEMMA DueStays ==
    ASSUME \A x \in Goroutine : Unposted(x)' = Unposted(x)
    PROVE  Due' = Due
  BY DEF Due

\* The waiters of a round become due together.
LEMMA DueBegins ==
    ASSUME NEW g \in Goroutine, NEW k \in 1..Cardinality(Goroutine), Unposted(g)' = k,
           \A x \in Goroutine : x # g => Unposted(x)' = 0
    PROVE  Cardinality(Due') = k
<1>1. Due' = {g} \X (1..k)
  BY Finite DEF Due
<1>2. k \in Nat
  BY Finite
<1>3. Cardinality({g} \X (1..k)) = k
  BY <1>2, CountPairs
<1> QED BY <1>1, <1>3

\* A unit is posted.
LEMMA DueLoses ==
    ASSUME NEW g \in Goroutine, NEW k \in 1..Cardinality(Goroutine),
           Unposted(g) = k, Unposted(g)' = k - 1,
           \A x \in Goroutine : x # g => Unposted(x)' = Unposted(x)
    PROVE  Due # {} /\ Cardinality(Due') = Cardinality(Due) - 1
<1>1. Due' = Due \ {<<g, k>>}
  BY Finite DEF Due
<1>2. <<g, k>> \in Due
  BY Finite DEF Due
<1> QED BY <1>1, <1>2, CountLeave, DueFinite

\* Nothing is due: then nobody has a unit to post.
LEMMA NothingDue ==
    ASSUME IInv, Due = {}, NEW x \in Goroutine
    PROVE  Unposted(x) = 0
<1> USE DEF IInv
<1>1. CASE pc[x] \in {"release", "dequeue"}
  <2>1. left[x] \in 1..Cardinality(Goroutine)
    BY <1>1 DEF LoopInv
  <2>2. Unposted(x) = IF pc[x] = "release" THEN left[x] ELSE left[x] - 1
    BY <1>1 DEF Unposted
  <2>3. Unposted(x) \in 1..Cardinality(Goroutine) => <<x, Unposted(x)>> \in Due
    BY DEF Due
  <2> QED BY <2>1, <2>2, <2>3, Finite
<1>2. CASE pc[x] \notin {"release", "dequeue"}
  BY <1>2 DEF Unposted
<1> QED BY <1>1, <1>2

-----------------------------------------------------------------------------
(* What the invariant says of a moment *)

\* Units and wait count together are no more than the sleepers.
LEMMA Numbers ==
    ASSUME IInv
    PROVE  /\ v \in Nat /\ w \in Nat /\ tasks \in Nat /\ sema[wgSema] \in Nat
           /\ Cardinality(Due) \in Nat
           /\ Cardinality(Sleepers) = w + sema[wgSema] + Cardinality(Due)
           /\ v = tasks + Cardinality(Callers)
  BY DueFinite, Finite DEF IInv, TypeOK, SemaTypeOK, SleepersCounted, CountInv, Sleepers

\* No Wait is in progress: the wait count is zero and no unit is on its way.
LEMMA NobodyWaits ==
    ASSUME IInv, Waiting = {}
    PROVE  w = 0 /\ sema[wgSema] = 0 /\ Due = {} /\ At({"woken"}) = {}
<1>1. Sleepers = {} /\ At({"woken"}) = {}
  BY DEF Waiting, Sleepers, At
<1> QED BY <1>1, Numbers, Finite, DueFinite

\* A task that calls keeps the counter above zero.
LEMMA CallerCounts ==
    ASSUME IInv, NEW g \in Goroutine, pc[g] = "add", kind[g] # "outside"
    PROVE  v >= 1
<1>1. Callers # {}
  BY DEF Callers, At
<1>2. Cardinality(Callers) \in Nat /\ Cardinality(Callers) # 0
  BY <1>1, Finite
<1>3. v = tasks + Cardinality(Callers) /\ tasks \in Nat
  BY Numbers
<1> QED BY <1>2, <1>3

\* Nobody adds in the state that the last Done found.
LEMMA FinishAlone ==
    ASSUME IInv, NEW g \in Goroutine, pc[g] \in {"check", "store"}
    PROVE  /\ v = 0 /\ w >= 1 /\ seen[g] = [v |-> v, w |-> w]
           /\ \A x \in Goroutine : pc[x] # "add"
           /\ \A x \in Goroutine : x # g => pc[x] \notin {"check", "store"}
           /\ sema[wgSema] = 0 /\ Due = {} /\ At({"woken"}) = {}
<1> USE DEF IInv
<1>1. v = 0 /\ w >= 1 /\ seen[g] = [v |-> v, w |-> w]
  BY DEF FinishInv
<1>2. sema[wgSema] = 0 /\ Due = {} /\ At({"woken"}) = {}
  BY <1>1, Numbers DEF RoundInv
<1>3. ASSUME NEW x \in Goroutine, pc[x] = "add"
      PROVE  FALSE
  <2>1. kind[x] = "outside"
    BY <1>1, <1>3, CallerCounts
  <2>2. Waiting = {}
    BY <1>3, <2>1 DEF OutsideInv
  <2> QED BY <1>1, <2>2, NobodyWaits
<1>4. \A x \in Goroutine : x # g => pc[x] \notin {"check", "store"}
  BY DEF FinishInv, At
<1> QED BY <1>1, <1>2, <1>3, <1>4

\* The counter and the tasks are within the bound because of what they count.
LEMMA InBounds ==
    ASSUME v' \in Int, tasks' \in Nat, CountInv', BoundInv',
           Cardinality(Callers') \in Nat, Cardinality(Growing') \in Nat
    PROVE  v' \in 0..MaxTasks /\ tasks' \in 0..MaxTasks
<1>1. v' = tasks' + Cardinality(Callers') /\ v' + Cardinality(Growing') <= MaxTasks
  BY DEF CountInv, BoundInv
<1> QED BY <1>1, Finite

\* A step of one goroutine that touches neither the wait count nor the semaphore.
LEMMA Quiet ==
    ASSUME IInv, NEW g \in Goroutine, NEW l \in PC \ {"sleep", "release", "dequeue", "woken", "panic"},
           pc[g] \notin {"sleep", "release", "dequeue"}, Goto(g, l),
           UNCHANGED <<w, left, sem>>,
           kind' \in [Goroutine -> Kind], \A x \in Goroutine : x # g => kind'[x] = kind[x],
           seen' \in [Goroutine -> State], v' \in Int, tasks' \in Nat, CountInv', BoundInv'
    PROVE  /\ TypeOK' /\ NoPanic' /\ SleepersCounted' /\ LoopInv' /\ SudogInv'
           /\ Due' = Due /\ At({"woken"})' \subseteq At({"woken"})
<1> USE DEF IInv
<1>1. pc' \in [Goroutine -> PC] /\ pc'[g] = l /\ \A x \in Goroutine : x # g => pc'[x] = pc[x]
  BY DEF Goto, TypeOK
<1>2. w' = w /\ left' = left /\ sema' = sema /\ waitq' = waitq /\ sudog' = sudog
  BY DEF sem
<1>3. TypeOK'
  BY <1>1, <1>2, InBounds, Move DEF TypeOK, SemaTypeOK
<1>4. NoPanic'
  BY <1>1 DEF NoPanic, At
<1>5. \A x \in Goroutine : Unposted(x)' = Unposted(x)
  BY <1>1, <1>2 DEF Unposted
<1>6. Due' = Due
  BY <1>5, DueStays
<1>7. At({"sleep"})' = At({"sleep"})
  BY <1>1 DEF At
<1>8. SleepersCounted'
  BY <1>2, <1>6, <1>7 DEF SleepersCounted
<1>9. LoopInv' /\ SudogInv'
  BY <1>1, <1>2 DEF LoopInv, SudogInv
<1>10. At({"woken"})' \subseteq At({"woken"})
  BY <1>1 DEF At
<1> QED BY <1>3, <1>4, <1>6, <1>8, <1>9, <1>10

-----------------------------------------------------------------------------
(* Add and Done *)

\* A call of Add begins.
LEMMA CallKeeps ==
    ASSUME IInv, NEW g \in Goroutine, NEW k \in Kind, CallAdd(g, k),
           k # "outside" => tasks > 0 /\ tasks' = tasks - 1,
           k = "outside" => Waiting = {} /\ tasks' = tasks,
           k # "done" => Room
    PROVE  IInv'
<1> USE DEF IInv
<1>1. /\ pc[g] = "idle" /\ Goto(g, "add") /\ kind' = [kind EXCEPT ![g] = k]
      /\ v' = v /\ w' = w /\ seen' = seen /\ left' = left /\ UNCHANGED <<w, left, sem>> /\ sema' = sema
  BY DEF CallAdd, sem
<1>2. pc'[g] = "add" /\ \A x \in Goroutine : x # g => pc'[x] = pc[x]
  BY <1>1 DEF Goto, TypeOK
<1>3. /\ kind' \in [Goroutine -> Kind] /\ kind'[g] = k
      /\ \A x \in Goroutine : x # g => kind'[x] = kind[x]
  BY <1>1 DEF TypeOK
<1>4. /\ Cardinality(Callers') = Cardinality(Callers) + (IF k = "outside" THEN 0 ELSE 1)
      /\ Cardinality(Growing') = Cardinality(Growing) + (IF k = "done" THEN 0 ELSE 1)
  <2>1. g \notin Callers /\ g \notin Growing /\ g \notin Sleepers /\ g \notin Sleepers'
    BY <1>1, <1>2 DEF Callers, Growing, Sleepers, At
  <2>2. (g \in Callers' <=> k # "outside") /\ (g \in Growing' <=> k # "done")
    BY <1>2, <1>3 DEF Callers, Growing, At
  <2> QED BY <1>2, <1>3, <2>1, <2>2, Move, Finite
<1>5. tasks' \in Nat /\ tasks' = tasks - (IF k = "outside" THEN 0 ELSE 1)
  BY Numbers DEF Kind
<1>6. CountInv'
  BY <1>1, <1>4, <1>5, Numbers, Finite DEF CountInv
<1>7. BoundInv'
  <2>1. CASE k = "done"
    BY <2>1, <1>1, <1>4, Finite DEF BoundInv
  <2>2. CASE k # "done"
    <3>1. v + Cardinality(Growing) < MaxTasks
      BY <2>2 DEF Room, Growing
    <3> QED BY <2>2, <3>1, <1>1, <1>4, Numbers, Finite DEF BoundInv
  <2> QED BY <2>1, <2>2
<1>8. "add" \in PC \ {"sleep", "release", "dequeue", "woken", "panic"}
  BY DEF PC
<1>9. /\ TypeOK' /\ NoPanic' /\ SleepersCounted' /\ LoopInv' /\ SudogInv'
      /\ Due' = Due /\ At({"woken"})' \subseteq At({"woken"})
  <2>1. seen' \in [Goroutine -> State] /\ v' \in Int
    BY <1>1 DEF TypeOK
  <2> QED BY <1>1, <1>3, <1>5, <1>6, <1>7, <1>8, <2>1, Quiet
<1>10. OutsideInv'
  <2>1. Waiting' = Waiting
    BY <1>1, <1>2 DEF Waiting, At
  <2> QED BY <1>2, <1>3, <2>1 DEF OutsideInv
<1>11. KindInv' /\ SeenInv' /\ FinishInv'
  BY <1>1, <1>2, <1>3 DEF KindInv, SeenInv, FinishInv, At
<1>12. RoundInv'
  BY <1>1, <1>9 DEF RoundInv
<1> QED BY <1>6, <1>7, <1>9, <1>10, <1>11, <1>12

LEMMA CallsKeep ==
    ASSUME IInv, NEW g \in Goroutine, AddInTask(g) \/ AddOutside(g) \/ Done(g)
    PROVE  IInv'
<1>1. "task" \in Kind /\ "outside" \in Kind /\ "done" \in Kind
  BY DEF Kind
<1>2. CASE AddInTask(g)
  <2>1. CallAdd(g, "task") /\ Room /\ tasks > 0 /\ tasks' = tasks - 1
    BY <1>2 DEF AddInTask
  <2> QED BY <1>1, <2>1, CallKeeps
<1>3. CASE AddOutside(g)
  <2>1. CallAdd(g, "outside") /\ Room /\ Waiting = {} /\ tasks' = tasks
    BY <1>3 DEF AddOutside
  <2> QED BY <1>1, <2>1, CallKeeps
<1>4. CASE Done(g)
  <2>1. CallAdd(g, "done") /\ tasks > 0 /\ tasks' = tasks - 1
    BY <1>4 DEF Done
  <2> QED BY <1>1, <2>1, CallKeeps
<1> QED BY <1>2, <1>3, <1>4

\* The addition: it panics for nobody, returns, or finds the waiters of the round.
LEMMA AddKeeps ==
    ASSUME IInv, NEW g \in Goroutine, Add(g)
    PROVE  IInv'
<1> USE DEF IInv
<1> DEFINE d == Delta(kind[g])
<1>1. /\ pc[g] = "add" /\ v' = v + d /\ w' = w /\ kind' = kind /\ left' = left
      /\ UNCHANGED <<w, left, sem>> /\ sema' = sema
  BY DEF Add, sem
<1>2. /\ kind[g] \in Kind /\ d = (IF kind[g] = "done" THEN -1 ELSE 1)
      /\ v \in Nat /\ w \in Nat /\ tasks \in Nat
  BY Numbers DEF TypeOK, Delta
<1> HIDE DEF d
<1>3. kind[g] # "outside" => v >= 1
  BY <1>1, CallerCounts
<1>4. kind[g] = "outside" => w = 0 /\ Waiting = {}
  BY <1>1, NobodyWaits DEF OutsideInv
<1>5. v' >= 0 /\ ~(w # 0 /\ d > 0 /\ v' = d) /\ v' \in Int
  BY <1>1, <1>2, <1>3, <1>4
<1>6. \A x \in Goroutine : pc[x] \notin {"check", "store"}
  BY <1>1, FinishAlone
<1>8. sema[wgSema] = 0 /\ Due = {} /\ At({"woken"}) = {}
  <2>1. CASE kind[g] = "outside"
    BY <2>1, <1>4, NobodyWaits
  <2>2. CASE kind[g] # "outside"
    BY <2>2, <1>3, Numbers DEF RoundInv
  <2> QED BY <2>1, <2>2
<1>9. \/ /\ v' > 0 \/ w = 0
         /\ Return(g) /\ seen' = seen
      \/ /\ v' = 0 /\ w # 0
         /\ seen' = [seen EXCEPT ![g] = [v |-> v', w |-> w]] /\ Goto(g, "check") /\ tasks' = tasks
  BY <1>5, <1>1 DEF Add, d
<1>10. PICK l \in {"idle", "check"} : Goto(g, l) /\ (l = "check" => v' = 0 /\ w # 0)
  BY <1>9 DEF Return
<1>11. pc'[g] = l /\ \A x \in Goroutine : x # g => pc'[x] = pc[x]
  BY <1>10 DEF Goto, TypeOK
<1>12. /\ Cardinality(Callers') = Cardinality(Callers) - (IF kind[g] = "outside" THEN 0 ELSE 1)
       /\ Cardinality(Growing') = Cardinality(Growing) - (IF kind[g] = "done" THEN 0 ELSE 1)
  <2>1. g \notin Callers' /\ g \notin Growing' /\ g \notin Sleepers /\ g \notin Sleepers'
    BY <1>1, <1>11 DEF Callers, Growing, Sleepers, At
  <2>2. (g \in Callers <=> kind[g] # "outside") /\ (g \in Growing <=> kind[g] # "done")
    BY <1>1 DEF Callers, Growing, At
  <2> QED BY <1>1, <1>11, <2>1, <2>2, Move, Finite
<1>13. tasks' = tasks + (CASE kind[g] = "task" -> 2 [] kind[g] = "done" -> 0 [] OTHER -> 1)
  <2>1. CASE Return(g)
    BY <2>1 DEF Return
  <2>2. CASE v' = 0 /\ w # 0 /\ tasks' = tasks
    <3>1. kind[g] = "done"
      BY <1>1, <1>2, <1>4, <2>2
    <3> QED BY <1>2, <2>2, <3>1
  <2> QED BY <1>9, <2>1, <2>2
<1>14. l = "check" => kind[g] = "done"
  BY <1>1, <1>2, <1>4, <1>10
<1>15. tasks' \in Nat
  BY <1>2, <1>13 DEF Kind
<1>16. CountInv'
  BY <1>1, <1>2, <1>12, <1>13, Numbers, Finite DEF CountInv, Kind
<1>17. BoundInv'
  BY <1>1, <1>2, <1>12, Finite DEF BoundInv
<1>18. /\ seen' \in [Goroutine -> State]
       /\ \A x \in Goroutine : x # g => seen'[x] = seen[x]
       /\ l = "check" => seen'[g] = [v |-> v', w |-> w]
  <2>1. [v |-> v', w |-> w] \in State
    BY <1>2, <1>5 DEF State
  <2>2. l = "check" => seen' = [seen EXCEPT ![g] = [v |-> v', w |-> w]]
    <3>1. ASSUME l = "check" PROVE ~Return(g)
      BY <3>1, <1>11 DEF Return, Goto, TypeOK
    <3> QED BY <1>9, <3>1
  <2> QED BY <1>9, <2>1, <2>2 DEF TypeOK
<1>19. /\ TypeOK' /\ NoPanic' /\ SleepersCounted' /\ LoopInv' /\ SudogInv'
       /\ Due' = Due /\ At({"woken"})' \subseteq At({"woken"})
  <2>1. l \in PC \ {"sleep", "release", "dequeue", "woken", "panic"}
    BY DEF PC
  <2>2. kind' \in [Goroutine -> Kind] /\ \A x \in Goroutine : x # g => kind'[x] = kind[x]
    BY <1>1 DEF TypeOK
  <2> QED BY <1>1, <1>5, <1>10, <1>15, <1>16, <1>17, <1>18, <2>1, <2>2, Quiet
<1>20. OutsideInv'
  <2>1. Waiting' = Waiting
    BY <1>1, <1>11 DEF Waiting, At
  <2> QED BY <1>1, <1>11, <2>1 DEF OutsideInv
<1>21. KindInv' /\ SeenInv'
  BY <1>1, <1>11, <1>14, <1>18 DEF KindInv, SeenInv
<1>22. FinishInv'
  <2>1. \A x \in Goroutine : pc'[x] \in {"check", "store"} => x = g /\ l = "check"
    BY <1>6, <1>11
  <2>2. w >= 1 \/ l # "check"
    BY <1>2, <1>10
  <2> QED BY <1>1, <1>10, <1>18, <2>1, <2>2 DEF FinishInv, At
<1>23. RoundInv'
  BY <1>1, <1>8, <1>19 DEF RoundInv
<1> QED BY <1>16, <1>17, <1>19, <1>20, <1>21, <1>22, <1>23

\* The state is still the one the addition left.
LEMMA AddCheckKeeps ==
    ASSUME IInv, NEW g \in Goroutine, AddCheck(g)
    PROVE  IInv'
<1> USE DEF IInv
<1>1. pc[g] = "check" /\ UNCHANGED <<v, w, tasks, kind, seen, left, sem>> /\ sema' = sema
  BY DEF AddCheck, sem
<1>2. Goto(g, "store")
  BY <1>1, FinishAlone DEF AddCheck
<1>3. pc'[g] = "store" /\ \A x \in Goroutine : x # g => pc'[x] = pc[x]
  BY <1>2 DEF Goto, TypeOK
<1>4. /\ Callers' = Callers /\ Growing' = Growing /\ Waiting' = Waiting
      /\ At({"check", "store"})' = At({"check", "store"})
  BY <1>1, <1>3 DEF Callers, Growing, Waiting, At
<1>5. CountInv' /\ BoundInv'
  BY <1>1, <1>4 DEF CountInv, BoundInv
<1>6. /\ TypeOK' /\ NoPanic' /\ SleepersCounted' /\ LoopInv' /\ SudogInv'
      /\ Due' = Due /\ At({"woken"})' \subseteq At({"woken"})
  <2>1. "store" \in PC \ {"sleep", "release", "dequeue", "woken", "panic"}
    BY DEF PC
  <2>2. /\ v' \in Int /\ tasks' \in Nat /\ seen' \in [Goroutine -> State]
        /\ kind' \in [Goroutine -> Kind] /\ kind' = kind
    BY <1>1 DEF TypeOK
  <2> QED BY <1>1, <1>2, <1>5, <2>1, <2>2, Quiet
<1>7. OutsideInv' /\ KindInv' /\ SeenInv'
  BY <1>1, <1>3, <1>4 DEF OutsideInv, KindInv, SeenInv
<1>8. FinishInv'
  BY <1>1, <1>3, <1>4 DEF FinishInv, At
<1>9. RoundInv'
  BY <1>1, <1>6 DEF RoundInv
<1> QED BY <1>5, <1>6, <1>7, <1>8, <1>9

\* The wait count is forgotten: its units are now due.
LEMMA AddStoreKeeps ==
    ASSUME IInv, NEW g \in Goroutine, AddStore(g)
    PROVE  IInv'
<1> USE DEF IInv
<1>1. /\ pc[g] = "store" /\ v' = 0 /\ w' = 0 /\ left' = [left EXCEPT ![g] = seen[g].w]
      /\ seen' = [seen EXCEPT ![g] = Zero] /\ Goto(g, "release")
      /\ tasks' = tasks /\ kind' = kind /\ sema' = sema /\ waitq' = waitq /\ sudog' = sudog
  BY DEF AddStore, sem
<1>2. /\ v = 0 /\ w >= 1 /\ seen[g] = [v |-> v, w |-> w] /\ sema[wgSema] = 0 /\ Due = {}
      /\ \A x \in Goroutine : x # g => pc[x] \notin {"check", "store"}
  BY <1>1, FinishAlone
<1>3. seen[g].w = w /\ w \in 1..Cardinality(Goroutine)
  BY <1>2, Finite DEF TypeOK
<1>4. /\ pc' \in [Goroutine -> PC] /\ pc'[g] = "release"
      /\ \A x \in Goroutine : x # g => pc'[x] = pc[x]
  BY <1>1 DEF Goto, TypeOK, PC
<1>5. left' \in [Goroutine -> Nat] /\ left'[g] = w /\ \A x \in Goroutine : x # g => left'[x] = left[x]
  BY <1>1, <1>3, Numbers DEF TypeOK
<1>6. /\ Callers' = Callers /\ Growing' = Growing /\ Waiting' = Waiting
      /\ At({"sleep"})' = At({"sleep"})
  BY <1>1, <1>4 DEF Callers, Growing, Waiting, At
<1>7. Zero \in State
  BY DEF Zero, State
<1>8. TypeOK'
  BY <1>1, <1>4, <1>5, <1>7, Finite DEF TypeOK, SemaTypeOK
<1>9. NoPanic'
  BY <1>4 DEF NoPanic, At
<1>10. SleepersCounted'
  <2>1. Unposted(g)' = w
    BY <1>4, <1>5 DEF Unposted
  <2>2. ASSUME NEW x \in Goroutine, x # g PROVE Unposted(x)' = 0
    <3>1. Unposted(x)' = Unposted(x)
      BY <1>4, <1>5, <2>2 DEF Unposted
    <3> QED BY <1>2, <3>1, NothingDue
  <2>3. Cardinality(Due') = w
    BY <1>3, <2>1, <2>2, DueBegins
  <2>4. Cardinality(Due) = 0
    BY <1>2, DueFinite
  <2>5. Cardinality(At({"sleep"})) = w
    BY <1>2, <2>4, Numbers DEF Sleepers
  <2> QED BY <1>1, <1>2, <1>6, <2>3, <2>5, Numbers DEF SleepersCounted
<1>11. CountInv' /\ BoundInv'
  BY <1>1, <1>2, <1>6 DEF CountInv, BoundInv
<1>12. OutsideInv' /\ KindInv' /\ SeenInv'
  BY <1>1, <1>4, <1>6 DEF OutsideInv, KindInv, SeenInv, TypeOK
<1>13. FinishInv'
  BY <1>2, <1>4 DEF FinishInv, At
<1>14. LoopInv'
  BY <1>3, <1>4, <1>5 DEF LoopInv
<1>15. RoundInv' /\ SudogInv'
  BY <1>1 DEF RoundInv, SudogInv
<1> QED BY <1>8, <1>9, <1>10, <1>11, <1>12, <1>13, <1>14, <1>15

\* A unit that was due is posted.
LEMMA SemreleaseKeeps ==
    ASSUME IInv, NEW g \in Goroutine, Semrelease(g)
    PROVE  IInv'
<1> USE DEF IInv
<1>1. /\ pc[g] = "release" /\ Goto(g, "dequeue") /\ sema' = [sema EXCEPT ![wgSema] = sema[wgSema] + 1]
      /\ waitq' = waitq /\ sudog' = sudog /\ UNCHANGED <<v, w, tasks, kind, seen, left>>
  BY DEF Semrelease, SemXadd
<1>2. left[g] \in 1..Cardinality(Goroutine)
  BY <1>1 DEF LoopInv
<1>3. /\ pc' \in [Goroutine -> PC] /\ pc'[g] = "dequeue"
      /\ \A x \in Goroutine : x # g => pc'[x] = pc[x]
  BY <1>1 DEF Goto, TypeOK, PC
<1>4. sema' \in [{wgSema} -> Nat] /\ sema'[wgSema] = sema[wgSema] + 1
  BY <1>1 DEF TypeOK, SemaTypeOK
<1>5. /\ Callers' = Callers /\ Growing' = Growing /\ Waiting' = Waiting
      /\ At({"sleep"})' = At({"sleep"}) /\ At({"check", "store"})' = At({"check", "store"})
  BY <1>1, <1>3 DEF Callers, Growing, Waiting, At
<1>6. TypeOK'
  BY <1>1, <1>3, <1>4 DEF TypeOK, SemaTypeOK
<1>7. NoPanic'
  BY <1>3 DEF NoPanic, At
<1>8. Due # {} /\ Cardinality(Due') = Cardinality(Due) - 1
  <2>1. Unposted(g) = left[g] /\ Unposted(g)' = left[g] - 1
    BY <1>1, <1>3 DEF Unposted
  <2>2. \A x \in Goroutine : x # g => Unposted(x)' = Unposted(x)
    BY <1>1, <1>3 DEF Unposted
  <2> QED BY <1>2, <2>1, <2>2, DueLoses
<1>9. SleepersCounted'
  BY <1>1, <1>4, <1>5, <1>8, Numbers DEF SleepersCounted, Sleepers
<1>10. CountInv' /\ BoundInv'
  BY <1>1, <1>5 DEF CountInv, BoundInv
<1>11. OutsideInv' /\ KindInv' /\ SeenInv'
  BY <1>1, <1>3, <1>5 DEF OutsideInv, KindInv, SeenInv
<1>12. FinishInv'
  BY <1>1, <1>3, <1>5 DEF FinishInv
<1>13. LoopInv'
  BY <1>1, <1>2, <1>3 DEF LoopInv
<1>14. RoundInv' /\ SudogInv'
  BY <1>1, <1>8 DEF RoundInv, SudogInv
<1> QED BY <1>6, <1>7, <1>9, <1>10, <1>11, <1>12, <1>13, <1>14

\* A sleeper is made runnable, and Done goes on or returns.
LEMMA SemreleaseDequeueKeeps ==
    ASSUME IInv, NEW g \in Goroutine, SemreleaseDequeue(g)
    PROVE  IInv'
<1> USE DEF IInv
<1>1. /\ pc[g] = "dequeue" /\ left' = [left EXCEPT ![g] = left[g] - 1] /\ sema' = sema
      /\ UNCHANGED <<v, w, kind, seen>>
  BY DEF SemreleaseDequeue, SemNoWaiter, SemDequeue
<1>2. left[g] \in 1..Cardinality(Goroutine) /\ left[g] - 1 \in Nat /\ kind[g] = "done"
  BY <1>1, Finite DEF LoopInv, KindInv
<1>3. SemaTypeOK' /\ SudogInv'
  <2>1. CASE SemNoWaiter(wgSema)
    BY <2>1 DEF SemNoWaiter, TypeOK, SemaTypeOK, SudogInv
  <2>2. CASE SemDequeue(wgSema, FALSE)
    <3>1. /\ waitq[wgSema] # <<>> /\ waitq[wgSema] \in Seq(Goroutine)
          /\ waitq' = [waitq EXCEPT ![wgSema] = Tail(waitq[wgSema])]
          /\ sudog' = [sudog EXCEPT ![Head(waitq[wgSema])] = "none"]
      BY <2>2 DEF SemDequeue, TypeOK, SemaTypeOK
    <3>2. Tail(waitq[wgSema]) \in Seq(Goroutine)
      BY <3>1
    <3> QED BY <1>1, <3>1, <3>2 DEF TypeOK, SemaTypeOK, SudogState, SudogInv
  <2> QED BY <2>1, <2>2 DEF SemreleaseDequeue
<1>4. PICK l \in {"release", "idle"} :
          Goto(g, l) /\ tasks' = tasks /\ (l = "release" <=> left[g] > 1)
  <2>1. CASE left[g] > 1
    BY <2>1 DEF SemreleaseDequeue
  <2>2. CASE left[g] = 1
    <3>1. Return(g)
      BY <2>2 DEF SemreleaseDequeue
    <3>2. tasks' = tasks
      BY <1>2, <3>1, Numbers DEF Return
    <3> QED BY <2>2, <3>1, <3>2 DEF Return
  <2> QED BY <1>2, <2>1, <2>2, Finite
<1>5. /\ pc' \in [Goroutine -> PC] /\ pc'[g] = l
      /\ \A x \in Goroutine : x # g => pc'[x] = pc[x]
  BY <1>4 DEF Goto, TypeOK, PC
<1>6. /\ left' \in [Goroutine -> Nat] /\ left'[g] = left[g] - 1
      /\ \A x \in Goroutine : x # g => left'[x] = left[x]
  BY <1>1, <1>2 DEF TypeOK
<1>7. /\ Callers' = Callers /\ Growing' = Growing /\ Waiting' = Waiting
      /\ At({"sleep"})' = At({"sleep"}) /\ At({"check", "store"})' = At({"check", "store"})
      /\ At({"woken"})' = At({"woken"})
  BY <1>1, <1>5 DEF Callers, Growing, Waiting, At
<1>8. TypeOK'
  BY <1>1, <1>3, <1>4, <1>5, <1>6 DEF TypeOK
<1>9. NoPanic'
  BY <1>5 DEF NoPanic, At
<1>10. Due' = Due
  <2>1. Unposted(g) = left[g] - 1
    BY <1>1 DEF Unposted
  <2>2. Unposted(g)' = left[g] - 1
    <3>1. CASE l = "release"
      BY <3>1, <1>5, <1>6 DEF Unposted
    <3>2. CASE l = "idle"
      <4>1. left[g] = 1
        BY <3>2, <1>2, <1>4, Finite
      <4> QED BY <3>2, <4>1, <1>5 DEF Unposted
    <3> QED BY <3>1, <3>2
  <2>3. \A x \in Goroutine : x # g => Unposted(x)' = Unposted(x)
    BY <1>5, <1>6 DEF Unposted
  <2> QED BY <2>1, <2>2, <2>3, DueStays
<1>11. SleepersCounted' /\ CountInv' /\ BoundInv' /\ RoundInv'
  BY <1>1, <1>4, <1>7, <1>10 DEF SleepersCounted, CountInv, BoundInv, RoundInv
<1>12. OutsideInv' /\ KindInv' /\ SeenInv'
  BY <1>1, <1>2, <1>5, <1>7 DEF OutsideInv, KindInv, SeenInv
<1>13. FinishInv'
  BY <1>1, <1>5, <1>7 DEF FinishInv
<1>14. LoopInv'
  <2>1. l = "release" => left[g] - 1 \in 1..Cardinality(Goroutine)
    BY <1>2, <1>4, Finite
  <2> QED BY <1>5, <1>6, <2>1 DEF LoopInv
<1> QED BY <1>3, <1>8, <1>9, <1>11, <1>12, <1>13, <1>14

-----------------------------------------------------------------------------
(* Wait *)

\* The steps of Wait that leave the state and the semaphore alone.
LEMMA WaitQuiet ==
    ASSUME IInv, NEW g \in Goroutine, NEW l \in {"idle", "wait", "cas"},
           pc[g] \in {"idle", "wait", "cas", "woken"}, Goto(g, l),
           UNCHANGED <<v, w, tasks, kind, left, sem>>,
           seen' \in [Goroutine -> State], \A x \in Goroutine : x # g => seen'[x] = seen[x],
           l = "cas" => seen'[g].v # 0,
           pc[g] = "idle" => \A h \in Adding : kind[h] # "outside"
    PROVE  IInv'
<1> USE DEF IInv
<1>1. pc'[g] = l /\ \A x \in Goroutine : x # g => pc'[x] = pc[x]
  BY DEF Goto, TypeOK
<1>2. Callers' = Callers /\ Growing' = Growing /\ At({"check", "store"})' = At({"check", "store"})
  BY <1>1 DEF Callers, Growing, At
<1>3. CountInv' /\ BoundInv'
  BY <1>2 DEF CountInv, BoundInv
<1>4. /\ TypeOK' /\ NoPanic' /\ SleepersCounted' /\ LoopInv' /\ SudogInv'
      /\ Due' = Due /\ At({"woken"})' \subseteq At({"woken"})
  <2>1. l \in PC \ {"sleep", "release", "dequeue", "woken", "panic"}
    BY DEF PC
  <2>2. v' \in Int /\ tasks' \in Nat /\ kind' \in [Goroutine -> Kind]
    BY DEF TypeOK
  <2> QED BY <1>3, <2>1, <2>2, Quiet
<1>5. OutsideInv'
  <2> SUFFICES ASSUME NEW h \in Goroutine, pc'[h] = "add", kind[h] = "outside"
               PROVE  Waiting' = {}
    BY DEF OutsideInv
  <2>1. h # g /\ pc[h] = "add"
    BY <1>1
  <2>2. h \in Adding /\ Waiting = {}
    BY <2>1 DEF Adding, At, OutsideInv
  <2>3. pc[g] \notin {"wait", "cas", "woken"}
    BY <2>2 DEF Waiting, At
  <2> QED BY <2>2, <2>3
<1>6. KindInv' /\ SeenInv'
  BY <1>1 DEF KindInv, SeenInv
<1>7. FinishInv'
  BY <1>1, <1>2 DEF FinishInv
<1>8. RoundInv'
  BY <1>4 DEF RoundInv, sem
<1> QED BY <1>3, <1>4, <1>5, <1>6, <1>7, <1>8

LEMMA WaitKeeps ==
    ASSUME IInv, NEW g \in Goroutine, Wait(g)
    PROVE  IInv'
<1>1. /\ pc[g] = "idle" /\ Goto(g, "wait") /\ UNCHANGED <<v, w, tasks, kind, left, sem>> /\ seen' = seen
      /\ \A h \in Adding : kind[h] # "outside"
  BY DEF Wait
<1>2. seen \in [Goroutine -> State]
  BY DEF IInv, TypeOK
<1> QED BY <1>1, <1>2, WaitQuiet

LEMMA WaitLoadKeeps ==
    ASSUME IInv, NEW g \in Goroutine, WaitLoad(g)
    PROVE  IInv'
<1>1. pc[g] = "wait" /\ UNCHANGED <<v, w, tasks, kind, left, sem>>
  BY DEF WaitLoad
<1>2. seen \in [Goroutine -> State]
  BY DEF IInv, TypeOK
<1>3. CASE Goto(g, "idle") /\ seen' = seen
  BY <1>1, <1>2, <1>3, WaitQuiet
<1>4. CASE v # 0 /\ Goto(g, "cas") /\ seen' = [seen EXCEPT ![g] = [v |-> v, w |-> w]]
  <2>1. [v |-> v, w |-> w] \in State /\ [v |-> v, w |-> w].v # 0
    BY <1>4, Numbers DEF State
  <2>2. /\ seen' \in [Goroutine -> State] /\ seen'[g].v # 0
        /\ \A x \in Goroutine : x # g => seen'[x] = seen[x]
    BY <1>2, <1>4, <2>1
  <2> QED BY <1>1, <1>4, <2>2, WaitQuiet
<1> QED BY <1>3, <1>4 DEF WaitLoad

\* A waiter registers only while the counter is above zero, so on no other round.
LEMMA WaitCASKeeps ==
    ASSUME IInv, NEW g \in Goroutine, WaitCAS(g)
    PROVE  IInv'
<1> USE DEF IInv
<1>1. /\ pc[g] = "cas" /\ UNCHANGED <<v, tasks, kind, left, sem>>
      /\ seen' = [seen EXCEPT ![g] = Zero]
  BY DEF WaitCAS
<1>2. Zero \in State
  BY DEF Zero, State
<1>3. seen' \in [Goroutine -> State] /\ \A x \in Goroutine : x # g => seen'[x] = seen[x]
  BY <1>1, <1>2 DEF TypeOK
<1>4. CASE Goto(g, "wait") /\ w' = w
  BY <1>1, <1>3, <1>4, WaitQuiet
<1>5. CASE [v |-> v, w |-> w] = seen[g] /\ w' = w + 1 /\ Goto(g, "sleep")
  <2>1. v # 0
    <3>1. seen[g].v = v
      BY <1>5
    <3> QED BY <1>1, <3>1 DEF SeenInv
  <2>2. /\ pc' \in [Goroutine -> PC] /\ pc'[g] = "sleep"
        /\ \A x \in Goroutine : x # g => pc'[x] = pc[x]
    BY <1>5 DEF Goto, TypeOK, PC
  <2>3. sema[wgSema] = 0 /\ Due = {} /\ At({"woken"}) = {}
    BY <2>1, Numbers DEF RoundInv
  <2>4. \A x \in Goroutine : pc[x] \notin {"check", "store"}
    BY <2>1, FinishAlone
  <2>5. /\ Callers' = Callers /\ Growing' = Growing /\ Waiting' = Waiting
        /\ At({"woken"})' = At({"woken"})
    BY <1>1, <2>2 DEF Callers, Growing, Waiting, At
  <2>6. /\ Cardinality(Sleepers') = Cardinality(Sleepers) + 1
        /\ Cardinality(Sleepers') \in 0..Cardinality(Goroutine)
    <3>1. g \notin Sleepers /\ g \in Sleepers'
      BY <1>1, <2>2 DEF Sleepers, At
    <3> QED BY <1>1, <2>2, <3>1, Move, Finite
  <2>7. Due' = Due /\ sema' = sema
    <3>1. \A x \in Goroutine : Unposted(x)' = Unposted(x)
      BY <1>1, <2>2 DEF Unposted
    <3> QED BY <1>1, <3>1, DueStays DEF sem
  <2>8. SleepersCounted'
    BY <1>5, <2>6, <2>7, Numbers DEF SleepersCounted, Sleepers
  <2>9. w' \in 0..Cardinality(Goroutine)
    BY <1>5, <2>3, <2>6, DueFinite, Numbers, Finite
  <2>10. TypeOK'
    BY <1>1, <1>3, <2>2, <2>9 DEF TypeOK, SemaTypeOK, sem
  <2>11. NoPanic'
    BY <2>2 DEF NoPanic, At
  <2>12. CountInv' /\ BoundInv'
    BY <1>1, <2>5 DEF CountInv, BoundInv
  <2>13. OutsideInv' /\ KindInv' /\ SeenInv'
    BY <1>1, <1>3, <2>2, <2>5 DEF OutsideInv, KindInv, SeenInv
  <2>14. FinishInv'
    BY <2>2, <2>4 DEF FinishInv, At
  <2>15. LoopInv' /\ SudogInv'
    BY <1>1, <2>2 DEF LoopInv, SudogInv, sem
  <2>16. RoundInv'
    BY <2>3, <2>5, <2>7 DEF RoundInv
  <2> QED BY <2>8, <2>10, <2>11, <2>12, <2>13, <2>14, <2>15, <2>16
<1> QED BY <1>4, <1>5 DEF WaitCAS

\* A waiter falls asleep, or takes a unit and so belongs to the round.
LEMMA WaitSleepKeeps ==
    ASSUME IInv, NEW g \in Goroutine, WaitSleep(g)
    PROVE  IInv'
<1> USE DEF IInv
<1>1. pc[g] = "sleep" /\ UNCHANGED <<v, w, tasks, kind, seen, left>>
  BY DEF WaitSleep
<1>2. CASE SemSleep(g, wgSema, FALSE) /\ pc' = pc
  <2>1. /\ sema' = sema /\ waitq' = [waitq EXCEPT ![wgSema] = Append(waitq[wgSema], g)]
        /\ sudog' = [sudog EXCEPT ![g] = "queued"]
    BY <1>2 DEF SemSleep, Enqueue
  <2>2. Append(waitq[wgSema], g) \in Seq(Goroutine)
    BY DEF TypeOK, SemaTypeOK
  <2>3. TypeOK'
    BY <1>1, <1>2, <2>1, <2>2 DEF TypeOK, SemaTypeOK, SudogState
  <2>4. SudogInv'
    BY <2>1 DEF SudogInv, TypeOK, SemaTypeOK
  <2>5. Due' = Due
    BY <1>1, <1>2, DueStays DEF Unposted
  <2>6. /\ Callers' = Callers /\ Growing' = Growing /\ Waiting' = Waiting
        /\ At({"sleep"})' = At({"sleep"}) /\ At({"check", "store"})' = At({"check", "store"})
        /\ At({"woken"})' = At({"woken"}) /\ At({"panic"})' = At({"panic"})
    BY <1>1, <1>2 DEF Callers, Growing, Waiting, At
  <2>7. NoPanic' /\ SleepersCounted' /\ CountInv' /\ BoundInv' /\ RoundInv'
    BY <1>1, <2>1, <2>5, <2>6 DEF NoPanic, SleepersCounted, CountInv, BoundInv, RoundInv
  <2>8. OutsideInv' /\ KindInv' /\ SeenInv' /\ FinishInv' /\ LoopInv'
    BY <1>1, <1>2, <2>6 DEF OutsideInv, KindInv, SeenInv, FinishInv, LoopInv
  <2> QED BY <2>3, <2>4, <2>7, <2>8
<1>3. CASE SemAcquired(g, wgSema) /\ Goto(g, "woken")
  <2>1. sudog[g] = "none"
    BY <1>3 DEF SemAcquired, SudogInv
  <2>2. /\ sema[wgSema] > 0 /\ sema' = [sema EXCEPT ![wgSema] = sema[wgSema] - 1]
        /\ waitq' = waitq /\ sudog' = [sudog EXCEPT ![g] = "none"]
    BY <1>3, <2>1 DEF SemAcquired, cansemacquire
  <2>3. v = 0 /\ w = 0
    BY <2>2 DEF RoundInv
  <2>4. sema' \in [{wgSema} -> Nat] /\ sema'[wgSema] = sema[wgSema] - 1
    BY <2>2 DEF TypeOK, SemaTypeOK
  <2>5. /\ pc' \in [Goroutine -> PC] /\ pc'[g] = "woken"
        /\ \A x \in Goroutine : x # g => pc'[x] = pc[x]
    BY <1>3 DEF Goto, TypeOK, PC
  <2>6. TypeOK' /\ SudogInv'
    BY <1>1, <2>2, <2>4, <2>5 DEF TypeOK, SemaTypeOK, SudogState, SudogInv
  <2>7. /\ Callers' = Callers /\ Growing' = Growing /\ Waiting' = Waiting
        /\ At({"check", "store"})' = At({"check", "store"})
    BY <1>1, <2>5 DEF Callers, Growing, Waiting, At
  <2>8. Cardinality(Sleepers') = Cardinality(Sleepers) - 1
    <3>1. g \in Sleepers /\ g \notin Sleepers'
      BY <1>1, <2>5 DEF Sleepers, At
    <3> QED BY <1>1, <2>5, <3>1, Move, Finite
  <2>9. Due' = Due
    <3>1. \A x \in Goroutine : Unposted(x)' = Unposted(x)
      BY <1>1, <2>5 DEF Unposted
    <3> QED BY <3>1, DueStays
  <2>10. SleepersCounted'
    BY <1>1, <2>4, <2>8, <2>9, Numbers DEF SleepersCounted, Sleepers
  <2>11. NoPanic'
    BY <2>5 DEF NoPanic, At
  <2>12. CountInv' /\ BoundInv' /\ RoundInv'
    BY <1>1, <2>3, <2>7 DEF CountInv, BoundInv, RoundInv
  <2>13. OutsideInv' /\ KindInv' /\ SeenInv' /\ FinishInv' /\ LoopInv'
    BY <1>1, <2>5, <2>7 DEF OutsideInv, KindInv, SeenInv, FinishInv, LoopInv
  <2> QED BY <2>6, <2>10, <2>11, <2>12, <2>13
<1> QED BY <1>2, <1>3 DEF WaitSleep

\* A woken waiter finds the state at zero.
LEMMA WaitWokenKeeps ==
    ASSUME IInv, NEW g \in Goroutine, WaitWoken(g)
    PROVE  IInv' /\ v = 0 /\ Goto(g, "idle")
<1> USE DEF IInv
<1>1. pc[g] = "woken" /\ UNCHANGED <<v, w, tasks, kind, left, sem>> /\ seen' = seen
  BY DEF WaitWoken
<1>2. v = 0 /\ w = 0
  BY <1>1 DEF RoundInv, At
<1>3. Goto(g, "idle")
  BY <1>2 DEF WaitWoken, Zero
<1>4. seen \in [Goroutine -> State]
  BY DEF TypeOK
<1>5. IInv'
  BY <1>1, <1>3, <1>4, WaitQuiet
<1> QED BY <1>2, <1>3, <1>5

-----------------------------------------------------------------------------
(* The theorems *)

LEMMA InitHolds == Init => IInv
<1> SUFFICES ASSUME Init PROVE IInv
  OBVIOUS
<1>1. /\ v = 0 /\ w = 0 /\ tasks = 0 /\ sema = [a \in {wgSema} |-> 0] /\ sema[wgSema] = 0
      /\ pc = [g \in Goroutine |-> "idle"] /\ \A g \in Goroutine : pc[g] = "idle"
      /\ sudog = [g \in Goroutine |-> "none"]
  BY DEF Init, SemaInit
<1>2. Zero \in State
  BY DEF Zero, State
<1>3. <<>> \in Seq(Goroutine)
  OBVIOUS
<1>4. TypeOK
  BY <1>1, <1>2, <1>3, Finite DEF Init, SemaInit, TypeOK, SemaTypeOK, SudogState, PC, Kind
<1>5. Sleepers = {} /\ Callers = {} /\ Growing = {} /\ At({"woken"}) = {} /\ At({"panic"}) = {}
  BY <1>1 DEF Sleepers, Callers, Growing, At
<1>6. Due = {}
  BY <1>1, Finite DEF Due, Unposted
<1>7. /\ Cardinality(Sleepers) = 0 /\ Cardinality(Callers) = 0 /\ Cardinality(Growing) = 0
      /\ Cardinality(Due) = 0
  BY <1>5, <1>6, FS_EmptySet
<1>8. SleepersCounted /\ CountInv /\ BoundInv
  BY <1>1, <1>7, Finite DEF SleepersCounted, CountInv, BoundInv, Sleepers
<1>9. NoPanic /\ RoundInv /\ OutsideInv /\ KindInv /\ SeenInv /\ FinishInv /\ LoopInv /\ SudogInv
  BY <1>1, <1>5, <1>6 DEF NoPanic, RoundInv, OutsideInv, KindInv, SeenInv, FinishInv, LoopInv,
                          SudogInv, At
<1> QED BY <1>4, <1>8, <1>9 DEF IInv

\* Nothing that IInv mentions changes in a stuttering step.
LEMMA StutterKeeps ==
    ASSUME IInv, UNCHANGED vars
    PROVE  IInv'
<1>1. /\ v' = v /\ w' = w /\ tasks' = tasks /\ pc' = pc /\ kind' = kind /\ seen' = seen /\ left' = left
      /\ sema' = sema /\ waitq' = waitq /\ sudog' = sudog
  BY DEF vars, sem
<1>2. Due' = Due
  BY <1>1, DueStays DEF Unposted
<1> QED BY <1>1, <1>2 DEF IInv, TypeOK, SemaTypeOK, NoPanic, SleepersCounted, CountInv, BoundInv,
      OutsideInv, KindInv, SeenInv, FinishInv, LoopInv, RoundInv, SudogInv, At, Callers, Growing, Waiting

\* Every step keeps the invariant.
LEMMA StepHolds == IInv /\ [Next]_vars => IInv'
<1> SUFFICES ASSUME IInv, [Next]_vars PROVE IInv'
  OBVIOUS
<1>1. CASE UNCHANGED vars
  BY <1>1, StutterKeeps
<1>2. CASE Next
  <2>1. PICK g \in Goroutine :
            \/ AddInTask(g) \/ AddOutside(g) \/ Done(g) \/ AddStep(g)
            \/ Wait(g) \/ WaitStep(g)
    BY <1>2 DEF Next
  <2>2. CASE AddInTask(g) \/ AddOutside(g) \/ Done(g)
    BY <2>2, CallsKeep
  <2>3. CASE AddStep(g)
    BY <2>3, AddKeeps, AddCheckKeeps, AddStoreKeeps, SemreleaseKeeps, SemreleaseDequeueKeeps
       DEF AddStep
  <2>4. CASE Wait(g) \/ WaitStep(g)
    BY <2>4, WaitKeeps, WaitLoadKeeps, WaitCASKeeps, WaitSleepKeeps, WaitWokenKeeps DEF WaitStep
  <2> QED BY <2>1, <2>2, <2>3, <2>4
<1> QED BY <1>1, <1>2

\* The invariant of waitgroup.go, for every number of goroutines.
THEOREM WaitGroupInductive == Spec => []IInv
<1>1. Init => IInv
  BY InitHolds
<1>2. IInv /\ [Next]_vars => IInv'
  BY StepHolds
<1> QED BY <1>1, <1>2, PTL DEF Spec

\* Callers that keep to the rules of module WaitGroup never meet a panic of Add or Wait, and Store(0)
\* leaves no sleeper and no unit of a round behind for the next.
THEOREM WaitGroupSound == Spec => []WaitGroupInv
<1>1. IInv => WaitGroupInv
  BY DEF IInv, WaitGroupInv
<1> QED BY <1>1, WaitGroupInductive, PTL

\* A Wait that returns in this step saw the counter at zero.
LEMMA ReturnSawZero ==
    ASSUME IInv, Next, NEW g \in Waiting, pc'[g] = "idle"
    PROVE  v = 0
<1>1. g \in Goroutine /\ pc[g] \in {"wait", "cas", "sleep", "woken"}
  BY DEF Waiting, At
<1>2. PICK h \in Goroutine :
          \/ AddInTask(h) \/ AddOutside(h) \/ Done(h) \/ AddStep(h)
          \/ Wait(h) \/ WaitStep(h)
  BY DEF Next
<1>3. pc \in [Goroutine -> PC]
  BY DEF IInv, TypeOK
<1>4. CASE AddInTask(h) \/ AddOutside(h) \/ Done(h) \/ Wait(h)
  BY <1>1, <1>3, <1>4 DEF AddInTask, AddOutside, Done, Wait, CallAdd, Goto
<1>5. CASE AddStep(h)
  <2>1. pc[h] \in {"add", "check", "store", "release", "dequeue"} /\ \E l : pc' = [pc EXCEPT ![h] = l]
    BY <1>5 DEF AddStep, Add, AddCheck, AddStore, Semrelease, SemreleaseDequeue, Return, Goto
  <2>2. h # g
    BY <1>1, <2>1
  <2>3. pc'[g] = pc[g]
    BY <1>1, <1>3, <2>1, <2>2
  <2> QED BY <1>1, <2>3
<1>6. CASE WaitLoad(h)
  BY <1>1, <1>3, <1>6 DEF WaitLoad, Goto
<1>7. CASE WaitCAS(h)
  BY <1>1, <1>3, <1>7 DEF WaitCAS, Goto
<1>8. CASE WaitSleep(h)
  BY <1>1, <1>3, <1>8 DEF WaitSleep, Goto
<1>9. CASE WaitWoken(h)
  BY <1>9, WaitWokenKeeps
<1> QED BY <1>2, <1>4, <1>5, <1>6, <1>7, <1>8, <1>9 DEF WaitStep

\* Wait returns only when the counter is zero, no added task runs and no Done is
\* still on its way to the counter.
THEOREM WaitReturnsDone == Spec => WaitMeansDone
<1>1. IInv /\ [Next]_vars =>
          [\A g \in Waiting : pc'[g] = "idle" =>
              v = 0 /\ tasks = 0 /\ \A h \in At({"add"}) : kind[h] # "done"]_vars
  <2> SUFFICES ASSUME IInv, Next, NEW g \in Waiting, pc'[g] = "idle"
               PROVE  v = 0 /\ tasks = 0 /\ \A h \in At({"add"}) : kind[h] # "done"
    OBVIOUS
  <2>1. v = 0
    BY ReturnSawZero
  <2>2. tasks = 0 /\ Cardinality(Callers) = 0
    BY <2>1, Numbers, Finite
  <2>3. Callers = {}
    BY <2>2, Finite
  <2> QED BY <2>1, <2>2, <2>3 DEF Callers
<1> QED BY <1>1, WaitGroupInductive, PTL DEF Spec, WaitMeansDone

-----------------------------------------------------------------------------
(* A search tree, as far as its pointers, its subtrees and its keys go *)

\* The pointers from each node: up, to the left and to the right.
Pointers(rt, P, L, R) ==
    rt \in Pointer /\ P \in [Sudog -> Pointer] /\ L \in [Sudog -> Pointer] /\ R \in [Sudog -> Pointer]

\* D[n] are the nodes of the subtree at n.
Nested(L, R, D) ==
    /\ D \in [Pointer -> SUBSET Sudog] /\ D[Nil] = {}
    /\ \A n \in Sudog : D[n] = {n} \cup D[L[n]] \cup D[R[n]]
    /\ \A n \in Sudog : \A m \in D[n] : D[m] \subseteq D[n]

\* Keys are in order.
Sorted(L, R, D, K) ==
    /\ K \in [Sudog -> Int]
    /\ \A n \in Sudog : \A m \in D[L[n]] : K[m] < K[n]
    /\ \A n \in Sudog : \A m \in D[R[n]] : K[n] < K[m]

\* The way up is the way down, and what is not in the tree is linked to nothing.
Parents(rt, P, L, R, D) ==
    /\ \A n \in D[rt] : n = rt <=> P[n] = Nil
    /\ \A n \in D[rt], m \in Sudog : m \in {L[n], R[n]} => P[m] = n
    /\ \A n \in D[rt] : n # rt => P[n] \in D[rt] /\ n \in {L[P[n]], R[P[n]]}
    /\ \A n \in Sudog : \A m \in D[n] : m # n => P[m] \in D[n]
    /\ \A n \in Sudog \ D[rt] : P[n] = Nil /\ L[n] = Nil /\ R[n] = Nil

IsTree(rt, P, L, R, D, K) ==
    /\ Pointers(rt, P, L, R)
    /\ Nested(L, R, D)
    /\ Sorted(L, R, D, K)
    /\ Parents(rt, P, L, R, D)

\* A heap on T among the nodes N, but for the links to x, and from x too if it
\* sinks: the parent of x would do in its place.
Heaped(N, P, L, R, T, x, sinks) ==
    /\ \A n \in N, m \in Sudog :
          m \in {L[n], R[n]} => T[n] <= T[m] \/ m = x \/ (sinks /\ n = x)
    /\ x \in Sudog /\ P[x] # Nil =>
          \A m \in Sudog : m \in {L[x], R[x]} => T[P[x]] <= T[m]

-----------------------------------------------------------------------------
(* The inductive invariant, for the subtrees D and the wait lists Q *)

TreapOf(D) == IsTree(root, parent, prev, next, D, elem)

\* The tree is a heap, but for the node that a call is moving.
HeapOf(D) ==
    /\ at \in {"idle", "search"} => Heaped(D[root], parent, prev, next, ticket, Nil, FALSE)
    /\ at = "up" => Heaped(D[root], parent, prev, next, ticket, s, FALSE)
    /\ at = "down" => Heaped(D[root], parent, prev, next, ticket, s, TRUE)

\* Who is about to be queued, and who is in a list.
Pending == IF at = "search" /\ queueing THEN {new} ELSE {}
In(q) == {q[i] : i \in 1..Len(q)}
Listed(Q) == UNION {In(Q[a]) : a \in Addr}

\* The list of each address: its links, its end, and its head in the tree.
ListsOf(Q, D) ==
    /\ Q \in [Addr -> Seq(Sudog)]
    /\ \A a \in Addr : \A i \in 1..Len(Q[a]) :
          /\ elem[Q[a][i]] = a
          /\ waitlink[Q[a][i]] = IF i = Len(Q[a]) THEN Nil ELSE Q[a][i + 1]
          /\ \A j \in 1..Len(Q[a]) : Q[a][i] = Q[a][j] => i = j
    /\ \A a \in Addr : Q[a] # <<>> =>
          /\ Q[a][1] \in D[root]
          /\ waittail[Q[a][1]] = IF Len(Q[a]) = 1 THEN Nil ELSE Q[a][Len(Q[a])]
    /\ \A n \in D[root] : elem[n] \in Addr /\ Q[elem[n]] # <<>> /\ n = Q[elem[n]][1]

\* The sudogs that wait are in the lists, and the others are clean.
CleanOf(Q, D) ==
    /\ waiting = Listed(Q) \cup Pending /\ Listed(Q) \cap Pending = {}
    /\ \A n \in Sudog \ D[root] : waittail[n] = Nil
    /\ \A n \in Sudog \ Listed(Q) : waitlink[n] = Nil
    /\ \A n \in Sudog \ waiting : elem[n] = 0

\* The address that is looked for is in the subtree that is left, and whatever is
\* on the way there is where it should be.
SearchOf(D) ==
    at = "search" =>
        /\ last = Nil \/ last \in D[root]
        /\ s = IF last = Nil THEN root ELSE IF GoesLeft(last) THEN prev[last] ELSE next[last]
        /\ \A n \in D[root] : last \in D[n] =>
              /\ elem[n] # addr
              /\ last \in D[prev[n]] => addr < elem[n]
              /\ last \in D[next[n]] => elem[n] < addr
        /\ \A n \in D[root] : elem[n] = addr => n \in D[s]

\* What the call in progress knows.
CallOf(D) ==
    /\ at = "idle" => call = <<>> /\ s = Nil /\ last = Nil
    /\ at # "idle" => \/ call \in Addr \X Sudog \X BOOLEAN
                      \/ \E a \in Addr : call = <<a>>
    /\ at = "search" /\ queueing => elem[new] = addr
    /\ at = "up" => queueing /\ s \in D[root]
    /\ at = "down" => ~queueing /\ s \in D[root] /\ elem[s] = addr /\ waitlink[s] = Nil

Rep(Q, D) ==
    /\ TreapTypes
    /\ TreapOf(D) /\ HeapOf(D)
    /\ ListsOf(Q, D) /\ CleanOf(Q, D)
    /\ SearchOf(D) /\ CallOf(D)

-----------------------------------------------------------------------------
(* What happens to such a tree *)

\* Nodes of a tree: what links them, and that a subtree contains its node.
LEMMA TreeNode ==
    ASSUME NEW rt, NEW P, NEW L, NEW R, NEW D, NEW K, IsTree(rt, P, L, R, D, K), NEW n \in Sudog
    PROVE  /\ n \in D[n] /\ n \notin D[L[n]] /\ n \notin D[R[n]] /\ n # L[n] /\ n # R[n]
           /\ D[L[n]] \subseteq D[n] /\ D[R[n]] \subseteq D[n]
           /\ L[n] # Nil => L[n] \in Sudog /\ L[n] # R[n] /\ n \in D[rt] /\ L[n] \in D[n] /\ P[L[n]] = n
           /\ R[n] # Nil => R[n] \in Sudog /\ L[n] # R[n] /\ n \in D[rt] /\ R[n] \in D[n] /\ P[R[n]] = n
<1>1. /\ P \in [Sudog -> Pointer] /\ L \in [Sudog -> Pointer] /\ R \in [Sudog -> Pointer]
      /\ L[n] \in Pointer /\ R[n] \in Pointer
  BY DEF IsTree, Pointers
<1>2. D[n] = {n} \cup D[L[n]] \cup D[R[n]]
  BY DEF IsTree, Nested
<1>3. K[n] \in Int /\ (\A m \in D[L[n]] : K[m] < K[n]) /\ (\A m \in D[R[n]] : K[n] < K[m])
  BY DEF IsTree, Sorted
<1>4. n \notin D[L[n]] /\ n \notin D[R[n]]
  BY <1>3
<1>5. \A m \in Sudog : m \in D[m]
  BY DEF IsTree, Nested
<1>6. n # L[n] /\ n # R[n]
  BY <1>4, <1>5
<1>7. L[n] # Nil => L[n] \in Sudog /\ L[n] \in D[L[n]]
  BY <1>1, <1>5 DEF Pointer
<1>8. R[n] # Nil => R[n] \in Sudog /\ R[n] \in D[R[n]]
  BY <1>1, <1>5 DEF Pointer
<1>9. L[n] # Nil => L[n] # R[n]
  <2>1. \A m \in Sudog : K[m] \in Int
    BY DEF IsTree, Sorted
  <2> QED BY <1>3, <1>7, <1>8, <2>1
<1>10. L[n] # Nil \/ R[n] # Nil => n \in D[rt]
  BY DEF IsTree, Parents
<1>11. n \in D[rt] => \A m \in Sudog : m \in {L[n], R[n]} => P[m] = n
  BY DEF IsTree, Parents
<1> QED BY <1>2, <1>4, <1>5, <1>6, <1>7, <1>8, <1>9, <1>10, <1>11

\* Left and right may be exchanged.
LEMMA Mirror ==
    ASSUME NEW rt, NEW P, NEW L, NEW R, NEW D, NEW K, IsTree(rt, P, L, R, D, K)
    PROVE  IsTree(rt, P, R, L, D, [n \in Sudog |-> -K[n]])
<1>1. Pointers(rt, P, R, L) /\ Nested(R, L, D)
  BY DEF IsTree, Pointers, Nested
<1>2. Parents(rt, P, R, L, D)
  BY DEF IsTree, Parents
<1>3. Sorted(R, L, D, [n \in Sudog |-> -K[n]])
  <2>1. D \in [Pointer -> SUBSET Sudog] /\ L \in [Sudog -> Pointer] /\ R \in [Sudog -> Pointer]
    BY DEF IsTree, Pointers, Nested
  <2>2. \A n \in Sudog : D[L[n]] \subseteq Sudog /\ D[R[n]] \subseteq Sudog
    BY <2>1
  <2> QED BY <2>2 DEF IsTree, Sorted
<1> QED BY <1>1, <1>2, <1>3 DEF IsTree

\* x, on the left of y, is rotated above it; the link from p to y is on the left
\* if isLeft, and b changes sides.
Rotates(rt, P, L, R, D, K, x, y, b, p, isLeft, P2, L2, R2) ==
    /\ IsTree(rt, P, L, R, D, K)
    /\ y \in D[rt] /\ x = L[y] /\ x # Nil /\ b = R[x] /\ p = P[y]
    /\ isLeft \in BOOLEAN /\ (p # Nil => (isLeft <=> L[p] = y))
    /\ P2 = [n \in Sudog |-> IF n = x THEN p ELSE IF n = y THEN x ELSE IF n = b THEN y ELSE P[n]]
    /\ L2 = [n \in Sudog |-> IF n = y THEN b ELSE IF n = p /\ isLeft THEN x ELSE L[n]]
    /\ R2 = [n \in Sudog |-> IF n = x THEN y ELSE IF n = p /\ ~isLeft THEN x ELSE R[n]]

\* The links before and after it.
Linked(rt, P, L, R, D, K, x, y, b, p, isLeft, P2, L2, R2) ==
    /\ P \in [Sudog -> Pointer] /\ L \in [Sudog -> Pointer] /\ R \in [Sudog -> Pointer]
    /\ rt \in Pointer /\ D \in [Pointer -> SUBSET Sudog] /\ D[Nil] = {} /\ Nil \notin Sudog
    /\ Pointer = Sudog \cup {Nil}
    /\ y \in Sudog /\ x \in Sudog /\ b \in Pointer /\ p \in Pointer /\ L[x] \in Pointer /\ R[y] \in Pointer
    /\ y \in D[y] /\ y \notin D[x] /\ y \notin D[R[y]] /\ x # y /\ y # R[y]
    /\ D[x] \subseteq D[y] /\ D[R[y]] \subseteq D[y] /\ x # R[y] /\ x \in D[y] /\ P[x] = y
    /\ x \in D[x] /\ x \notin D[L[x]] /\ x \notin D[b] /\ x # L[x] /\ x # b
    /\ D[L[x]] \subseteq D[x] /\ D[b] \subseteq D[x]
    /\ L[x] # Nil => L[x] # b /\ P[L[x]] = x
    /\ b # Nil => b \in Sudog /\ P[b] = x /\ b \in D[x]
    /\ R[y] # Nil => R[y] \in Sudog /\ P[R[y]] = y
    /\ L[x] # y /\ b # y
    /\ L[x] # Nil => L[x] # R[y]
    /\ b # Nil => b # R[y]
    /\ p # Nil => p \in D[rt] /\ y \in {L[p], R[p]} /\ L[p] # R[p] /\ p # y /\ p # x /\ p \in Sudog
    /\ L2[x] = L[x] /\ R2[x] = y /\ L2[y] = b /\ R2[y] = R[y]
    /\ \A n \in Sudog : n # x /\ n # y /\ n # p => L2[n] = L[n] /\ R2[n] = R[n]
    /\ p # Nil => /\ isLeft => L2[p] = x /\ R2[p] = R[p] /\ R[p] # y /\ L[p] = y
                  /\ ~isLeft => R2[p] = x /\ L2[p] = L[p] /\ L[p] # y /\ R[p] = y
    /\ P2[x] = p /\ P2[y] = x /\ (b # Nil => P2[b] = y)
    /\ \A n \in Sudog : n # x /\ n # y /\ n # b => P2[n] = P[n]
    /\ \A n \in Sudog : n # y => L[n] # x /\ R[n] # x
    /\ \A n \in Sudog : n # p => L[n] # y /\ R[n] # y

\* These are the links.
LEMMA RotationLinks ==
    ASSUME NEW rt, NEW P, NEW L, NEW R, NEW D, NEW K, NEW x, NEW y, NEW b, NEW p, NEW isLeft,
           NEW P2, NEW L2, NEW R2, Rotates(rt, P, L, R, D, K, x, y, b, p, isLeft, P2, L2, R2)
    PROVE  Linked(rt, P, L, R, D, K, x, y, b, p, isLeft, P2, L2, R2)
<1> USE DEF Rotates
<1>0. /\ P \in [Sudog -> Pointer] /\ L \in [Sudog -> Pointer] /\ R \in [Sudog -> Pointer]
      /\ rt \in Pointer /\ D \in [Pointer -> SUBSET Sudog] /\ D[Nil] = {} /\ Nil \notin Sudog
      /\ Pointer = Sudog \cup {Nil}
  BY TreapAssumption DEF IsTree, Pointers, Nested, Pointer
<1>1. y \in Sudog /\ x \in Sudog /\ b \in Pointer /\ p \in Pointer /\ L[x] \in Pointer /\ R[y] \in Pointer
  BY <1>0
<1>2. /\ y \in D[y] /\ y \notin D[x] /\ y \notin D[R[y]] /\ x # y /\ y # R[y]
      /\ D[x] \subseteq D[y] /\ D[R[y]] \subseteq D[y] /\ x # R[y] /\ x \in D[y] /\ P[x] = y
  BY <1>1, TreeNode
<1>3. /\ x \in D[x] /\ x \notin D[L[x]] /\ x \notin D[b] /\ x # L[x] /\ x # b
      /\ D[L[x]] \subseteq D[x] /\ D[b] \subseteq D[x]
      /\ L[x] # Nil => L[x] # b /\ P[L[x]] = x
      /\ b # Nil => b \in Sudog /\ P[b] = x /\ b \in D[x]
  BY <1>1, TreeNode
<1>4. R[y] # Nil => R[y] \in Sudog /\ P[R[y]] = y
  BY <1>1, TreeNode
<1>5. /\ \A n \in Sudog : D[n] = {n} \cup D[L[n]] \cup D[R[n]]
      /\ \A n \in Sudog : \A m \in D[n] : D[m] \subseteq D[n]
  BY DEF IsTree, Nested
<1>7. /\ \A n \in D[rt] : n = rt <=> P[n] = Nil
      /\ \A n \in D[rt], m \in Sudog : m \in {L[n], R[n]} => P[m] = n
      /\ \A n \in D[rt] : n # rt => P[n] \in D[rt] /\ n \in {L[P[n]], R[P[n]]}
      /\ \A n \in Sudog : \A m \in D[n] : m # n => P[m] \in D[n]
      /\ \A n \in Sudog \ D[rt] : P[n] = Nil /\ L[n] = Nil /\ R[n] = Nil
  BY DEF IsTree, Parents
<1>8. L[x] # y /\ b # y
  <2>1. \A n \in Sudog : n \in D[n]
    BY <1>5
  <2> QED BY <1>1, <1>2, <1>3, <2>1
<1>9. L[x] # Nil => L[x] # R[y]
  BY <1>2, <1>3, <1>4
<1>10. b # Nil => b # R[y]
  BY <1>2, <1>3, <1>4
<1>11. p # Nil => p \in D[rt] /\ y \in {L[p], R[p]} /\ L[p] # R[p] /\ p # y /\ p # x /\ p \in Sudog
  <2>1. ASSUME p # Nil
        PROVE  p \in D[rt] /\ y \in {L[p], R[p]}
    BY <1>7, <2>1
  <2>2. ASSUME p # Nil
        PROVE  p \in Sudog /\ p # y /\ L[p] # R[p]
    BY <1>0, <1>1, <2>1, <2>2, TreeNode
  <2>3. ASSUME p # Nil, p = x
        PROVE  FALSE
    <3>1. y \in {L[x], R[x]}
      BY <2>1, <2>3
    <3> QED BY <1>8, <3>1
  <2> QED BY <2>1, <2>2, <2>3
<1>14. /\ L2[x] = L[x] /\ R2[x] = y /\ L2[y] = b /\ R2[y] = R[y]
       /\ \A n \in Sudog : n # x /\ n # y /\ n # p => L2[n] = L[n] /\ R2[n] = R[n]
       /\ p # Nil => /\ isLeft => L2[p] = x /\ R2[p] = R[p] /\ R[p] # y /\ L[p] = y
                     /\ ~isLeft => R2[p] = x /\ L2[p] = L[p] /\ L[p] # y /\ R[p] = y
  <2>1. x # p /\ y # p
    BY <1>0, <1>1, <1>11
  <2>2. p # Nil => p \in Sudog /\ p # x /\ p # y
    BY <1>11
  <2> QED BY <1>1, <1>2, <1>11, <2>1, <2>2 DEF Rotates
<1>15. /\ P2[x] = p /\ P2[y] = x /\ (b # Nil => P2[b] = y)
       /\ \A n \in Sudog : n # x /\ n # y /\ n # b => P2[n] = P[n]
  BY <1>1, <1>2, <1>3, <1>8 DEF Rotates
<1>16. \A n \in Sudog : n # y => L[n] # x /\ R[n] # x
  <2>1. ASSUME NEW n \in Sudog, n # y, L[n] = x \/ R[n] = x
        PROVE  FALSE
    <3>1. n \in D[rt]
      BY <1>1, <1>0, <1>7, <2>1
    <3>2. P[x] = n
      BY <1>1, <1>7, <2>1, <3>1
    <3> QED BY <1>2, <2>1, <3>2
  <2> QED BY <2>1
<1>17. \A n \in Sudog : n # p => L[n] # y /\ R[n] # y
  <2>1. ASSUME NEW n \in Sudog, n # p, L[n] = y \/ R[n] = y
        PROVE  FALSE
    <3>1. n \in D[rt]
      BY <1>1, <1>0, <1>7, <2>1
    <3>2. P[y] = n
      BY <1>1, <1>7, <2>1, <3>1
    <3> QED BY <2>1, <3>2
  <2> QED BY <2>1
<1> QED BY <1>0, <1>1, <1>2, <1>3, <1>4, <1>8, <1>9, <1>10, <1>11, <1>14, <1>15, <1>16, <1>17 DEF Linked

\* The subtrees then.
Rotated(D, R, x, y) == [D EXCEPT ![x] = D[y], ![y] = {y} \cup D[R[x]] \cup D[R[y]]]

\* A rotation makes a tree of a tree.
LEMMA Rotation ==
    ASSUME NEW rt, NEW P, NEW L, NEW R, NEW D, NEW K, NEW x, NEW y, NEW b, NEW p, NEW isLeft,
           NEW P2, NEW L2, NEW R2, Rotates(rt, P, L, R, D, K, x, y, b, p, isLeft, P2, L2, R2),
           NEW rt2, rt2 = IF p = Nil THEN x ELSE rt
    PROVE  IsTree(rt2, P2, L2, R2, Rotated(D, R, x, y), K) /\ Rotated(D, R, x, y)[rt2] = D[rt]
<1>b. Linked(rt, P, L, R, D, K, x, y, b, p, isLeft, P2, L2, R2)
  BY RotationLinks
<1>a. IsTree(rt, P, L, R, D, K) /\ y \in D[rt] /\ x = L[y] /\ x # Nil /\ b = R[x] /\ p = P[y]
  BY DEF Rotates
<1> USE <1>a
<1> DEFINE E == Rotated(D, R, x, y)
<1>0. /\ P \in [Sudog -> Pointer] /\ L \in [Sudog -> Pointer] /\ R \in [Sudog -> Pointer]
      /\ rt \in Pointer /\ D \in [Pointer -> SUBSET Sudog] /\ D[Nil] = {} /\ Nil \notin Sudog
      /\ Pointer = Sudog \cup {Nil}
  BY <1>b DEF Linked
<1>1. y \in Sudog /\ x \in Sudog /\ b \in Pointer /\ p \in Pointer /\ L[x] \in Pointer /\ R[y] \in Pointer
  BY <1>b DEF Linked
<1>2. /\ y \in D[y] /\ y \notin D[x] /\ y \notin D[R[y]] /\ x # y /\ y # R[y]
      /\ D[x] \subseteq D[y] /\ D[R[y]] \subseteq D[y] /\ x # R[y] /\ x \in D[y] /\ P[x] = y
  BY <1>b DEF Linked
<1>3. /\ x \in D[x] /\ x \notin D[L[x]] /\ x \notin D[b] /\ x # L[x] /\ x # b
      /\ D[L[x]] \subseteq D[x] /\ D[b] \subseteq D[x]
      /\ L[x] # Nil => L[x] # b /\ P[L[x]] = x
      /\ b # Nil => b \in Sudog /\ P[b] = x /\ b \in D[x]
  BY <1>b DEF Linked
<1>4. R[y] # Nil => R[y] \in Sudog /\ P[R[y]] = y
  BY <1>b DEF Linked
<1>5. /\ \A n \in Sudog : D[n] = {n} \cup D[L[n]] \cup D[R[n]]
      /\ \A n \in Sudog : \A m \in D[n] : D[m] \subseteq D[n]
  BY DEF IsTree, Nested
<1>6. /\ \A n \in Sudog : K[n] \in Int
      /\ \A n \in Sudog : \A m \in D[L[n]] : K[m] < K[n]
      /\ \A n \in Sudog : \A m \in D[R[n]] : K[n] < K[m]
  BY DEF IsTree, Sorted
<1>7. /\ \A n \in D[rt] : n = rt <=> P[n] = Nil
      /\ \A n \in D[rt], m \in Sudog : m \in {L[n], R[n]} => P[m] = n
      /\ \A n \in D[rt] : n # rt => P[n] \in D[rt] /\ n \in {L[P[n]], R[P[n]]}
      /\ \A n \in Sudog : \A m \in D[n] : m # n => P[m] \in D[n]
      /\ \A n \in Sudog \ D[rt] : P[n] = Nil /\ L[n] = Nil /\ R[n] = Nil
  BY DEF IsTree, Parents
<1>8. L[x] # y /\ b # y
  BY <1>b DEF Linked
<1>9. L[x] # Nil => L[x] # R[y]
  BY <1>b DEF Linked
<1>10. b # Nil => b # R[y]
  BY <1>b DEF Linked
<1>11. p # Nil => p \in D[rt] /\ y \in {L[p], R[p]} /\ L[p] # R[p] /\ p # y /\ p # x /\ p \in Sudog
  BY <1>b DEF Linked
<1>12. /\ E \in [Pointer -> SUBSET Sudog] /\ E[x] = D[y] /\ E[y] = {y} \cup D[b] \cup D[R[y]]
       /\ \A n \in Pointer : n # x /\ n # y => E[n] = D[n]
  BY <1>0, <1>1, <1>2 DEF Rotated
<1> HIDE DEF E
<1>13. E[b] = D[b] /\ E[L[x]] = D[L[x]] /\ E[R[y]] = D[R[y]] /\ E[Nil] = {}
  BY <1>0, <1>1, <1>2, <1>3, <1>8, <1>12
<1>14. /\ L2[x] = L[x] /\ R2[x] = y /\ L2[y] = b /\ R2[y] = R[y]
       /\ \A n \in Sudog : n # x /\ n # y /\ n # p => L2[n] = L[n] /\ R2[n] = R[n]
       /\ p # Nil => /\ isLeft => L2[p] = x /\ R2[p] = R[p] /\ R[p] # y /\ L[p] = y
                     /\ ~isLeft => R2[p] = x /\ L2[p] = L[p] /\ L[p] # y /\ R[p] = y
  BY <1>b DEF Linked
<1>15. /\ P2[x] = p /\ P2[y] = x /\ (b # Nil => P2[b] = y)
       /\ \A n \in Sudog : n # x /\ n # y /\ n # b => P2[n] = P[n]
  BY <1>b DEF Linked
<1>16. \A n \in Sudog : n # y => L[n] # x /\ R[n] # x
  BY <1>b DEF Linked
<1>17. \A n \in Sudog : n # p => L[n] # y /\ R[n] # y
  BY <1>b DEF Linked
\* What is on either side of the nodes that are not rotated.
<1>18. ASSUME NEW n \in Sudog, n # x, n # y
       PROVE  E[L2[n]] = D[L[n]] /\ E[R2[n]] = D[R[n]]
  <2>1. L[n] # x /\ R[n] # x /\ L[n] \in Pointer /\ R[n] \in Pointer
    BY <1>0, <1>16, <1>18
  <2>2. CASE n # p
    BY <1>12, <1>14, <1>17, <1>18, <2>1, <2>2
  <2>3. CASE n = p /\ isLeft
    <3>1. L2[n] = x /\ R2[n] = R[n] /\ R[n] # y /\ L[n] = y
      BY <1>0, <1>14, <2>3
    <3> QED BY <1>12, <2>1, <3>1
  <2>4. CASE n = p /\ ~isLeft
    <3>1. R2[n] = x /\ L2[n] = L[n] /\ L[n] # y /\ R[n] = y
      BY <1>0, <1>14, <2>4
    <3> QED BY <1>12, <2>1, <3>1
  <2> QED BY <2>2, <2>3, <2>4
<1>19. E[rt2] = D[rt] /\ rt2 \in Pointer
  <2>1. CASE p = Nil
    <3>1. rt = y
      BY <1>7, <2>1
    <3> QED BY <1>1, <1>12, <2>1, <3>1, <1>0
  <2>2. CASE p # Nil
    <3>1. y # rt
      BY <1>7, <2>2
    <3>2. x # rt
      BY <1>2, <1>5, <1>7, <1>0, <1>1
    <3> QED BY <1>0, <1>12, <2>2, <3>1, <3>2
  <2> QED BY <2>1, <2>2
<1>20. Pointers(rt2, P2, L2, R2)
  BY <1>0, <1>1, <1>19 DEF Pointers, Rotates
<1>21. Nested(L2, R2, E)
  <2>1. ASSUME NEW n \in Sudog
        PROVE  E[n] = {n} \cup E[L2[n]] \cup E[R2[n]]
    <3>1. CASE n = x
      <4>1. E[L2[x]] = D[L[x]] /\ E[R2[x]] = {y} \cup D[b] \cup D[R[y]]
        BY <1>12, <1>13, <1>14
      <4>2. D[y] = {y} \cup D[x] \cup D[R[y]] /\ D[x] = {x} \cup D[L[x]] \cup D[b]
        BY <1>1, <1>5
      <4> QED BY <1>12, <3>1, <4>1, <4>2
    <3>2. CASE n = y
      BY <1>12, <1>13, <1>14, <3>2
    <3>3. CASE n # x /\ n # y
      <4>1. E[n] = D[n]
        BY <1>0, <1>12, <3>3
      <4> QED BY <1>5, <1>18, <3>3, <4>1
    <3> QED BY <3>1, <3>2, <3>3
  <2>2. ASSUME NEW n \in Sudog, NEW m \in E[n]
        PROVE  E[m] \subseteq E[n]
    <3>0. m \in Sudog
      BY <1>0, <1>12
    <3>1. E[y] \subseteq D[y] /\ (m # x /\ m # y => E[m] = D[m])
      BY <1>0, <1>2, <1>3, <1>12, <3>0
    <3>2. CASE n = x
      BY <1>1, <1>5, <1>12, <2>2, <3>1, <3>2
    <3>3. CASE n = y
      <4>1. m \in {y} \cup D[b] \cup D[R[y]]
        BY <1>12, <2>2, <3>3
      <4>2. x \notin D[R[y]]
        <5>1. K[x] < K[y] /\ K[x] \in Int /\ K[y] \in Int
          BY <1>1, <1>3, <1>6
        <5> QED BY <1>1, <1>6, <5>1
      <4>3. m # x
        BY <1>2, <1>3, <4>1, <4>2
      <4>4. CASE m = y
        BY <3>3, <4>4
      <4>5. CASE m # y /\ m \in D[b]
        <5>1. b \in Sudog
          BY <1>0, <1>1, <4>5
        <5> QED BY <1>5, <1>12, <3>1, <3>3, <4>3, <4>5, <5>1
      <4>6. CASE m # y /\ m \in D[R[y]]
        <5>1. R[y] \in Sudog
          BY <1>0, <1>1, <4>6
        <5> QED BY <1>5, <1>12, <3>1, <3>3, <4>3, <4>6, <5>1
      <4> QED BY <4>1, <4>4, <4>5, <4>6
    <3>4. CASE n # x /\ n # y
      <4>1. E[n] = D[n] /\ D[m] \subseteq D[n]
        BY <1>0, <1>5, <1>12, <2>2, <3>4
      <4>2. CASE m = x
        <5>1. y \in D[n]
          BY <1>2, <1>7, <2>2, <3>4, <4>1, <4>2
        <5> QED BY <1>5, <1>12, <4>1, <4>2, <5>1
      <4>3. CASE m # x
        BY <3>1, <4>1, <4>3
      <4> QED BY <4>2, <4>3
    <3> QED BY <3>2, <3>3, <3>4
  <2> QED BY <1>12, <1>13, <2>1, <2>2 DEF Nested
<1>22. Sorted(L2, R2, E, K)
  <2>1. K[x] < K[y] /\ K[x] \in Int /\ K[y] \in Int
    BY <1>1, <1>3, <1>6
  <2>2. ASSUME NEW n \in Sudog
        PROVE  (\A m \in E[L2[n]] : K[m] < K[n]) /\ (\A m \in E[R2[n]] : K[n] < K[m])
    <3>1. CASE n = x
      <4>1. E[L2[n]] = D[L[n]] /\ E[R2[n]] = {y} \cup D[b] \cup D[R[y]]
        BY <1>12, <1>13, <1>14, <3>1
      <4>2. \A m \in D[b] : K[n] < K[m]
        BY <1>1, <1>6, <3>1
      <4>3. \A m \in D[R[y]] : K[n] < K[m]
        <5>1. \A m \in D[R[y]] : K[y] < K[m] /\ K[m] \in Int
          BY <1>0, <1>1, <1>6
        <5> QED BY <2>1, <3>1, <5>1
      <4> QED BY <1>6, <2>1, <3>1, <4>1, <4>2, <4>3
    <3>2. CASE n = y
      <4>1. E[L2[n]] = D[b] /\ E[R2[n]] = D[R[n]]
        BY <1>12, <1>13, <1>14, <3>2
      <4>2. \A m \in D[b] : K[m] < K[n]
        BY <1>1, <1>3, <1>6, <3>2
      <4> QED BY <1>6, <4>1, <4>2
    <3>3. CASE n # x /\ n # y
      BY <1>6, <1>18, <3>3
    <3> QED BY <3>1, <3>2, <3>3
  <2>3. K \in [Sudog -> Int]
    BY DEF IsTree, Sorted
  <2> QED BY <2>2, <2>3 DEF Sorted
<1>23. Parents(rt2, P2, L2, R2, E)
  <2>1. x \in D[rt] /\ D[y] \subseteq D[rt] /\ rt \in Sudog
    BY <1>0, <1>1, <1>2, <1>5
  <2>2. (b # Nil => b \in D[rt]) /\ (p # Nil => p \in D[rt])
    BY <1>2, <1>3, <1>11, <2>1
  <2>3. ASSUME NEW n \in D[rt]
        PROVE  n = rt2 <=> P2[n] = Nil
    <3>1. n \in Sudog
      BY <1>0
    <3>2. CASE n = x
      <4>1. x # rt
        BY <1>2, <1>7, <1>0, <1>1, <2>1
      <4> QED BY <1>15, <3>2, <4>1
    <3>3. CASE n = y
      BY <1>0, <1>1, <1>2, <1>7, <1>15, <3>3
    <3>4. CASE n # x /\ n # y /\ n = b
      <4>1. n # rt
        BY <1>0, <1>1, <1>3, <1>7, <2>1, <3>4
      <4> QED BY <1>0, <1>1, <1>15, <3>1, <3>4, <4>1
    <3>5. CASE n # x /\ n # y /\ n # b
      <4>1. P2[n] = P[n]
        BY <1>15, <3>1, <3>5
      <4> QED BY <1>7, <3>5, <4>1
    <3> QED BY <3>2, <3>3, <3>4, <3>5
  <2>4. ASSUME NEW n \in D[rt], NEW m \in Sudog, m \in {L2[n], R2[n]}
        PROVE  P2[m] = n
    <3>1. n \in Sudog
      BY <1>0
    <3>2. CASE n = x
      <4>1. m = L[x] \/ m = y
        BY <1>14, <2>4, <3>2
      <4>2. m = L[x] => m # y /\ m # b /\ m # x /\ P[m] = x
        BY <1>3, <1>8, <1>0
      <4> QED BY <1>15, <3>2, <4>1, <4>2
    <3>3. CASE n = y
      <4>1. m = b \/ m = R[y]
        BY <1>14, <2>4, <3>3
      <4>2. m = R[y] => m # y /\ m # b /\ m # x /\ P[m] = y
        BY <1>0, <1>2, <1>4, <1>10
      <4> QED BY <1>0, <1>15, <3>3, <4>1, <4>2
    <3>4. CASE n = p
      <4>1. m = x \/ (m \in {L[p], R[p]} /\ m # y)
        BY <1>0, <1>14, <2>4, <3>1, <3>4
      <4>2. m \in {L[p], R[p]} /\ m # y => m # x /\ P[m] = p /\ m # b
        BY <1>0, <1>3, <1>7, <1>11, <1>16, <2>2, <3>1, <3>4
      <4> QED BY <1>15, <3>4, <4>1, <4>2
    <3>5. CASE n # x /\ n # y /\ n # p
      <4>1. m \in {L[n], R[n]} /\ m # x /\ m # y /\ P[m] = n
        BY <1>7, <1>14, <1>16, <1>17, <2>4, <3>1, <3>5
      <4>2. m # b
        BY <1>0, <1>3, <3>5, <4>1
      <4> QED BY <1>15, <3>5, <4>1, <4>2
    <3> QED BY <3>2, <3>3, <3>4, <3>5
  <2>5. ASSUME NEW n \in D[rt], n # rt2
        PROVE  P2[n] \in D[rt] /\ n \in {L2[P2[n]], R2[P2[n]]}
    <3>1. n \in Sudog
      BY <1>0
    <3>2. CASE n = x
      <4>1. p # Nil
        BY <2>5, <3>2
      <4> QED BY <1>14, <1>15, <2>2, <3>2, <4>1
    <3>3. CASE n = y
      BY <1>14, <1>15, <2>1, <3>3
    <3>4. CASE n # x /\ n # y /\ n = b
      BY <1>0, <1>14, <1>15, <3>1, <3>4
    <3>5. CASE n # x /\ n # y /\ n # b
      <4>1. P2[n] = P[n]
        BY <1>15, <3>1, <3>5
      <4>2. n # rt
        BY <1>7, <2>5, <3>5
      <4>3. PICK q \in D[rt] : q = P[n] /\ n \in {L[q], R[q]} /\ q \in Sudog
        BY <1>0, <1>7, <4>2
      <4>4. n \in {L2[q], R2[q]}
        <5>1. CASE q = x
          <6>1. n = L[x]
            BY <3>5, <4>3, <5>1
          <6> QED BY <1>14, <5>1, <6>1
        <5>2. CASE q = y
          <6>1. n = R[y]
            BY <3>5, <4>3, <5>2
          <6> QED BY <1>14, <5>2, <6>1
        <5>3. CASE q = p
          BY <1>0, <1>14, <3>5, <4>3, <5>3
        <5>4. CASE q # x /\ q # y /\ q # p
          BY <1>14, <4>3, <5>4
        <5> QED BY <5>1, <5>2, <5>3, <5>4
      <4> QED BY <4>1, <4>3, <4>4
    <3> QED BY <3>2, <3>3, <3>4, <3>5
  <2>6. ASSUME NEW n \in Sudog, NEW m \in E[n], m # n
        PROVE  P2[m] \in E[n]
    <3>0. m \in Sudog
      BY <1>0, <1>12
    <3>1. CASE n = x
      <4>1. m \in D[y]
        BY <1>12, <2>6, <3>1
      <4>2. CASE m = y
        BY <1>2, <1>12, <1>15, <3>1, <4>2
      <4>3. CASE m # y /\ m = b
        BY <1>0, <1>2, <1>12, <1>15, <3>0, <3>1, <4>3
      <4>4. CASE m # y /\ m # b
        BY <1>1, <1>7, <1>12, <1>15, <2>6, <3>0, <3>1, <4>1, <4>4
      <4> QED BY <4>2, <4>3, <4>4
    <3>2. CASE n = y
      <4>1. m \in D[b] \/ m \in D[R[y]]
        BY <1>12, <2>6, <3>2
      <4>2. x \notin D[R[y]]
        <5>1. K[x] < K[y] /\ K[x] \in Int /\ K[y] \in Int
          BY <1>1, <1>3, <1>6
        <5> QED BY <1>1, <1>6, <5>1
      <4>3. m # x
        BY <1>3, <4>1, <4>2
      <4>4. CASE m = b
        BY <1>0, <1>12, <1>15, <3>0, <3>2, <4>4
      <4>5. CASE m # b /\ m \in D[b]
        <5>1. P2[m] = P[m] /\ b \in Sudog
          BY <1>0, <1>1, <1>15, <2>6, <3>0, <3>2, <4>3, <4>5
        <5> QED BY <1>7, <1>12, <3>2, <4>5, <5>1
      <4>6. CASE m # b /\ m \in D[R[y]]
        <5>1. P2[m] = P[m] /\ R[y] \in Sudog
          BY <1>0, <1>1, <1>15, <2>6, <3>0, <3>2, <4>3, <4>6
        <5>2. CASE m = R[y]
          BY <1>0, <1>4, <1>12, <3>2, <5>1, <5>2
        <5>3. CASE m # R[y]
          BY <1>7, <1>12, <3>2, <4>6, <5>1, <5>3
        <5> QED BY <5>2, <5>3
      <4> QED BY <4>1, <4>4, <4>5, <4>6
    <3>3. CASE n # x /\ n # y
      <4>0. E[n] = D[n] /\ m \in D[n]
        BY <1>0, <1>12, <2>6, <3>3
      <4>1. x \in D[n] => y \in D[n]
        BY <1>2, <1>7, <3>3
      <4>2. y \in D[n] => p \in D[n]
        BY <1>7, <3>3
      <4>3. CASE m = x
        BY <1>15, <4>0, <4>1, <4>2, <4>3
      <4>4. CASE m = y
        BY <1>2, <1>5, <1>15, <4>0, <4>4
      <4>5. CASE m # x /\ m # y /\ m = b
        <5>1. x \in D[n]
          BY <1>0, <1>3, <1>7, <2>6, <3>0, <4>0, <4>5
        <5> QED BY <1>0, <1>15, <3>0, <4>0, <4>1, <4>5, <5>1
      <4>6. CASE m # x /\ m # y /\ m # b
        BY <1>7, <1>15, <2>6, <3>0, <4>0, <4>6
      <4> QED BY <4>3, <4>4, <4>5, <4>6
    <3> QED BY <3>1, <3>2, <3>3
  <2>7. ASSUME NEW n \in Sudog \ D[rt]
        PROVE  P2[n] = Nil /\ L2[n] = Nil /\ R2[n] = Nil
    <3>1. n # x /\ n # y /\ n # b /\ n # p
      BY <1>0, <2>1, <2>2, <2>7
    <3> QED BY <1>7, <1>14, <1>15, <3>1
  <2> QED BY <1>19, <2>3, <2>4, <2>5, <2>6, <2>7 DEF Parents
<1> QED BY <1>19, <1>20, <1>21, <1>22, <1>23 DEF IsTree, E
\* The exchange of u and t.
Swap(u, t) == [n \in Pointer |-> IF n = u THEN t ELSE IF n = t THEN u ELSE n]

\* The pointers and the subtrees after it.
Moved(F, u, t) == [n \in Sudog |-> Swap(u, t)[F[Swap(u, t)[n]]]]
Swapped(D, u, t) == [n \in Pointer |-> {m \in Sudog : Swap(u, t)[m] \in D[Swap(u, t)[n]]}]

\* A sudog t that is not in the tree takes the place of a node u.
LEMMA Replacement ==
    ASSUME NEW rt, NEW P, NEW L, NEW R, NEW D, NEW K, IsTree(rt, P, L, R, D, K),
           NEW u \in D[rt], NEW t \in Sudog \ D[rt],
           NEW rt2, rt2 = Swap(u, t)[rt],
           NEW P2, P2 = Moved(P, u, t),
           NEW L2, L2 = Moved(L, u, t),
           NEW R2, R2 = Moved(R, u, t),
           NEW K2 \in [Sudog -> Int], \A n \in D[rt] : K2[Swap(u, t)[n]] = K[n]
    PROVE  /\ IsTree(rt2, P2, L2, R2, Swapped(D, u, t), K2)
           /\ Swapped(D, u, t)[rt2] = (D[rt] \ {u}) \cup {t}
<1> DEFINE X == Swap(u, t)
           E == Swapped(D, u, t)
<1>0. /\ P \in [Sudog -> Pointer] /\ L \in [Sudog -> Pointer] /\ R \in [Sudog -> Pointer]
      /\ rt \in Pointer /\ D \in [Pointer -> SUBSET Sudog] /\ D[Nil] = {} /\ Nil \notin Sudog
      /\ Pointer = Sudog \cup {Nil}
  BY TreapAssumption DEF IsTree, Pointers, Nested, Pointer
<1>1. u \in Sudog /\ t \in Sudog /\ u # t /\ u # Nil /\ t # Nil
  BY <1>0
<1>2. /\ X \in [Pointer -> Pointer] /\ \A n \in Pointer : X[X[n]] = n
      /\ X[Nil] = Nil /\ \A n \in Sudog : X[n] \in Sudog
      /\ X[u] = t /\ X[t] = u /\ \A n \in Sudog : n # u /\ n # t => X[n] = n
  BY <1>0, <1>1 DEF Swap
<1>3. /\ E \in [Pointer -> SUBSET Sudog]
      /\ \A n \in Pointer : \A m \in Sudog : m \in E[n] <=> X[m] \in D[X[n]]
  BY DEF Swapped
<1>4. /\ rt2 = X[rt]
      /\ \A n \in Sudog : P2[n] = X[P[X[n]]] /\ L2[n] = X[L[X[n]]] /\ R2[n] = X[R[X[n]]]
      /\ \A n \in D[rt] : K2[X[n]] = K[n]
  BY DEF Moved
<1>5. P2 \in [Sudog -> Pointer] /\ L2 \in [Sudog -> Pointer] /\ R2 \in [Sudog -> Pointer]
  <2>1. \A n \in Sudog : X[P[X[n]]] \in Pointer /\ X[L[X[n]]] \in Pointer /\ X[R[X[n]]] \in Pointer
    BY <1>0, <1>2
  <2> HIDE DEF X
  <2> QED BY <2>1 DEF X, Moved
<1> HIDE DEF E, X
\* A sudog of the new tree stands for one of the old, and its pointers for those.
<1>6. \A n \in Sudog : /\ X[n] \in Sudog /\ n \in Pointer /\ X[n] \in Pointer
                       /\ X[P2[n]] = P[X[n]] /\ X[L2[n]] = L[X[n]] /\ X[R2[n]] = R[X[n]]
                       /\ P2[n] \in Pointer /\ L2[n] \in Pointer /\ R2[n] \in Pointer
  <2> TAKE n \in Sudog
  <2>1. X[n] \in Sudog /\ n \in Pointer /\ X[n] \in Pointer
    BY <1>0, <1>2
  <2>2. P[X[n]] \in Pointer /\ L[X[n]] \in Pointer /\ R[X[n]] \in Pointer
    BY <1>0, <2>1
  <2> QED BY <1>2, <1>4, <1>5, <2>1, <2>2
<1>7. X[rt2] = rt /\ rt2 \in Pointer
  BY <1>0, <1>2, <1>4
<1>8. \A m, n \in Pointer : X[m] = X[n] => m = n
  BY <1>2
<1>9. \A n \in Sudog : n \in E[rt2] <=> X[n] \in D[rt]
  BY <1>3, <1>7
<1>10. Pointers(rt2, P2, L2, R2)
  BY <1>5, <1>7 DEF Pointers
<1>11. Nested(L2, R2, E)
  <2>1. E[Nil] = {}
    BY <1>0, <1>2, <1>3
  <2>2. /\ \A n \in Sudog : D[n] = {n} \cup D[L[n]] \cup D[R[n]]
        /\ \A n \in Sudog : \A m \in D[n] : D[m] \subseteq D[n]
    BY DEF IsTree, Nested
  <2>3. ASSUME NEW n \in Sudog, NEW m \in Sudog
        PROVE  m \in E[n] <=> m \in {n} \cup E[L2[n]] \cup E[R2[n]]
    <3>1. m \in E[L2[n]] <=> X[m] \in D[L[X[n]]]
      BY <1>3, <1>6
    <3>2. m \in E[R2[n]] <=> X[m] \in D[R[X[n]]]
      BY <1>3, <1>6
    <3>3. m \in E[n] <=> X[m] \in D[X[n]]
      BY <1>3, <1>6
    <3>4. D[X[n]] = {X[n]} \cup D[L[X[n]]] \cup D[R[X[n]]]
      BY <1>6, <2>2
    <3>5. X[m] = X[n] <=> m = n
      BY <1>6, <1>8
    <3> QED BY <3>1, <3>2, <3>3, <3>4, <3>5
  <2>4. ASSUME NEW n \in Sudog
        PROVE  E[n] = {n} \cup E[L2[n]] \cup E[R2[n]]
    <3>1. E[n] \subseteq Sudog /\ E[L2[n]] \subseteq Sudog /\ E[R2[n]] \subseteq Sudog
      BY <1>3, <1>6
    <3> QED BY <2>3, <3>1
  <2>5. ASSUME NEW n \in Sudog, NEW m \in E[n]
        PROVE  E[m] \subseteq E[n]
    <3>1. m \in Sudog /\ E[m] \subseteq Sudog /\ m \in Pointer
      BY <1>0, <1>3, <1>6
    <3>2. X[m] \in D[X[n]] /\ X[n] \in Sudog
      BY <1>3, <1>6, <2>5, <3>1
    <3>3. D[X[m]] \subseteq D[X[n]]
      BY <2>2, <3>2
    <3>4. \A k \in Sudog : k \in E[m] => k \in E[n]
      BY <1>3, <1>6, <3>1, <3>3
    <3> QED BY <3>1, <3>4
  <2> QED BY <1>3, <2>1, <2>4, <2>5 DEF Nested
<1>12. Sorted(L2, R2, E, K2)
  <2>1. /\ \A n \in Sudog : \A m \in D[L[n]] : K[m] < K[n]
        /\ \A n \in Sudog : \A m \in D[R[n]] : K[n] < K[m]
    BY DEF IsTree, Sorted
  <2>2. \A n \in Sudog : n \in D[rt] => /\ D[L[n]] \subseteq D[rt] /\ D[R[n]] \subseteq D[rt]
    <3>1. \A n \in Sudog : n \in D[rt] => D[n] \subseteq D[rt]
      BY <1>0 DEF IsTree, Nested
    <3> QED BY <3>1, TreeNode
  <2>3. \A n \in Sudog : n \notin D[rt] => D[L[n]] = {} /\ D[R[n]] = {}
    BY <1>0 DEF IsTree, Parents
  <2>4. \A n \in Sudog : n \in E[rt2] => K2[n] = K[X[n]]
    BY <1>2, <1>4, <1>6, <1>9
  <2>5. ASSUME NEW n \in Sudog, NEW m \in E[L2[n]]
        PROVE  K2[m] < K2[n]
    <3>1. m \in Sudog
      BY <1>3, <1>6
    <3>2. X[m] \in D[L[X[n]]]
      BY <1>3, <1>6, <3>1
    <3>3. X[n] \in D[rt] /\ X[m] \in D[rt]
      <4>1. X[n] \in Sudog
        BY <1>6
      <4> QED BY <2>2, <2>3, <3>2, <4>1
    <3>4. K2[m] = K[X[m]] /\ K2[n] = K[X[n]]
      BY <1>9, <2>4, <3>1, <3>3
    <3> QED BY <1>6, <2>1, <3>2, <3>4
  <2>6. ASSUME NEW n \in Sudog, NEW m \in E[R2[n]]
        PROVE  K2[n] < K2[m]
    <3>1. m \in Sudog
      BY <1>3, <1>6
    <3>2. X[m] \in D[R[X[n]]]
      BY <1>3, <1>6, <3>1
    <3>3. X[n] \in D[rt] /\ X[m] \in D[rt]
      <4>1. X[n] \in Sudog
        BY <1>6
      <4> QED BY <2>2, <2>3, <3>2, <4>1
    <3>4. K2[m] = K[X[m]] /\ K2[n] = K[X[n]]
      BY <1>9, <2>4, <3>1, <3>3
    <3> QED BY <1>6, <2>1, <3>2, <3>4
  <2> QED BY <2>5, <2>6 DEF Sorted
<1>13. Parents(rt2, P2, L2, R2, E)
  <2>1. /\ \A n \in D[rt] : n = rt <=> P[n] = Nil
        /\ \A n \in D[rt], m \in Sudog : m \in {L[n], R[n]} => P[m] = n
        /\ \A n \in D[rt] : n # rt => P[n] \in D[rt] /\ n \in {L[P[n]], R[P[n]]}
        /\ \A n \in Sudog : \A m \in D[n] : m # n => P[m] \in D[n]
        /\ \A n \in Sudog \ D[rt] : P[n] = Nil /\ L[n] = Nil /\ R[n] = Nil
    BY DEF IsTree, Parents
  <2>2. E[rt2] \subseteq Sudog
    BY <1>3, <1>7
  <2>3. \A n \in Pointer : X[n] = Nil <=> n = Nil
    BY <1>2, <1>0
  <2>4. ASSUME NEW n \in E[rt2]
        PROVE  n = rt2 <=> P2[n] = Nil
    <3>1. n \in Sudog /\ X[n] \in D[rt]
      BY <1>9, <2>2
    <3>2. n = rt2 <=> X[n] = rt
      BY <1>6, <1>7, <1>8, <3>1
    <3>3. P2[n] = Nil <=> P[X[n]] = Nil
      BY <1>6, <2>3, <3>1
    <3> QED BY <2>1, <3>1, <3>2, <3>3
  <2>5. ASSUME NEW n \in E[rt2], NEW m \in Sudog, m \in {L2[n], R2[n]}
        PROVE  P2[m] = n
    <3>1. n \in Sudog /\ X[n] \in D[rt]
      BY <1>9, <2>2
    <3>2. X[m] \in {L[X[n]], R[X[n]]} /\ X[m] \in Sudog
      BY <1>6, <2>5, <3>1
    <3>3. X[P2[m]] = X[n]
      <4>1. X[P2[m]] = P[X[m]]
        BY <1>6
      <4>2. P[X[m]] = X[n]
        BY <2>1, <3>1, <3>2
      <4> QED BY <4>1, <4>2
    <3> QED BY <1>6, <1>8, <3>1, <3>3
  <2>6. ASSUME NEW n \in E[rt2], n # rt2
        PROVE  P2[n] \in E[rt2] /\ n \in {L2[P2[n]], R2[P2[n]]}
    <3>1. n \in Sudog /\ X[n] \in D[rt]
      BY <1>9, <2>2
    <3>2. X[n] # rt
      BY <1>6, <1>7, <1>8, <2>6, <3>1
    <3>3. P[X[n]] \in D[rt] /\ X[n] \in {L[P[X[n]]], R[P[X[n]]]}
      BY <2>1, <3>1, <3>2
    <3>4. P2[n] \in Sudog /\ X[P2[n]] = P[X[n]]
      BY <1>0, <1>6, <2>3, <3>1, <3>3
    <3>5. P2[n] \in E[rt2]
      BY <1>9, <3>3, <3>4
    <3>6. PICK q \in Sudog : q = P2[n] /\ X[q] = P[X[n]]
      BY <3>4
    <3>7. X[L2[q]] = L[X[q]] /\ X[R2[q]] = R[X[q]] /\ L2[q] \in Pointer /\ R2[q] \in Pointer
      BY <1>6
    <3>8. X[n] = X[L2[q]] \/ X[n] = X[R2[q]]
      BY <3>3, <3>6, <3>7
    <3>9. n \in {L2[q], R2[q]}
      BY <1>6, <1>8, <3>1, <3>7, <3>8
    <3> QED BY <3>5, <3>6, <3>9
  <2>7. ASSUME NEW n \in Sudog, NEW m \in E[n], m # n
        PROVE  P2[m] \in E[n]
    <3>1. m \in Sudog /\ n \in Pointer
      BY <1>3, <1>6
    <3>2. X[m] \in D[X[n]] /\ X[m] # X[n] /\ X[n] \in Sudog
      BY <1>3, <1>6, <1>8, <2>7, <3>1
    <3>3. P[X[m]] \in D[X[n]]
      BY <2>1, <3>2
    <3>4. P2[m] \in Sudog
      BY <1>0, <1>6, <2>3, <3>1, <3>2, <3>3
    <3> QED BY <1>3, <1>6, <3>1, <3>3, <3>4
  <2>8. ASSUME NEW n \in Sudog \ E[rt2]
        PROVE  P2[n] = Nil /\ L2[n] = Nil /\ R2[n] = Nil
    <3>1. X[n] \in Sudog \ D[rt]
      BY <1>6, <1>9
    <3> QED BY <1>6, <2>1, <2>3, <3>1
  <2> QED BY <2>4, <2>5, <2>6, <2>7, <2>8 DEF Parents
<1>14. E[rt2] = (D[rt] \ {u}) \cup {t}
  <2>1. \A n \in Sudog : n \in E[rt2] <=> n \in (D[rt] \ {u}) \cup {t}
    BY <1>1, <1>2, <1>9
  <2>2. E[rt2] \subseteq Sudog /\ D[rt] \subseteq Sudog
    BY <1>0, <1>3, <1>7
  <2> QED BY <1>1, <2>1, <2>2
<1> QED BY <1>10, <1>11, <1>12, <1>13, <1>14 DEF IsTree, E

\* The subtrees when z has been added below u.
Grown(D, u, z) == [n \in Pointer |-> IF u \in D[n] THEN D[n] \cup {z} ELSE D[n]]

With(F, n, m) == [F EXCEPT ![n] = m]

\* A sudog z becomes the left child of a node u that has none.
LEMMA AddLeft ==
    ASSUME NEW rt, NEW P, NEW L, NEW R, NEW D, NEW K, IsTree(rt, P, L, R, D, K),
           NEW u \in D[rt], L[u] = Nil, NEW z \in Sudog \ D[rt],
           \A n \in Sudog : u \in D[L[n]] => K[z] < K[n],
           \A n \in Sudog : u \in D[R[n]] => K[n] < K[z],
           K[z] < K[u],
           NEW P2, P2 = With(P, z, u),
           NEW L2, L2 = With(L, u, z)
    PROVE  IsTree(rt, P2, L2, R, Grown(D, u, z), K) /\ Grown(D, u, z)[rt] = D[rt] \cup {z}
<1> DEFINE E == Grown(D, u, z)
<1>0. /\ P \in [Sudog -> Pointer] /\ L \in [Sudog -> Pointer] /\ R \in [Sudog -> Pointer]
      /\ rt \in Pointer /\ D \in [Pointer -> SUBSET Sudog] /\ D[Nil] = {} /\ Nil \notin Sudog
      /\ Pointer = Sudog \cup {Nil}
  BY TreapAssumption DEF IsTree, Pointers, Nested, Pointer
<1>1. u \in Sudog /\ z \in Sudog /\ u # z
  BY <1>0
<1>2. /\ \A n \in Sudog : D[n] = {n} \cup D[L[n]] \cup D[R[n]]
      /\ \A n \in Sudog : \A m \in D[n] : D[m] \subseteq D[n]
  BY DEF IsTree, Nested
<1>3. /\ \A n \in D[rt] : n = rt <=> P[n] = Nil
      /\ \A n \in D[rt], m \in Sudog : m \in {L[n], R[n]} => P[m] = n
      /\ \A n \in D[rt] : n # rt => P[n] \in D[rt] /\ n \in {L[P[n]], R[P[n]]}
      /\ \A n \in Sudog : \A m \in D[n] : m # n => P[m] \in D[n]
      /\ \A n \in Sudog \ D[rt] : P[n] = Nil /\ L[n] = Nil /\ R[n] = Nil
  BY DEF IsTree, Parents
<1>4. /\ E \in [Pointer -> SUBSET Sudog] /\ E[Nil] = {}
      /\ \A n \in Pointer : E[n] = IF u \in D[n] THEN D[n] \cup {z} ELSE D[n]
  BY <1>0, <1>1 DEF Grown
<1> HIDE DEF E
<1>5. D[z] = {z} /\ L[z] = Nil /\ R[z] = Nil /\ P[z] = Nil
  BY <1>0, <1>1, <1>2, <1>3
<1>6. E[z] = {z} /\ rt \in Sudog /\ E[rt] = D[rt] \cup {z}
  BY <1>0, <1>1, <1>4, <1>5
<1>7. u \in D[u] /\ u \notin D[R[u]] /\ u # R[u]
  BY <1>1, TreeNode
<1>8. /\ P2 \in [Sudog -> Pointer] /\ L2 \in [Sudog -> Pointer] /\ L2[u] = z /\ P2[z] = u
      /\ \A n \in Sudog : n # u => L2[n] = L[n]
      /\ \A n \in Sudog : n # z => P2[n] = P[n]
  BY <1>0, <1>1 DEF With
\* Nobody has z in a subtree yet.
<1>9. \A n \in Sudog : z \in D[n] => n = z
  BY <1>1, <1>3, <1>5, <1>0, <1>2
<1>10. \A n \in Sudog : L[n] # z /\ R[n] # z
  BY <1>0, <1>1, <1>3, <1>5, <1>6, <1>9, TreeNode
<1>11. ASSUME NEW n \in Sudog, n # u
       PROVE  /\ \A m : m \in E[L[n]] <=> m \in D[L[n]] \/ (m = z /\ u \in D[L[n]])
              /\ \A m : m \in E[R[n]] <=> m \in D[R[n]] \/ (m = z /\ u \in D[R[n]])
              /\ \A m : m \in E[n] <=> m \in D[n] \/ (m = z /\ u \in D[n])
              /\ L2[n] = L[n] /\ L[n] \in Pointer /\ R[n] \in Pointer
  <2>1. L[n] \in Pointer /\ R[n] \in Pointer /\ n \in Pointer
    BY <1>0
  <2> QED BY <1>4, <1>8, <1>11, <2>1
<1>12. E[R[u]] = D[R[u]] /\ E[u] = D[u] \cup {z} /\ D[u] = {u} \cup D[R[u]] /\ R[u] \in Pointer
  BY <1>0, <1>1, <1>2, <1>4, <1>7, ZenonT(60)
<1>13. Pointers(rt, P2, L2, R)
  BY <1>0, <1>8 DEF Pointers
<1>14. Nested(L2, R, E)
  <2>1. ASSUME NEW n \in Sudog
        PROVE  E[n] = {n} \cup E[L2[n]] \cup E[R[n]]
    <3>1. CASE n = u
      BY <1>6, <1>8, <1>12, <3>1
    <3>2. CASE n # u
      <4>1. u \in D[n] <=> u \in D[L[n]] \/ u \in D[R[n]]
        BY <1>2, <3>2
      <4>2. D[n] = {n} \cup D[L[n]] \cup D[R[n]]
        BY <1>2
      <4>3. \A m : m \in E[n] <=> m \in {n} \cup E[L2[n]] \cup E[R[n]]
        BY <1>11, <3>2, <4>1, <4>2
      <4> QED BY <4>3
    <3> QED BY <3>1, <3>2
  <2>2. ASSUME NEW n \in Sudog, NEW m \in E[n]
        PROVE  E[m] \subseteq E[n]
    <3>1. m \in Sudog /\ m \in Pointer /\ n \in Pointer
      BY <1>0, <1>4
    <3>2. CASE m = z
      BY <1>6, <2>2, <3>2
    <3>3. CASE m # z
      <4>1. m \in D[n]
        BY <1>4, <2>2, <3>1, <3>3
      <4>2. D[m] \subseteq D[n]
        BY <1>2, <4>1
      <4> QED BY <1>4, <3>1, <4>2
    <3> QED BY <3>2, <3>3
  <2> QED BY <1>4, <2>1, <2>2 DEF Nested
<1>15. Sorted(L2, R, E, K)
  <2>1. /\ K \in [Sudog -> Int]
        /\ \A n \in Sudog : \A m \in D[L[n]] : K[m] < K[n]
        /\ \A n \in Sudog : \A m \in D[R[n]] : K[n] < K[m]
    BY DEF IsTree, Sorted
  <2>2. ASSUME NEW n \in Sudog, NEW m \in E[L2[n]]
        PROVE  K[m] < K[n]
    <3>1. CASE n = u
      BY <1>6, <1>8, <2>2, <3>1
    <3>2. CASE n # u
      <4>1. m \in D[L[n]] \/ (m = z /\ u \in D[L[n]])
        BY <1>11, <2>2, <3>2
      <4> QED BY <2>1, <4>1
    <3> QED BY <3>1, <3>2
  <2>3. ASSUME NEW n \in Sudog, NEW m \in E[R[n]]
        PROVE  K[n] < K[m]
    <3>1. CASE n = u
      BY <1>12, <2>1, <2>3, <3>1
    <3>2. CASE n # u
      <4>1. m \in D[R[n]] \/ (m = z /\ u \in D[R[n]])
        BY <1>11, <2>3, <3>2
      <4> QED BY <2>1, <4>1
    <3> QED BY <3>1, <3>2
  <2> QED BY <2>1, <2>2, <2>3 DEF Sorted
<1>16. Parents(rt, P2, L2, R, E)
  <2>1. ASSUME NEW n \in D[rt] \cup {z}
        PROVE  n = rt <=> P2[n] = Nil
    <3>1. rt \in D[rt] /\ rt # z /\ u # Nil /\ n \in Sudog
      BY <1>0, <1>1, <1>2, <1>6
    <3>2. CASE n = z
      BY <1>8, <3>1, <3>2
    <3>3. CASE n # z
      BY <1>3, <1>8, <3>1, <3>3
    <3> QED BY <3>2, <3>3
  <2>2. ASSUME NEW n \in D[rt] \cup {z}, NEW m \in Sudog, m \in {L2[n], R[n]}
        PROVE  P2[m] = n
    <3>1. n \in Sudog
      BY <1>0, <1>1
    <3>2. CASE n = z
      BY <1>0, <1>1, <1>5, <1>8, <2>2, <3>2
    <3>3. CASE n = u
      BY <1>3, <1>8, <1>10, <2>2, <3>3
    <3>4. CASE n # z /\ n # u
      <4>1. m \in {L[n], R[n]} /\ n \in D[rt] /\ m # z
        BY <1>8, <1>10, <2>2, <3>1, <3>4
      <4> QED BY <1>3, <1>8, <4>1
    <3> QED BY <3>2, <3>3, <3>4
  <2>3. ASSUME NEW n \in D[rt] \cup {z}, n # rt
        PROVE  P2[n] \in D[rt] \cup {z} /\ n \in {L2[P2[n]], R[P2[n]]}
    <3>1. CASE n = z
      BY <1>8, <3>1
    <3>2. CASE n # z
      <4>1. P2[n] = P[n] /\ P[n] \in D[rt] /\ n \in {L[P[n]], R[P[n]]} /\ P[n] \in Sudog /\ n \in Sudog
        BY <1>0, <1>3, <1>8, <2>3, <3>2
      <4>2. L2[P[n]] = L[P[n]] \/ n # L[P[n]]
        <5>1. n # Nil
          BY <1>0, <4>1
        <5> QED BY <1>8, <4>1, <5>1
      <4> QED BY <4>1, <4>2
    <3> QED BY <3>1, <3>2
  <2>4. ASSUME NEW n \in Sudog, NEW m \in E[n], m # n
        PROVE  P2[m] \in E[n]
    <3>1. m \in Sudog /\ m \in Pointer /\ n \in Pointer
      BY <1>0, <1>4
    <3>2. CASE m = z
      <4>1. u \in D[n]
        BY <1>4, <1>9, <2>4, <3>1, <3>2
      <4> QED BY <1>4, <1>8, <3>1, <3>2, <4>1
    <3>3. CASE m # z
      <4>1. m \in D[n] /\ P2[m] = P[m]
        BY <1>4, <1>8, <2>4, <3>1, <3>3
      <4> QED BY <1>3, <1>4, <2>4, <3>1, <4>1
    <3> QED BY <3>2, <3>3
  <2>5. ASSUME NEW n \in Sudog \ (D[rt] \cup {z})
        PROVE  P2[n] = Nil /\ L2[n] = Nil /\ R[n] = Nil
    BY <1>3, <1>8
  <2> QED BY <1>6, <2>1, <2>2, <2>3, <2>4, <2>5 DEF Parents
<1> QED BY <1>6, <1>13, <1>14, <1>15, <1>16 DEF IsTree, E
\* The first node of a tree.
LEMMA AddFirst ==
    ASSUME NEW P, NEW L, NEW R, NEW D, NEW K, IsTree(Nil, P, L, R, D, K), NEW z \in Sudog
    PROVE  IsTree(z, P, L, R, D, K) /\ D[z] = {z}
<1>0. /\ D[Nil] = {} /\ Nil \notin Sudog /\ Pointer = Sudog \cup {Nil}
  BY TreapAssumption DEF IsTree, Pointers, Nested, Pointer
<1>1. \A n \in Sudog : P[n] = Nil /\ L[n] = Nil /\ R[n] = Nil
  BY <1>0 DEF IsTree, Parents
<1>2. \A n \in Sudog : D[n] = {n}
  BY <1>0, <1>1 DEF IsTree, Nested
<1>3. Parents(z, P, L, R, D)
  BY <1>0, <1>1, <1>2 DEF Parents
<1>4. Pointers(z, P, L, R)
  BY <1>0 DEF IsTree, Pointers
<1> QED BY <1>2, <1>3, <1>4 DEF IsTree

\* The subtrees when the leaf u has been cut off.
Cut(D, u) == [n \in Pointer |-> IF n = u THEN {u} ELSE D[n] \ {u}]

\* A leaf is cut off.
LEMMA CutLeaf ==
    ASSUME NEW rt, NEW P, NEW L, NEW R, NEW D, NEW K, IsTree(rt, P, L, R, D, K),
           NEW u \in D[rt], L[u] = Nil, R[u] = Nil,
           NEW rt2, rt2 = IF P[u] = Nil THEN Nil ELSE rt,
           NEW P2, P2 = With(P, u, Nil),
           NEW L2, L2 = [n \in Sudog |-> IF L[n] = u THEN Nil ELSE L[n]],
           NEW R2, R2 = [n \in Sudog |-> IF R[n] = u THEN Nil ELSE R[n]],
           NEW K2 \in [Sudog -> Int], \A n \in Sudog : n # u => K2[n] = K[n]
    PROVE  IsTree(rt2, P2, L2, R2, Cut(D, u), K2) /\ Cut(D, u)[rt2] = D[rt] \ {u}
<1> DEFINE E == Cut(D, u)
<1>0. /\ P \in [Sudog -> Pointer] /\ L \in [Sudog -> Pointer] /\ R \in [Sudog -> Pointer]
      /\ rt \in Pointer /\ D \in [Pointer -> SUBSET Sudog] /\ D[Nil] = {} /\ Nil \notin Sudog
      /\ Pointer = Sudog \cup {Nil}
  BY TreapAssumption DEF IsTree, Pointers, Nested, Pointer
<1>1. u \in Sudog /\ u # Nil
  BY <1>0
<1>2. /\ \A n \in Sudog : D[n] = {n} \cup D[L[n]] \cup D[R[n]]
      /\ \A n \in Sudog : \A m \in D[n] : D[m] \subseteq D[n]
  BY DEF IsTree, Nested
<1>3. /\ \A n \in D[rt] : n = rt <=> P[n] = Nil
      /\ \A n \in D[rt], m \in Sudog : m \in {L[n], R[n]} => P[m] = n
      /\ \A n \in D[rt] : n # rt => P[n] \in D[rt] /\ n \in {L[P[n]], R[P[n]]}
      /\ \A n \in Sudog : \A m \in D[n] : m # n => P[m] \in D[n]
      /\ \A n \in Sudog \ D[rt] : P[n] = Nil /\ L[n] = Nil /\ R[n] = Nil
  BY DEF IsTree, Parents
<1>4. /\ E \in [Pointer -> SUBSET Sudog] /\ E[Nil] = {} /\ E[u] = {u}
      /\ \A n \in Pointer : n # u => E[n] = D[n] \ {u}
  BY <1>0, <1>1 DEF Cut
<1> HIDE DEF E
<1>5. D[u] = {u} /\ rt \in Sudog
  BY <1>0, <1>1, <1>2
<1>6. /\ L2 \in [Sudog -> Pointer] /\ R2 \in [Sudog -> Pointer] /\ P2 \in [Sudog -> Pointer]
      /\ P2[u] = Nil /\ (\A n \in Sudog : n # u => P2[n] = P[n])
      /\ L2[u] = Nil /\ R2[u] = Nil
  BY <1>0, <1>1 DEF With
<1>7. ASSUME NEW n \in Sudog
      PROVE  /\ L2[n] = IF L[n] = u THEN Nil ELSE L[n]
             /\ R2[n] = IF R[n] = u THEN Nil ELSE R[n]
             /\ L2[n] # u /\ R2[n] # u /\ L2[n] \in Pointer /\ R2[n] \in Pointer
             /\ E[L2[n]] = D[L[n]] \ {u} /\ E[R2[n]] = D[R[n]] \ {u}
  <2>1. L[n] \in Pointer /\ R[n] \in Pointer
    BY <1>0
  <2>2. /\ L2[n] = IF L[n] = u THEN Nil ELSE L[n]
        /\ R2[n] = IF R[n] = u THEN Nil ELSE R[n]
    OBVIOUS
  <2>3. E[L2[n]] = D[L[n]] \ {u}
    BY <1>0, <1>1, <1>4, <1>5, <2>1, <2>2
  <2>4. E[R2[n]] = D[R[n]] \ {u}
    BY <1>0, <1>1, <1>4, <1>5, <2>1, <2>2
  <2> QED BY <1>0, <1>1, <2>1, <2>2, <2>3, <2>4
<1>8. rt2 \in Pointer /\ E[rt2] = D[rt] \ {u}
  <2>1. CASE P[u] = Nil
    BY <1>0, <1>3, <1>4, <1>5, <2>1
  <2>2. CASE P[u] # Nil
    BY <1>0, <1>3, <1>4, <2>2
  <2> QED BY <2>1, <2>2
<1>9. \A n \in Sudog : n # u => E[n] = D[n] \ {u} /\ n \in E[n]
  BY <1>0, <1>2, <1>4
<1>10. Pointers(rt2, P2, L2, R2)
  BY <1>6, <1>8 DEF Pointers
<1>11. Nested(L2, R2, E)
  <2>1. ASSUME NEW n \in Sudog
        PROVE  E[n] = {n} \cup E[L2[n]] \cup E[R2[n]]
    <3>1. CASE n = u
      BY <1>4, <1>6, <3>1
    <3>2. CASE n # u
      <4>1. D[n] = {n} \cup D[L[n]] \cup D[R[n]]
        BY <1>2
      <4> QED BY <1>7, <1>9, <3>2, <4>1
    <3> QED BY <3>1, <3>2
  <2>2. ASSUME NEW n \in Sudog, NEW m \in E[n]
        PROVE  E[m] \subseteq E[n]
    <3>1. CASE n = u
      BY <1>4, <2>2, <3>1
    <3>2. CASE n # u
      <4>1. m \in Sudog /\ m # u /\ m \in D[n]
        BY <1>0, <1>9, <2>2, <3>2
      <4> QED BY <1>2, <1>9, <3>2, <4>1
    <3> QED BY <3>1, <3>2
  <2> QED BY <1>4, <2>1, <2>2 DEF Nested
<1>12. Sorted(L2, R2, E, K2)
  <2>1. /\ \A n \in Sudog : \A m \in D[L[n]] : K[m] < K[n]
        /\ \A n \in Sudog : \A m \in D[R[n]] : K[n] < K[m]
    BY DEF IsTree, Sorted
  <2>2. ASSUME NEW n \in Sudog
        PROVE  (\A m \in E[L2[n]] : K2[m] < K2[n]) /\ (\A m \in E[R2[n]] : K2[n] < K2[m])
    <3>1. CASE n = u
      BY <1>4, <1>6, <3>1
    <3>2. CASE n # u
      <4>1. E[L2[n]] = D[L[n]] \ {u} /\ E[R2[n]] = D[R[n]] \ {u}
        BY <1>7
      <4>2. D[L[n]] \subseteq Sudog /\ D[R[n]] \subseteq Sudog
        BY <1>0
      <4> QED BY <2>1, <3>2, <4>1, <4>2
    <3> QED BY <3>1, <3>2
  <2> QED BY <2>2 DEF Sorted
<1>13. Parents(rt2, P2, L2, R2, E)
  <2>1. P[u] = Nil => D[rt] = {u}
    BY <1>3, <1>5
  <2>2. P[u] # Nil => rt2 = rt /\ rt # u
    BY <1>3
  <2>3. D[rt] \subseteq Sudog
    BY <1>0, <1>5
  <2>4. ASSUME NEW n \in D[rt] \ {u}
        PROVE  /\ n = rt2 <=> P2[n] = Nil
               /\ \A m \in Sudog : m \in {L2[n], R2[n]} => P2[m] = n
               /\ n # rt2 => P2[n] \in D[rt] \ {u} /\ n \in {L2[P2[n]], R2[P2[n]]}
    <3>1. P[u] # Nil /\ n \in Sudog /\ n # u /\ P2[n] = P[n] /\ rt2 = rt
      BY <1>6, <2>1, <2>2, <2>3
    <3>2. \A m \in Sudog : m \in {L2[n], R2[n]} => m \in {L[n], R[n]} /\ m # u
      BY <1>0, <1>7, <3>1
    <3>3. \A m \in Sudog : m \in {L2[n], R2[n]} => P2[m] = n
      BY <1>3, <1>6, <3>2
    <3>4. ASSUME n # rt
          PROVE  P[n] \in D[rt] \ {u} /\ n \in {L2[P[n]], R2[P[n]]}
      <4>1. PICK q \in D[rt] : q = P[n] /\ n \in {L[q], R[q]} /\ q \in Sudog
        BY <1>3, <2>3, <3>4
      <4>2. q # u
        BY <1>0, <3>1, <4>1
      <4>3. n \in {L2[q], R2[q]}
        BY <1>7, <3>1, <4>1
      <4> QED BY <4>1, <4>2, <4>3
    <3> QED BY <1>3, <3>1, <3>3, <3>4
  <2>5. ASSUME NEW n \in Sudog, NEW m \in E[n], m # n
        PROVE  P2[m] \in E[n]
    <3>1. n # u
      BY <1>4, <2>5
    <3>2. m \in D[n] /\ m # u /\ m \in Sudog
      BY <1>0, <1>9, <2>5, <3>1
    <3>3. P2[m] = P[m] /\ P[m] \in D[n]
      BY <1>3, <1>6, <2>5, <3>2
    <3>4. P[m] # u
      <4>1. m \in D[rt]
        <5>1. P[m] # Nil
          BY <1>0, <3>3
        <5> QED BY <1>3, <3>2, <5>1
      <4>2. P[m] = u => m \in {L[u], R[u]}
        BY <1>1, <1>3, <4>1
      <4> QED BY <1>0, <3>2, <4>2
    <3> QED BY <1>9, <3>1, <3>3, <3>4
  <2>6. ASSUME NEW n \in Sudog \ (D[rt] \ {u})
        PROVE  P2[n] = Nil /\ L2[n] = Nil /\ R2[n] = Nil
    <3>1. CASE n = u
      BY <1>6, <3>1
    <3>2. CASE n # u
      BY <1>3, <1>6, <1>7, <3>2
    <3> QED BY <3>1, <3>2
  <2> QED BY <1>8, <2>4, <2>5, <2>6 DEF Parents
<1> QED BY <1>8, <1>10, <1>11, <1>12, <1>13 DEF IsTree, E
\* A node that is too low is rotated above its parent.
LEMMA HeapUp ==
    ASSUME NEW rt, NEW P, NEW L, NEW R, NEW D, NEW K, NEW x, NEW y, NEW b, NEW p, NEW isLeft,
           NEW P2, NEW L2, NEW R2, Rotates(rt, P, L, R, D, K, x, y, b, p, isLeft, P2, L2, R2),
           NEW T \in [Sudog -> Nat], T[x] < T[y], Heaped(D[rt], P, L, R, T, x, FALSE)
    PROVE  Heaped(D[rt], P2, L2, R2, T, x, FALSE)
<1>b. Linked(rt, P, L, R, D, K, x, y, b, p, isLeft, P2, L2, R2)
  BY RotationLinks
<1>a. IsTree(rt, P, L, R, D, K) /\ y \in D[rt] /\ x = L[y] /\ x # Nil /\ b = R[x] /\ p = P[y]
  BY DEF Rotates
<1> USE <1>a
<1>0. /\ P \in [Sudog -> Pointer] /\ L \in [Sudog -> Pointer] /\ R \in [Sudog -> Pointer]
      /\ rt \in Pointer /\ D \in [Pointer -> SUBSET Sudog] /\ D[Nil] = {} /\ Nil \notin Sudog
      /\ Pointer = Sudog \cup {Nil} /\ y \in Sudog /\ x \in Sudog /\ b \in Pointer /\ p \in Pointer
      /\ \A n \in Sudog : T[n] \in Nat
  BY <1>b DEF Linked
<1>1. /\ x # y /\ y # R[y] /\ x # R[y] /\ P[x] = y /\ x # L[x] /\ x # b /\ L[x] # y /\ b # y
      /\ x \in D[y] /\ y \in D[y]
  BY <1>b DEF Linked
<1>2. p # Nil => p \in D[rt] /\ y \in {L[p], R[p]} /\ L[p] # R[p] /\ p # y /\ p # x /\ p \in Sudog
  BY <1>b DEF Linked
<1>3. /\ L2[x] = L[x] /\ R2[x] = y /\ L2[y] = b /\ R2[y] = R[y]
      /\ \A n \in Sudog : n # x /\ n # y /\ n # p => L2[n] = L[n] /\ R2[n] = R[n]
      /\ p # Nil => /\ isLeft => L2[p] = x /\ R2[p] = R[p] /\ R[p] # y /\ L[p] = y
                    /\ ~isLeft => R2[p] = x /\ L2[p] = L[p] /\ L[p] # y /\ R[p] = y
      /\ P2[x] = p
  BY <1>b DEF Linked
<1>4. /\ \A n \in D[rt], m \in Sudog : m \in {L[n], R[n]} => T[n] <= T[m] \/ m = x
      /\ \A m \in Sudog : m \in {L[x], R[x]} => T[y] <= T[m]
  BY <1>0, <1>1 DEF Heaped
<1>5. p # Nil => T[p] <= T[y]
  BY <1>0, <1>1, <1>2, <1>4
<1>6. ASSUME NEW n \in D[rt], NEW m \in Sudog, m \in {L2[n], R2[n]}
      PROVE  T[n] <= T[m] \/ m = x
  <2>1. n \in Sudog
    BY <1>0
  <2>2. CASE n = x
    <3>1. m = L[x] \/ m = y
      BY <1>3, <1>6, <2>2
    <3>2. m = L[x] => T[y] <= T[m]
      BY <1>4
    <3> QED BY <1>0, <2>2, <3>1, <3>2
  <2>3. CASE n = y
    <3>1. m = b \/ m = R[y]
      BY <1>3, <1>6, <2>3
    <3> QED BY <1>4, <2>3, <3>1
  <2>4. CASE n = p /\ n # x /\ n # y
    <3>1. m = x \/ m \in {L[p], R[p]}
      BY <1>0, <1>3, <1>6, <2>1, <2>4
    <3> QED BY <1>4, <2>4, <3>1
  <2>5. CASE n # p /\ n # x /\ n # y
    <3>1. m \in {L[n], R[n]}
      BY <1>3, <1>6, <2>1, <2>5
    <3> QED BY <1>4, <3>1
  <2> QED BY <2>2, <2>3, <2>4, <2>5
<1>7. ASSUME p # Nil, NEW m \in Sudog, m \in {L2[x], R2[x]}
      PROVE  T[p] <= T[m]
  <2>1. m = L[x] \/ m = y
    BY <1>3, <1>7
  <2>2. m = L[x] => T[y] <= T[m]
    BY <1>4
  <2>3. T[p] \in Nat /\ T[y] \in Nat /\ T[m] \in Nat
    BY <1>0, <1>2, <1>7
  <2> QED BY <1>5, <1>7, <2>1, <2>2, <2>3
<1> QED BY <1>3, <1>6, <1>7 DEF Heaped

\* A node that sinks is rotated below the smaller of its children.
LEMMA HeapDown ==
    ASSUME NEW rt, NEW P, NEW L, NEW R, NEW D, NEW K, NEW x, NEW y, NEW b, NEW p, NEW isLeft,
           NEW P2, NEW L2, NEW R2, Rotates(rt, P, L, R, D, K, x, y, b, p, isLeft, P2, L2, R2),
           NEW T \in [Sudog -> Nat], R[y] # Nil => T[x] <= T[R[y]],
           Heaped(D[rt], P, L, R, T, y, TRUE)
    PROVE  Heaped(D[rt], P2, L2, R2, T, y, TRUE)
<1>b. Linked(rt, P, L, R, D, K, x, y, b, p, isLeft, P2, L2, R2)
  BY RotationLinks
<1>a. IsTree(rt, P, L, R, D, K) /\ y \in D[rt] /\ x = L[y] /\ x # Nil /\ b = R[x] /\ p = P[y]
  BY DEF Rotates
<1> USE <1>a
<1>0. /\ P \in [Sudog -> Pointer] /\ L \in [Sudog -> Pointer] /\ R \in [Sudog -> Pointer]
      /\ rt \in Pointer /\ D \in [Pointer -> SUBSET Sudog] /\ D[Nil] = {} /\ Nil \notin Sudog
      /\ Pointer = Sudog \cup {Nil} /\ y \in Sudog /\ x \in Sudog /\ b \in Pointer /\ p \in Pointer
      /\ \A n \in Sudog : T[n] \in Nat
  BY <1>b DEF Linked
<1>1. /\ x # y /\ y # R[y] /\ x # R[y] /\ P[x] = y /\ x # L[x] /\ x # b /\ L[x] # y /\ b # y
      /\ x \in D[y] /\ y \in D[y]
  BY <1>b DEF Linked
<1>2. p # Nil => p \in D[rt] /\ y \in {L[p], R[p]} /\ L[p] # R[p] /\ p # y /\ p # x /\ p \in Sudog
  BY <1>b DEF Linked
<1>3. /\ L2[x] = L[x] /\ R2[x] = y /\ L2[y] = b /\ R2[y] = R[y]
      /\ \A n \in Sudog : n # x /\ n # y /\ n # p => L2[n] = L[n] /\ R2[n] = R[n]
      /\ p # Nil => /\ isLeft => L2[p] = x /\ R2[p] = R[p] /\ R[p] # y /\ L[p] = y
                    /\ ~isLeft => R2[p] = x /\ L2[p] = L[p] /\ L[p] # y /\ R[p] = y
      /\ P2[y] = x
  BY <1>b DEF Linked
<1>4. x \in D[rt]
  <2>1. D[y] \subseteq D[rt]
    BY <1>0 DEF IsTree, Nested
  <2> QED BY <1>1, <2>1
<1>5. /\ \A n \in D[rt], m \in Sudog : m \in {L[n], R[n]} => T[n] <= T[m] \/ m = y \/ n = y
      /\ p # Nil => \A m \in Sudog : m \in {L[y], R[y]} => T[p] <= T[m]
  BY <1>0 DEF Heaped
<1>6. ASSUME NEW n \in D[rt], NEW m \in Sudog, m \in {L2[n], R2[n]}
      PROVE  T[n] <= T[m] \/ m = y \/ n = y
  <2>1. n \in Sudog
    BY <1>0
  <2>2. CASE n = x
    <3>1. m = L[x] \/ m = y
      BY <1>3, <1>6, <2>2
    <3> QED BY <1>5, <2>2, <3>1
  <2>3. CASE n = p /\ n # x /\ n # y
    <3>1. m = x \/ m \in {L[p], R[p]}
      BY <1>0, <1>3, <1>6, <2>1, <2>3
    <3>2. m = x => T[p] <= T[m]
      BY <1>0, <1>5, <2>1, <2>3
    <3> QED BY <1>5, <2>3, <3>1, <3>2
  <2>4. CASE n # p /\ n # x /\ n # y
    <3>1. m \in {L[n], R[n]}
      BY <1>3, <1>6, <2>1, <2>4
    <3> QED BY <1>5, <3>1
  <2> QED BY <2>2, <2>3, <2>4
<1>7. ASSUME NEW m \in Sudog, m \in {L2[y], R2[y]}
      PROVE  T[x] <= T[m]
  <2>1. m = b \/ m = R[y]
    BY <1>3, <1>7
  <2>2. CASE m = b
    BY <1>1, <1>4, <1>5, <2>2
  <2>3. CASE m = R[y]
    BY <1>0, <2>3
  <2> QED BY <2>1, <2>2, <2>3
<1> QED BY <1>3, <1>6, <1>7 DEF Heaped

\* A heap does not know left from right.
LEMMA HeapMirror ==
    ASSUME NEW N, NEW P, NEW L, NEW R, NEW T, NEW x, NEW sinks, Heaped(N, P, L, R, T, x, sinks)
    PROVE  Heaped(N, P, R, L, T, x, sinks)
  BY DEF Heaped
\* Only the keys of the nodes matter.
LEMMA OtherKeys ==
    ASSUME NEW rt, NEW P, NEW L, NEW R, NEW D, NEW K, IsTree(rt, P, L, R, D, K),
           NEW K2 \in [Sudog -> Int], \A n \in D[rt] : K2[n] = K[n]
    PROVE  IsTree(rt, P, L, R, D, K2)
<1>0. /\ L \in [Sudog -> Pointer] /\ R \in [Sudog -> Pointer] /\ D[Nil] = {} /\ rt \in Pointer
      /\ D \in [Pointer -> SUBSET Sudog] /\ Pointer = Sudog \cup {Nil}
  BY DEF IsTree, Pointers, Nested, Pointer
<1>1. ASSUME NEW n \in Sudog
      PROVE  (\A m \in D[L[n]] : K2[m] < K2[n]) /\ (\A m \in D[R[n]] : K2[n] < K2[m])
  <2>1. CASE n \in D[rt]
    <3>1. D[n] \subseteq D[rt]
      BY <1>0, <2>1 DEF IsTree, Nested
    <3>2. D[L[n]] \subseteq D[rt] /\ D[R[n]] \subseteq D[rt]
      BY <3>1, TreeNode
    <3>3. (\A m \in D[L[n]] : K[m] < K[n]) /\ (\A m \in D[R[n]] : K[n] < K[m])
      BY DEF IsTree, Sorted
    <3> QED BY <2>1, <3>2, <3>3
  <2>2. CASE n \notin D[rt]
    <3>1. L[n] = Nil /\ R[n] = Nil
      BY <2>2 DEF IsTree, Parents
    <3> QED BY <1>0, <3>1
  <2> QED BY <2>1, <2>2
<1>2. Sorted(L, R, D, K2)
  BY <1>1 DEF Sorted
<1> QED BY <1>2 DEF IsTree

\* The children of a node are nodes.
LEMMA ChildIn ==
    ASSUME NEW rt, NEW P, NEW L, NEW R, NEW D, NEW K, IsTree(rt, P, L, R, D, K),
           NEW n \in D[rt], NEW m \in Sudog, m \in {L[n], R[n]}
    PROVE  m \in D[rt] /\ P[m] = n /\ m # n /\ n \in Sudog
<1>0. rt \in Pointer /\ D \in [Pointer -> SUBSET Sudog] /\ D[Nil] = {} /\ Nil \notin Sudog
  BY TreapAssumption DEF IsTree, Pointers, Nested
<1>1. n \in Sudog /\ rt \in Sudog
  BY <1>0 DEF Pointer
<1>2. D[n] \subseteq D[rt]
  BY <1>1 DEF IsTree, Nested
<1> QED BY <1>0, <1>1, <1>2, TreeNode

\* Only the tickets of the nodes matter.
LEMMA OtherTickets ==
    ASSUME NEW rt, NEW P, NEW L, NEW R, NEW D, NEW K, IsTree(rt, P, L, R, D, K),
           NEW T, NEW T2, \A n \in D[rt] : T2[n] = T[n], Heaped(D[rt], P, L, R, T, Nil, FALSE)
    PROVE  Heaped(D[rt], P, L, R, T2, Nil, FALSE)
<1>1. ASSUME NEW n \in D[rt], NEW m \in Sudog, m \in {L[n], R[n]}
      PROVE  T2[n] <= T2[m] \/ m = Nil
  <2>1. m \in D[rt]
    BY <1>1, ChildIn
  <2> QED BY <1>1, <2>1 DEF Heaped
<1> QED BY <1>1, TreapAssumption DEF Heaped

\* The pointers when t has taken the place of u.
LEMMA ReplacedLinks ==
    ASSUME NEW rt, NEW P, NEW L, NEW R, NEW D, NEW K, IsTree(rt, P, L, R, D, K),
           NEW u \in D[rt], NEW t \in Sudog \ D[rt]
    PROVE  /\ Swap(u, t)[rt] = IF P[u] = Nil THEN t ELSE rt
           /\ Moved(P, u, t) = [n \in Sudog |-> IF n = t THEN P[u] ELSE IF n = u THEN Nil
                                                ELSE IF n \in {L[u], R[u]} THEN t ELSE P[n]]
           /\ Moved(L, u, t) = [n \in Sudog |-> IF n = t THEN L[u] ELSE IF n = u THEN Nil
                                                ELSE IF n = P[u] /\ L[n] = u THEN t ELSE L[n]]
           /\ Moved(R, u, t) = [n \in Sudog |-> IF n = t THEN R[u] ELSE IF n = u THEN Nil
                                                ELSE IF n = P[u] /\ R[n] = u THEN t ELSE R[n]]
<1> DEFINE X == Swap(u, t)
<1>0. /\ P \in [Sudog -> Pointer] /\ L \in [Sudog -> Pointer] /\ R \in [Sudog -> Pointer]
      /\ rt \in Pointer /\ D \in [Pointer -> SUBSET Sudog] /\ D[Nil] = {} /\ Nil \notin Sudog
      /\ Pointer = Sudog \cup {Nil} /\ u \in Sudog /\ t \in Sudog /\ u # t
  BY TreapAssumption DEF IsTree, Pointers, Nested, Pointer
<1>1. /\ \A n \in D[rt] : n = rt <=> P[n] = Nil
      /\ \A n \in D[rt] : n # rt => P[n] \in D[rt] /\ n \in {L[P[n]], R[P[n]]}
      /\ \A n \in Sudog \ D[rt] : P[n] = Nil /\ L[n] = Nil /\ R[n] = Nil
      /\ rt \in D[rt]
  BY <1>0 DEF IsTree, Parents, Nested
<1>2. /\ X[u] = t /\ X[t] = u /\ \A n \in Pointer : n # u /\ n # t => X[n] = n
  BY <1>0 DEF Swap
<1> HIDE DEF X
\* Nobody points to t.
<1>3. \A n \in Sudog : P[n] # t /\ L[n] # t /\ R[n] # t
  <2> TAKE n \in Sudog
  <2>1. CASE n \in D[rt]
    <3>1. P[n] # t
      BY <1>0, <1>1, <2>1
    <3>2. L[n] # t /\ R[n] # t
      BY <1>0, <2>1, ChildIn
    <3> QED BY <3>1, <3>2
  <2>2. CASE n \notin D[rt]
    BY <1>0, <1>1, <2>2
  <2> QED BY <2>1, <2>2
<1>4. P[u] # u /\ L[u] # u /\ R[u] # u
  <2>1. L[u] # u /\ R[u] # u
    BY <1>0, ChildIn
  <2>2. P[u] # u
    BY <1>0, <1>1, <2>1
  <2> QED BY <2>1, <2>2
<1>5. \A n \in Sudog : P[n] = u <=> n \in {L[u], R[u]}
  <2> TAKE n \in Sudog
  <2>1. n \in {L[u], R[u]} => P[n] = u
    BY ChildIn
  <2>2. P[n] = u => n \in D[rt] /\ n # rt
    BY <1>0, <1>1
  <2> QED BY <1>1, <2>1, <2>2
<1>6. \A n \in Sudog : L[n] = u => n = P[u]
  <2> TAKE n \in Sudog
  <2>1. L[n] = u => n \in D[rt]
    BY <1>0, <1>1
  <2> QED BY <1>0, <2>1, ChildIn
<1>7. \A n \in Sudog : R[n] = u => n = P[u]
  <2> TAKE n \in Sudog
  <2>1. R[n] = u => n \in D[rt]
    BY <1>0, <1>1
  <2> QED BY <1>0, <2>1, ChildIn
<1>8. P[t] = Nil /\ L[t] = Nil /\ R[t] = Nil
  BY <1>0, <1>1
<1>9. X[rt] = IF P[u] = Nil THEN t ELSE rt
  BY <1>0, <1>1, <1>2
<1>10. ASSUME NEW n \in Sudog
       PROVE  /\ X[P[X[n]]] = IF n = t THEN P[u] ELSE IF n = u THEN Nil
                              ELSE IF n \in {L[u], R[u]} THEN t ELSE P[n]
              /\ X[L[X[n]]] = IF n = t THEN L[u] ELSE IF n = u THEN Nil
                              ELSE IF n = P[u] /\ L[n] = u THEN t ELSE L[n]
              /\ X[R[X[n]]] = IF n = t THEN R[u] ELSE IF n = u THEN Nil
                              ELSE IF n = P[u] /\ R[n] = u THEN t ELSE R[n]
  <2>1. P[n] \in Pointer /\ L[n] \in Pointer /\ R[n] \in Pointer /\ X[Nil] = Nil /\ n \in Pointer
    BY <1>0, <1>2
  <2>2. CASE n = t
    <3>1. P[u] \in Pointer /\ L[u] \in Pointer /\ R[u] \in Pointer /\ X[n] = u
      BY <1>0, <1>2, <2>2
    <3>2. X[P[u]] = P[u] /\ X[L[u]] = L[u] /\ X[R[u]] = R[u]
      BY <1>0, <1>2, <1>3, <1>4, <3>1
    <3> QED BY <2>2, <3>1, <3>2
  <2>3. CASE n = u
    BY <1>0, <1>2, <1>8, <2>1, <2>3
  <2>4. CASE n # u /\ n # t
    <3>1. X[n] = n
      BY <1>2, <2>1, <2>4
    <3>2. X[P[n]] = IF n \in {L[u], R[u]} THEN t ELSE P[n]
      BY <1>2, <1>3, <1>5, <2>1
    <3>3. X[L[n]] = IF n = P[u] /\ L[n] = u THEN t ELSE L[n]
      BY <1>2, <1>3, <1>6, <2>1
    <3>4. X[R[n]] = IF n = P[u] /\ R[n] = u THEN t ELSE R[n]
      BY <1>2, <1>3, <1>7, <2>1
    <3> QED BY <2>4, <3>1, <3>2, <3>3, <3>4
  <2> QED BY <2>2, <2>3, <2>4
<1> QED BY <1>9, <1>10 DEF Moved, X

\* A heap stays one when t gets the ticket of u with its place.
LEMMA HeapReplaced ==
    ASSUME NEW rt, NEW P, NEW L, NEW R, NEW D, NEW K, IsTree(rt, P, L, R, D, K),
           NEW u \in D[rt], NEW t \in Sudog \ D[rt], NEW T, NEW T2,
           \A n \in D[rt] : T2[Swap(u, t)[n]] = T[n], Heaped(D[rt], P, L, R, T, Nil, FALSE)
    PROVE  Heaped((D[rt] \ {u}) \cup {t}, Moved(P, u, t), Moved(L, u, t), Moved(R, u, t), T2, Nil, FALSE)
<1> DEFINE X == Swap(u, t)
<1>0. /\ P \in [Sudog -> Pointer] /\ L \in [Sudog -> Pointer] /\ R \in [Sudog -> Pointer]
      /\ rt \in Pointer /\ D \in [Pointer -> SUBSET Sudog] /\ D[Nil] = {} /\ Nil \notin Sudog
      /\ Pointer = Sudog \cup {Nil} /\ u \in Sudog /\ t \in Sudog /\ u # t
  BY TreapAssumption DEF IsTree, Pointers, Nested, Pointer
<1>1. /\ X[u] = t /\ X[t] = u /\ \A n \in Pointer : n # u /\ n # t => X[n] = n
      /\ X \in [Pointer -> Pointer] /\ \A n \in Pointer : X[X[n]] = n
      /\ \A n \in D[rt] : T2[X[n]] = T[n]
  BY <1>0 DEF Swap
<1>2. \A n \in Sudog : Moved(L, u, t)[n] = X[L[X[n]]] /\ Moved(R, u, t)[n] = X[R[X[n]]]
  BY DEF Moved
<1> HIDE DEF X
<1>3. ASSUME NEW n \in (D[rt] \ {u}) \cup {t}, NEW m \in Sudog,
             m \in {Moved(L, u, t)[n], Moved(R, u, t)[n]}
      PROVE  T2[n] <= T2[m]
  <2>1. n \in Sudog /\ X[n] \in D[rt] /\ X[n] \in Sudog /\ X[m] \in Sudog
    BY <1>0, <1>1
  <2>2. m = X[L[X[n]]] \/ m = X[R[X[n]]]
    BY <1>2, <1>3, <2>1
  <2>3. X[m] \in {L[X[n]], R[X[n]]}
    <3>1. L[X[n]] \in Pointer /\ R[X[n]] \in Pointer
      BY <1>0, <2>1
    <3> QED BY <1>1, <2>2, <3>1
  <2>4. X[m] \in D[rt]
    BY <2>1, <2>3, ChildIn
  <2>5. T[X[n]] <= T[X[m]]
    BY <1>0, <2>1, <2>3 DEF Heaped
  <2>6. T2[n] = T[X[n]] /\ T2[m] = T[X[m]]
    <3>1. X[X[n]] = n /\ X[X[m]] = m
      BY <1>0, <1>1, <2>1
    <3> QED BY <1>1, <2>1, <2>4, <3>1
  <2> QED BY <2>5, <2>6
<1> QED BY <1>0, <1>3 DEF Heaped

\* A leaf is added to a heap, wherever it belongs.
LEMMA HeapAdded ==
    ASSUME NEW rt, NEW P, NEW L, NEW R, NEW D, NEW K, IsTree(rt, P, L, R, D, K),
           NEW u \in D[rt], L[u] = Nil, NEW z \in Sudog \ D[rt], NEW P2, NEW T, NEW T2,
           \A n \in D[rt] : T2[n] = T[n], Heaped(D[rt], P, L, R, T, Nil, FALSE)
    PROVE  Heaped(D[rt] \cup {z}, P2, With(L, u, z), R, T2, z, FALSE)
<1>0. /\ L \in [Sudog -> Pointer] /\ D \in [Pointer -> SUBSET Sudog] /\ rt \in Pointer
      /\ u \in Sudog /\ z \in Sudog /\ u # z /\ Nil \notin Sudog
  BY TreapAssumption DEF IsTree, Pointers, Nested
<1>1. L[z] = Nil /\ R[z] = Nil
  BY <1>0 DEF IsTree, Parents
<1>2. With(L, u, z)[u] = z /\ \A n \in Sudog : n # u => With(L, u, z)[n] = L[n]
  BY <1>0 DEF With
<1>3. ASSUME NEW n \in D[rt] \cup {z}, NEW m \in Sudog, m \in {With(L, u, z)[n], R[n]}, m # z
      PROVE  T2[n] <= T2[m]
  <2>1. n # z
    BY <1>0, <1>1, <1>2, <1>3
  <2>2. n \in D[rt] /\ n \in Sudog
    BY <1>0, <2>1
  <2>3. m \in {L[n], R[n]}
    BY <1>2, <1>3, <2>2
  <2>4. m \in D[rt]
    BY <2>2, <2>3, ChildIn
  <2> QED BY <1>0, <2>2, <2>3, <2>4 DEF Heaped
<1>4. \A m \in Sudog : m \notin {With(L, u, z)[z], R[z]}
  BY <1>0, <1>1, <1>2
<1> QED BY <1>3, <1>4 DEF Heaped

\* No link of F2 leads to u, and it is otherwise as F; T2 is T but for u.
Clears(F, F2, u) == \A n \in Sudog : F2[n] \in {Nil, F[n]} /\ F2[n] # u
SameBut(T, T2, u) == \A n \in Sudog : n # u => T2[n] = T[n]

\* The leaf that has sunk is cut off.
LEMMA HeapCut ==
    ASSUME NEW rt, NEW P, NEW L, NEW R, NEW D, NEW K, IsTree(rt, P, L, R, D, K),
           NEW u \in D[rt], NEW P2, NEW L2, NEW R2, NEW T, NEW T2,
           Clears(L, L2, u), Clears(R, R2, u), SameBut(T, T2, u), Heaped(D[rt], P, L, R, T, u, TRUE)
    PROVE  Heaped(D[rt] \ {u}, P2, L2, R2, T2, Nil, FALSE)
<1> USE DEF Clears, SameBut
<1>0. Nil \notin Sudog /\ D[rt] \subseteq Sudog
  BY TreapAssumption DEF IsTree, Pointers, Nested
<1>1. ASSUME NEW n \in D[rt] \ {u}, NEW m \in Sudog, m \in {L2[n], R2[n]}
      PROVE  T2[n] <= T2[m]
  <2>1. m \in {L[n], R[n]} /\ m # u /\ n # u /\ n \in Sudog
    BY <1>0, <1>1
  <2> QED BY <2>1 DEF Heaped
<1> QED BY <1>0, <1>1 DEF Heaped
-----------------------------------------------------------------------------
(* The invariant and the steps that leave the pointers alone *)

\* Everything has its type, and the nodes of the tree are in lists.
Typed(Q, D) ==
    /\ Nil \notin Sudog /\ Pointer = Sudog \cup {Nil} /\ Addr \subseteq Nat /\ 0 \notin Addr
    /\ Ticket \subseteq Nat /\ root \in Pointer
    /\ elem \in [Sudog -> Addr \cup {0}] /\ elem \in [Sudog -> Int]
    /\ ticket \in [Sudog -> Ticket \cup {0}] /\ ticket \in [Sudog -> Nat]
    /\ parent \in [Sudog -> Pointer] /\ prev \in [Sudog -> Pointer] /\ next \in [Sudog -> Pointer]
    /\ waitlink \in [Sudog -> Pointer] /\ waittail \in [Sudog -> Pointer]
    /\ waiters \in [Sudog -> 0..MaxWaiters] /\ waiting \subseteq Sudog /\ MaxWaiters \in Nat
    /\ D \in [Pointer -> SUBSET Sudog] /\ D[Nil] = {} /\ D[root] \subseteq Sudog
    /\ Q \in [Addr -> Seq(Sudog)] /\ Listed(Q) \subseteq waiting /\ D[root] \subseteq Listed(Q)

\* That is so.
LEMMA RepTypes ==
    ASSUME NEW Q, NEW D, Rep(Q, D)
    PROVE  Typed(Q, D)
<1>1. /\ Nil \notin Sudog /\ Pointer = Sudog \cup {Nil} /\ Addr \subseteq Nat /\ 0 \notin Addr
      /\ Ticket \subseteq Nat /\ MaxWaiters \in Nat
  BY TreapAssumption DEF Pointer
<1>2. /\ root \in Pointer /\ elem \in [Sudog -> Addr \cup {0}]
      /\ ticket \in [Sudog -> Ticket \cup {0}]
      /\ parent \in [Sudog -> Pointer] /\ prev \in [Sudog -> Pointer] /\ next \in [Sudog -> Pointer]
      /\ waitlink \in [Sudog -> Pointer] /\ waittail \in [Sudog -> Pointer]
      /\ waiters \in [Sudog -> 0..MaxWaiters] /\ waiting \subseteq Sudog
  BY DEF Rep, TreapTypes
<1>3. elem \in [Sudog -> Int] /\ ticket \in [Sudog -> Nat]
  <2>1. Addr \cup {0} \subseteq Int /\ Ticket \cup {0} \subseteq Nat
    BY <1>1
  <2> QED BY <1>2, <2>1
<1>4. D \in [Pointer -> SUBSET Sudog] /\ D[Nil] = {} /\ D[root] \subseteq Sudog
  BY <1>2 DEF Rep, TreapOf, IsTree, Nested
<1>5. Q \in [Addr -> Seq(Sudog)] /\ Listed(Q) \subseteq waiting
  BY DEF Rep, ListsOf, CleanOf
<1>6. ASSUME NEW n \in D[root]
      PROVE  n \in Listed(Q)
  <2>1. elem[n] \in Addr /\ Q[elem[n]] # <<>> /\ n = Q[elem[n]][1]
    BY DEF Rep, ListsOf
  <2>2. Q[elem[n]] \in Seq(Sudog)
    BY <1>5, <2>1
  <2>3. 1 \in 1..Len(Q[elem[n]])
    BY <2>1, <2>2
  <2> QED BY <2>1, <2>3 DEF Listed, In
<1> QED BY <1>1, <1>2, <1>3, <1>4, <1>5, <1>6 DEF Typed

\* The arguments of the call in progress.
LEMMA RepCall ==
    ASSUME NEW Q, NEW D, Rep(Q, D), at # "idle"
    PROVE  /\ addr \in Addr
           /\ queueing => new \in Sudog /\ lifo \in BOOLEAN /\ call = <<addr, new, lifo>>
           /\ ~queueing => call = <<addr>>
<1>1. CASE call \in Addr \X Sudog \X BOOLEAN
  BY <1>1 DEF addr, queueing, new, lifo
<1>2. CASE \E a \in Addr : call = <<a>>
  BY <1>2 DEF addr, queueing
<1> QED BY <1>1, <1>2 DEF Rep, CallOf

\* Between calls, and in a search, the tree is a heap.
LEMMA RepHeap ==
    ASSUME NEW Q, NEW D, Rep(Q, D), at \in {"idle", "search"}
    PROVE  Heaped(D[root], parent, prev, next, ticket, Nil, FALSE)
  BY DEF Rep, HeapOf

\* Who is in a list.
LEMMA InListed ==
    ASSUME NEW Q, NEW n
    PROVE  n \in Listed(Q) <=> \E a \in Addr : \E i \in 1..Len(Q[a]) : n = Q[a][i]
  BY DEF Listed, In

\* Initially there is nothing.
LEMMA RepInit ==
    ASSUME TreapInit
    PROVE  \E Q, D : Rep(Q, D)
<1> DEFINE Q == [a \in Addr |-> <<>>]
           D == [n \in Pointer |-> IF n = Nil THEN {} ELSE {n}]
<1> USE DEF TreapInit
<1>1. /\ Nil \notin Sudog /\ Pointer = Sudog \cup {Nil} /\ Addr \subseteq Nat
      /\ MaxWaiters \in Nat
  BY TreapAssumption DEF Pointer
<1>2. TreapTypes
  BY <1>1 DEF TreapTypes
<1>3. Q \in [Addr -> Seq(Sudog)] /\ \A a \in Addr : Q[a] = <<>> /\ Len(Q[a]) = 0
  OBVIOUS
<1>4. D \in [Pointer -> SUBSET Sudog] /\ D[root] = {} /\ D[Nil] = {} /\ \A n \in Sudog : D[n] = {n}
  BY <1>1
<1> HIDE DEF Q, D
<1>5. TreapOf(D)
  <2>1. Pointers(root, parent, prev, next)
    BY <1>1 DEF Pointers
  <2>2. Nested(prev, next, D)
    BY <1>1, <1>4 DEF Nested
  <2>3. Sorted(prev, next, D, elem)
    BY <1>1, <1>4 DEF Sorted
  <2>4. Parents(root, parent, prev, next, D)
    BY <1>1, <1>4 DEF Parents
  <2> QED BY <2>1, <2>2, <2>3, <2>4 DEF TreapOf, IsTree
<1>6. HeapOf(D)
  BY <1>1, <1>4 DEF HeapOf, Heaped
<1>7. ListsOf(Q, D)
  BY <1>3, <1>4 DEF ListsOf
<1>8. Listed(Q) = {}
  BY <1>3 DEF Listed, In
<1>9. CleanOf(Q, D)
  BY <1>8 DEF CleanOf, Pending
<1>10. SearchOf(D) /\ CallOf(D)
  BY DEF SearchOf, CallOf
<1> QED BY <1>2, <1>5, <1>6, <1>7, <1>9, <1>10 DEF Rep

\* What is said of the nodes stays when they do.
LEMMA RepSame ==
    ASSUME NEW Q, NEW D, Rep(Q, D), UNCHANGED <<root, node, waiting>>
    PROVE  TreapOf(D)' /\ ListsOf(Q, D)' /\ (Pending' = Pending => CleanOf(Q, D)')
<1> USE DEF node
<1>1. TreapOf(D)'
  BY DEF Rep, TreapOf
<1>2. ListsOf(Q, D)'
  BY DEF Rep, ListsOf
<1>3. ASSUME Pending' = Pending
      PROVE  CleanOf(Q, D)'
  BY <1>3 DEF Rep, CleanOf
<1> QED BY <1>1, <1>2, <1>3

\* Stuttering.
LEMMA RepStutter ==
    ASSUME NEW Q, NEW D, Rep(Q, D), UNCHANGED treapVars
    PROVE  Rep(Q, D)'
<1>1. TreapTypes' /\ HeapOf(D)' /\ SearchOf(D)' /\ CallOf(D)' /\ Pending' = Pending
  BY DEF Rep, TreapTypes, HeapOf, SearchOf, CallOf, Pending, GoesLeft, addr, queueing, new,
         treapVars, node
<1>2. UNCHANGED <<root, node, waiting>>
  BY DEF treapVars
<1> QED BY <1>1, <1>2, RepSame DEF Rep

\* A call of dequeue.
LEMMA RepDequeue ==
    ASSUME NEW Q, NEW D, Rep(Q, D), NEW a \in Addr, Dequeue(a)
    PROVE  Rep(Q, D)'
<1>t. Typed(Q, D)
  BY RepTypes
<1>0. UNCHANGED <<root, node, waiting>> /\ at = "idle" /\ last = Nil /\ last' = Nil
  BY DEF Rep, CallOf, Dequeue
<1>1. Len(call') = 1 /\ call'[1] = a /\ call' = <<a>> /\ s' = root /\ at' = "search" /\ found' = Nil
  BY DEF Dequeue
<1>2. TreapTypes'
  <2>1. root \in Pointer /\ Nil \in Pointer
    BY <1>t DEF Typed
  <2> QED BY <1>0, <1>1, <2>1 DEF TreapTypes, Rep, node
<1>3. HeapOf(D)'
  <2>1. Heaped(D[root], parent, prev, next, ticket, Nil, FALSE)
    BY <1>0, RepHeap
  <2>2. Heaped(D[root'], parent', prev', next', ticket', Nil, FALSE) /\ at' \in {"idle", "search"}
    BY <1>0, <1>1, <2>1 DEF node
  <2> QED BY <1>1, <2>2 DEF HeapOf
<1>4. Pending' = Pending
  BY <1>0, <1>1 DEF Pending, queueing
<1>5. SearchOf(D)'
  <2>1. \A n \in D[root] : Nil \notin D[n]
    BY <1>t DEF Typed
  <2> QED BY <1>0, <1>1, <2>1 DEF SearchOf, node
<1>6. CallOf(D)'
  BY <1>1 DEF CallOf, queueing
<1> QED BY <1>0, <1>2, <1>3, <1>4, <1>5, <1>6, RepSame DEF Rep

\* A call of queue, with a sudog that waits for nothing.
LEMMA RepQueue ==
    ASSUME NEW Q, NEW D, Rep(Q, D), NEW n \in Sudog, NEW a \in Addr, NEW l \in BOOLEAN, Queue(n, a, l)
    PROVE  Rep(Q, D)'
<1>t. Typed(Q, D)
  BY RepTypes
<1>0. /\ at = "idle" /\ last = Nil /\ last' = Nil /\ n \notin waiting /\ root' = root /\ Pending = {}
      /\ waiting = Listed(Q)
  BY DEF Rep, CallOf, Pending, CleanOf, Queue
<1>1. n \notin Listed(Q) /\ n \notin D[root] /\ D[root] \subseteq Sudog
  BY <1>0, <1>t DEF Typed
<1>2. /\ Len(call') = 3 /\ call'[1] = a /\ call'[2] = n /\ call' = <<a, n, l>>
      /\ s' = root /\ at' = "search" /\ found' = Nil /\ waiting' = waiting \cup {n}
      /\ parent' = parent /\ waitlink' = waitlink /\ waittail' = waittail
  BY DEF Queue
<1>3. prev[n] = Nil /\ next[n] = Nil
  BY <1>1 DEF Rep, TreapOf, IsTree, Parents
<1>4. prev' = prev /\ next' = next
  BY <1>3, <1>t DEF Queue, Typed
<1>5. /\ elem' \in [Sudog -> Addr \cup {0}] /\ elem'[n] = a
      /\ \A m \in Sudog : m # n => elem'[m] = elem[m] /\ ticket'[m] = ticket[m]
      /\ ticket' \in [Sudog -> Ticket \cup {0}] /\ waiters' \in [Sudog -> 0..MaxWaiters]
  BY <1>t DEF Queue, Typed
<1>6. elem' \in [Sudog -> Int]
  <2>1. Addr \cup {0} \subseteq Int
    BY <1>t DEF Typed
  <2> QED BY <1>5, <2>1
<1>7. TreapTypes'
  <2>1. call' \in Addr \X Sudog \X BOOLEAN
    BY <1>2
  <2>2. root \in Pointer /\ Nil \in Pointer /\ waiting' \subseteq Sudog
    BY <1>2, <1>t DEF Typed
  <2>3. {parent', prev', next', waitlink', waittail'} \subseteq [Sudog -> Pointer]
    BY <1>2, <1>4, <1>t DEF Typed
  <2> QED BY <1>0, <1>2, <1>5, <2>1, <2>2, <2>3 DEF TreapTypes
<1>8. IsTree(root, parent, prev, next, D, elem)
  BY DEF Rep, TreapOf
<1>9. TreapOf(D)'
  <2>1. \A m \in D[root] : elem'[m] = elem[m]
    BY <1>1, <1>5
  <2>2. IsTree(root, parent, prev, next, D, elem')
    BY <1>6, <1>8, <2>1, OtherKeys
  <2> QED BY <1>0, <1>2, <1>4, <2>2 DEF TreapOf
<1>10. HeapOf(D)'
  <2>1. \A m \in D[root] : ticket'[m] = ticket[m]
    BY <1>1, <1>5
  <2>2. Heaped(D[root], parent, prev, next, ticket, Nil, FALSE)
    BY <1>0, RepHeap
  <2>3. Heaped(D[root], parent, prev, next, ticket', Nil, FALSE)
    BY <1>8, <2>1, <2>2, OtherTickets
  <2>4. Heaped(D[root'], parent', prev', next', ticket', Nil, FALSE) /\ at' \in {"idle", "search"}
    BY <1>0, <1>2, <1>4, <2>3
  <2> QED BY <1>2, <2>4 DEF HeapOf
<1>11. ListsOf(Q, D)'
  <2>1. ASSUME NEW b \in Addr, NEW i \in 1..Len(Q[b])
        PROVE  elem'[Q[b][i]] = elem[Q[b][i]]
    <3>1. Q[b][i] \in Listed(Q) /\ Q[b][i] \in Sudog
      <4>1. Q[b] \in Seq(Sudog)
        BY <1>t DEF Typed
      <4> QED BY <4>1, InListed
    <3> QED BY <1>1, <1>5, <3>1
  <2>2. \A m \in D[root] : elem'[m] = elem[m]
    BY <1>1, <1>5
  <2>3. ListsOf(Q, D)
    BY DEF Rep
  <2>4. Q \in [Addr -> Seq(Sudog)]
    BY <2>3 DEF ListsOf
  <2>5. ASSUME NEW b \in Addr, NEW i \in 1..Len(Q[b])
        PROVE  /\ elem'[Q[b][i]] = b
               /\ waitlink'[Q[b][i]] = IF i = Len(Q[b]) THEN Nil ELSE Q[b][i + 1]
               /\ \A j \in 1..Len(Q[b]) : Q[b][i] = Q[b][j] => i = j
    BY <1>2, <2>1, <2>3 DEF ListsOf
  <2>6. ASSUME NEW b \in Addr, Q[b] # <<>>
        PROVE  /\ Q[b][1] \in D[root']
               /\ waittail'[Q[b][1]] = IF Len(Q[b]) = 1 THEN Nil ELSE Q[b][Len(Q[b])]
    BY <1>0, <1>2, <2>3, <2>6 DEF ListsOf
  <2>7. ASSUME NEW m \in D[root']
        PROVE  elem'[m] \in Addr /\ Q[elem'[m]] # <<>> /\ m = Q[elem'[m]][1]
    BY <1>0, <2>2, <2>3 DEF ListsOf
  <2> QED BY <2>4, <2>5, <2>6, <2>7 DEF ListsOf
<1>12. CleanOf(Q, D)'
  <2>1. Pending' = {n}
    BY <1>2 DEF Pending, queueing, new
  <2> QED BY <1>0, <1>1, <1>2, <1>5, <2>1 DEF Rep, CleanOf
<1>13. SearchOf(D)'
  <2>1. \A m \in D[root] : Nil \notin D[m]
    BY <1>t DEF Typed
  <2> QED BY <1>0, <1>2, <2>1 DEF SearchOf
<1>14. CallOf(D)'
  BY <1>2, <1>5 DEF CallOf, queueing, new, addr
<1> QED BY <1>7, <1>9, <1>10, <1>11, <1>12, <1>13, <1>14 DEF Rep

\* In a search: the node looked at is one, and how it is linked to the one before.
LEMMA RepSearching ==
    ASSUME NEW Q, NEW D, Rep(Q, D), at = "search"
    PROVE  /\ last = Nil => s = root
           /\ last # Nil => /\ last \in D[root] /\ last \in Sudog
                            /\ s = IF GoesLeft(last) THEN prev[last] ELSE next[last]
           /\ s # Nil => /\ s \in D[root] /\ s \in Sudog /\ parent[s] = last
                         /\ last # Nil => (prev[last] = s <=> GoesLeft(last))
           /\ s \in Pointer
<1>0. IsTree(root, parent, prev, next, D, elem)
  BY DEF Rep, TreapOf
<1>1. /\ last = Nil \/ last \in D[root]
      /\ s = IF last = Nil THEN root ELSE IF GoesLeft(last) THEN prev[last] ELSE next[last]
  BY DEF Rep, SearchOf
<1>t. Typed(Q, D)
  BY RepTypes
<1>2. /\ prev \in [Sudog -> Pointer] /\ next \in [Sudog -> Pointer] /\ root \in Pointer
      /\ D[root] \subseteq Sudog /\ Pointer = Sudog \cup {Nil} /\ Nil \notin Sudog
  BY <1>t DEF Typed
<1>3. s \in Pointer
  BY <1>1, <1>2
<1>4. ASSUME s # Nil, last = Nil
      PROVE  s \in D[root] /\ s \in Sudog /\ parent[s] = last
  <2>1. s \in Sudog /\ s \in D[s]
    BY <1>0, <1>2, <1>3, <1>4, TreeNode
  <2> QED BY <1>0, <1>1, <1>4, <2>1 DEF IsTree, Parents
<1>5. ASSUME s # Nil, last # Nil
      PROVE  s \in D[root] /\ s \in Sudog /\ parent[s] = last /\ (prev[last] = s <=> GoesLeft(last))
  <2>1. s \in Sudog /\ s \in {prev[last], next[last]} /\ last \in D[root] /\ last \in Sudog
    BY <1>1, <1>2, <1>3, <1>5
  <2>2. s \in D[root] /\ parent[s] = last
    BY <1>0, <2>1, ChildIn
  <2>3. prev[last] # next[last] \/ prev[last] = Nil
    BY <1>0, <2>1, TreeNode
  <2> QED BY <1>1, <1>5, <2>1, <2>2, <2>3
<1> QED BY <1>1, <1>2, <1>3, <1>4, <1>5

\* One step of the search.
LEMMA RepSearch ==
    ASSUME NEW Q, NEW D, Rep(Q, D), Search
    PROVE  Rep(Q, D)' /\ D[s'] \subseteq D[s] /\ s \in D[s] /\ s \notin D[s']
<1>t. Typed(Q, D)
  BY RepTypes
<1>f. /\ D \in [Pointer -> SUBSET Sudog] /\ D[Nil] = {} /\ D[root] \subseteq Sudog
      /\ Pointer = Sudog \cup {Nil} /\ Nil \notin Sudog /\ Addr \subseteq Nat
      /\ prev \in [Sudog -> Pointer] /\ next \in [Sudog -> Pointer] /\ elem \in [Sudog -> Int]
  BY <1>t DEF Typed
<1>0. /\ UNCHANGED <<root, node, waiting, at, call, found>> /\ last' = s /\ at = "search"
      /\ s # Nil /\ elem[s] # addr /\ s' = IF GoesLeft(s) THEN prev[s] ELSE next[s]
  BY DEF Search
<1>1. s \in D[root] /\ s \in Sudog /\ parent[s] = last
  BY <1>0, RepSearching
<1>2. IsTree(root, parent, prev, next, D, elem)
  BY DEF Rep, TreapOf
<1>3. /\ s \in D[s] /\ s \notin D[prev[s]] /\ s \notin D[next[s]]
      /\ D[prev[s]] \subseteq D[s] /\ D[next[s]] \subseteq D[s]
  BY <1>1, <1>2, TreeNode
<1>4. s' \in {prev[s], next[s]} /\ s' \in Pointer
  BY <1>0, <1>1, <1>f
<1>5. addr \in Addr /\ addr \in Int /\ elem[s] \in Int /\ addr # elem[s]
  <2>1. at # "idle"
    BY <1>0
  <2>2. addr \in Addr
    BY <2>1, RepCall
  <2> QED BY <1>0, <1>1, <1>f, <2>2
<1>6. GoesLeft(s) <=> addr < elem[s]
  BY DEF GoesLeft
<1>7. TreapTypes'
  <2>1. s \in Pointer
    BY <1>1, <1>f
  <2> QED BY <1>0, <1>4, <2>1 DEF TreapTypes, Rep, node
<1>8. HeapOf(D)'
  <2>1. Heaped(D[root], parent, prev, next, ticket, Nil, FALSE)
    BY <1>0, RepHeap
  <2> QED BY <1>0, <2>1 DEF HeapOf, node
<1>9. Pending' = Pending /\ addr' = addr
  BY <1>0 DEF Pending, queueing, new, addr
<1>10. SearchOf(D)'
  <2>0. \A n \in Sudog : D[n] = {n} \cup D[prev[n]] \cup D[next[n]]
    BY <1>2 DEF IsTree, Nested
  <2>00. /\ \A n \in Sudog : \A m \in D[prev[n]] : elem[m] < elem[n]
         /\ \A n \in Sudog : \A m \in D[next[n]] : elem[n] < elem[m]
    BY <1>2 DEF IsTree, Sorted
  <2>01. \A n \in D[root] : last \in D[n] =>
            elem[n] # addr /\ (last \in D[prev[n]] => addr < elem[n])
                           /\ (last \in D[next[n]] => elem[n] < addr)
    BY <1>0 DEF Rep, SearchOf
  <2>02. \A n \in Sudog : \A m \in D[n] : m # n => parent[m] \in D[n]
    BY <1>2 DEF IsTree, Parents
  <2>1. ASSUME NEW n \in D[root], s \in D[n]
        PROVE  /\ elem[n] # addr
               /\ s \in D[prev[n]] => addr < elem[n]
               /\ s \in D[next[n]] => elem[n] < addr
    <3>0. n \in Sudog /\ elem[n] \in Int /\ prev[n] \in Pointer /\ next[n] \in Pointer
      BY <1>f
    <3>1. CASE n = s
      BY <1>3, <1>5, <3>1
    <3>2. CASE n # s
      <4>1. last \in D[n]
        BY <1>1, <2>02, <2>1, <3>0, <3>2
      <4>2. last # Nil
        BY <1>f, <3>0, <4>1
      <4>3. s = IF GoesLeft(last) THEN prev[last] ELSE next[last]
        BY <1>0, <4>2, RepSearching
      <4>4. elem[n] # addr /\ (last \in D[prev[n]] => addr < elem[n])
                           /\ (last \in D[next[n]] => elem[n] < addr)
        BY <2>01, <4>1
      <4>5. CASE n = last
        <5>1. s \in D[prev[n]] => elem[s] < elem[n]
          BY <2>00, <3>0
        <5>2. s \in D[next[n]] => elem[n] < elem[s]
          BY <2>00, <3>0
        <5>3. IF addr < elem[n] THEN s \in D[prev[n]] ELSE s \in D[next[n]]
          BY <1>3, <4>3, <4>5 DEF GoesLeft
        <5> QED BY <1>5, <3>0, <4>4, <5>1, <5>2, <5>3
      <4>6. CASE n # last
        <5>1. s # prev[n] /\ s # next[n]
          BY <1>1, <1>2, <4>6, ChildIn
        <5>2. s \in D[prev[n]] => last \in D[prev[n]]
          BY <1>1, <1>f, <2>02, <3>0, <5>1
        <5>3. s \in D[next[n]] => last \in D[next[n]]
          BY <1>1, <1>f, <2>02, <3>0, <5>1
        <5> QED BY <4>4, <5>2, <5>3
      <4> QED BY <4>5, <4>6
    <3> QED BY <3>1, <3>2
  <2>2. ASSUME NEW n \in D[root], elem[n] = addr
        PROVE  n \in D[s']
    <3>1. n \in D[s]
      BY <1>0, <2>2 DEF Rep, SearchOf
    <3>2. n \in D[prev[s]] \/ n \in D[next[s]]
      BY <1>1, <1>5, <2>0, <2>2, <3>1
    <3>3. n \in D[prev[s]] => addr < elem[s]
      BY <1>1, <2>00, <2>2
    <3>4. n \in D[next[s]] => elem[s] < addr
      BY <1>1, <2>00, <2>2
    <3> QED BY <1>0, <1>5, <1>6, <3>2, <3>3, <3>4
  <2>3. s' = IF addr < elem[s] THEN prev[s] ELSE next[s]
    BY <1>0, <1>6
  <2>4. /\ root' = root /\ elem' = elem /\ prev' = prev /\ next' = next /\ last' = s /\ addr' = addr
        /\ GoesLeft(last)' = (addr < elem[s])
    BY <1>0, <1>9 DEF GoesLeft, node
  <2>5. s' = IF last' = Nil THEN root' ELSE IF GoesLeft(last)' THEN prev'[last'] ELSE next'[last']
    BY <1>0, <2>3, <2>4
  <2>6. last' = Nil \/ last' \in D[root']
    BY <1>1, <2>4
  <2> QED BY <2>1, <2>2, <2>4, <2>5, <2>6 DEF SearchOf
<1>11. CallOf(D)'
  BY <1>0 DEF Rep, CallOf, queueing, new, addr, node
<1>12. Rep(Q, D)'
  BY <1>0, <1>7, <1>8, <1>9, <1>10, <1>11, RepSame DEF Rep
<1> QED BY <1>3, <1>4, <1>12

\* dequeue finds nobody.
LEMMA RepDequeueNone ==
    ASSUME NEW Q, NEW D, Rep(Q, D), DequeueNone
    PROVE  Rep(Q, D)' /\ Q[addr] = <<>>
<1>t. Typed(Q, D)
  BY RepTypes
<1>0. /\ UNCHANGED <<root, node, waiting, found>> /\ at = "search" /\ at' = "idle" /\ ~queueing /\ s = Nil
      /\ s' = Nil /\ last' = Nil /\ call' = <<>>
  BY DEF DequeueNone, Returns
<1>1. TreapTypes'
  BY <1>0 DEF TreapTypes, Rep, node, Pointer
<1>2. HeapOf(D)'
  <2>1. Heaped(D[root], parent, prev, next, ticket, Nil, FALSE)
    BY <1>0, RepHeap
  <2> QED BY <1>0, <2>1 DEF HeapOf, node
<1>3. Pending' = Pending /\ SearchOf(D)' /\ CallOf(D)'
  BY <1>0 DEF Pending, SearchOf, CallOf
<1>4. Q[addr] = <<>>
  <2>1. addr \in Addr /\ Q[addr] \in Seq(Sudog) /\ D[Nil] = {}
    BY <1>0, <1>t, RepCall DEF Typed
  <2>2. Q[addr] # <<>> => 1 \in 1..Len(Q[addr])
    BY <2>1
  <2>3. Q[addr] # <<>> => Q[addr][1] \in D[root] /\ elem[Q[addr][1]] = addr
    BY <2>1, <2>2 DEF Rep, ListsOf
  <2>4. \A n \in D[root] : elem[n] = addr => n \in D[s]
    BY <1>0 DEF Rep, SearchOf
  <2> QED BY <1>0, <2>1, <2>3, <2>4
<1> QED BY <1>0, <1>1, <1>2, <1>3, <1>4, RepSame DEF Rep

\* dequeue finds the only one that waits for its address.
LEMMA RepDequeueAlone ==
    ASSUME NEW Q, NEW D, Rep(Q, D), DequeueAlone
    PROVE  Rep(Q, D)'
<1>t. Typed(Q, D)
  BY RepTypes
<1>0. /\ UNCHANGED <<root, node, waiting, call, s, last, found>> /\ at = "search" /\ at' = "down" /\ ~queueing
      /\ s # Nil /\ elem[s] = addr /\ waitlink[s] = Nil
  BY DEF DequeueAlone
<1>1. s \in D[root] /\ s \in Sudog
  BY <1>0, RepSearching
<1>2. IsTree(root, parent, prev, next, D, elem)
  BY DEF Rep, TreapOf
<1>3. TreapTypes'
  BY <1>0 DEF TreapTypes, Rep, node
<1>4. HeapOf(D)'
  <2>1. Heaped(D[root], parent, prev, next, ticket, Nil, FALSE)
    BY <1>0, RepHeap
  <2>0. /\ ticket \in [Sudog -> Nat] /\ D[root] \subseteq Sudog /\ parent \in [Sudog -> Pointer]
        /\ Nil \notin Sudog
    BY <1>t DEF Typed
  <2>2. ASSUME parent[s] # Nil, NEW m \in Sudog, m \in {prev[s], next[s]}
        PROVE  ticket[parent[s]] <= ticket[m]
    <3>1. parent[s] \in D[root] /\ s \in {prev[parent[s]], next[parent[s]]}
      BY <1>1, <1>2, <2>2 DEF IsTree, Parents
    <3>2. ticket[parent[s]] <= ticket[s] /\ ticket[s] <= ticket[m]
      BY <1>1, <2>0, <2>1, <2>2, <3>1 DEF Heaped
    <3>3. ticket[parent[s]] \in Nat /\ ticket[s] \in Nat /\ ticket[m] \in Nat
      BY <1>1, <2>0, <3>1
    <3> QED BY <3>2, <3>3
  <2>3. Heaped(D[root], parent, prev, next, ticket, s, TRUE)
    BY <2>0, <2>1, <2>2 DEF Heaped
  <2> QED BY <1>0, <2>3 DEF HeapOf, node
<1>5. Pending' = Pending /\ SearchOf(D)'
  BY <1>0 DEF Pending, queueing, SearchOf
<1>6. CallOf(D)'
  BY <1>0, <1>1 DEF Rep, CallOf, queueing, addr, node
<1> QED BY <1>0, <1>3, <1>4, <1>5, <1>6, RepSame DEF Rep

\* The new node is in its place.
LEMMA RepQueueDone ==
    ASSUME NEW Q, NEW D, Rep(Q, D), QueueDone
    PROVE  Rep(Q, D)'
<1>t. Typed(Q, D)
  BY RepTypes
<1>0. /\ UNCHANGED <<root, node, waiting, found>> /\ at = "up" /\ at' = "idle" /\ ~TooLow(s)
      /\ s' = Nil /\ last' = Nil /\ call' = <<>>
  BY DEF QueueDone, Returns
<1>f. /\ ticket \in [Sudog -> Nat] /\ D[root] \subseteq Sudog /\ parent \in [Sudog -> Pointer]
      /\ Nil \notin Sudog /\ Pointer = Sudog \cup {Nil}
  BY <1>t DEF Typed
<1>1. s \in D[root] /\ s \in Sudog
  BY <1>0, <1>f DEF Rep, CallOf
<1>2. IsTree(root, parent, prev, next, D, elem)
  BY DEF Rep, TreapOf
<1>3. TreapTypes'
  BY <1>0 DEF TreapTypes, Rep, node, Pointer
<1>4. HeapOf(D)'
  <2>1. Heaped(D[root], parent, prev, next, ticket, s, FALSE)
    BY <1>0 DEF Rep, HeapOf
  <2>2. parent[s] = Nil \/ ticket[parent[s]] <= ticket[s]
    <3>1. ticket[s] \in Nat /\ (parent[s] # Nil => ticket[parent[s]] \in Nat)
      BY <1>1, <1>f
    <3> QED BY <1>0, <3>1 DEF TooLow
  <2>3. ASSUME NEW n \in D[root], NEW m \in Sudog, m \in {prev[n], next[n]}
        PROVE  ticket[n] <= ticket[m]
    <3>1. CASE m = s
      <4>1. parent[s] = n /\ n # Nil
        BY <1>2, <1>f, <2>3, <3>1, ChildIn
      <4> QED BY <2>2, <3>1, <4>1
    <3>2. CASE m # s
      BY <2>1, <2>3, <3>2 DEF Heaped
    <3> QED BY <3>1, <3>2
  <2>4. Heaped(D[root], parent, prev, next, ticket, Nil, FALSE)
    BY <1>f, <2>3 DEF Heaped
  <2> QED BY <1>0, <2>4 DEF HeapOf, node
<1>5. Pending' = Pending /\ SearchOf(D)' /\ CallOf(D)'
  BY <1>0 DEF Pending, SearchOf, CallOf
<1> QED BY <1>0, <1>3, <1>4, <1>5, RepSame DEF Rep

-----------------------------------------------------------------------------
(* Rotations *)

\* The assignments of a rotation, one after the other.
LEMMA RotationIs ==
    ASSUME NEW rt, NEW P, NEW L, NEW R, NEW D, NEW K, IsTree(rt, P, L, R, D, K),
           NEW y \in D[rt], NEW x, x = L[y], x # Nil, NEW b, b = R[x], NEW p, p = P[y],
           NEW isLeft \in BOOLEAN, p # Nil => (isLeft <=> L[p] = y), NEW P2, NEW L2, NEW R2,
           P2 = Put([P EXCEPT ![y] = x, ![x] = p], b, y),
           L2 = Swung(p # Nil /\ isLeft, [L EXCEPT ![y] = b], p, y, x),
           R2 = Swung(p # Nil /\ ~isLeft, [R EXCEPT ![x] = y], p, y, x)
    PROVE  Rotates(rt, P, L, R, D, K, x, y, b, p, isLeft, P2, L2, R2)
<1>0. /\ P \in [Sudog -> Pointer] /\ L \in [Sudog -> Pointer] /\ R \in [Sudog -> Pointer]
      /\ rt \in Pointer /\ D \in [Pointer -> SUBSET Sudog] /\ D[Nil] = {} /\ Nil \notin Sudog
      /\ Pointer = Sudog \cup {Nil} /\ y \in Sudog
  BY TreapAssumption DEF IsTree, Pointers, Nested, Pointer
<1>1. x \in Sudog /\ x \in D[y] /\ x # y
  BY <1>0, TreeNode
<1>2. b \in Pointer /\ b # x /\ b # y
  <2>1. b # x /\ (b # Nil => b \in D[x] /\ b \in Sudog)
    BY <1>1, TreeNode
  <2>2. y \notin D[x]
    BY <1>0, TreeNode
  <2> QED BY <1>0, <2>1, <2>2
<1>3. p \in Pointer /\ p # y /\ p # x
  <2>1. ASSUME p # Nil
        PROVE  p # y /\ p # x
    <3>1. p \in Sudog /\ y \in {L[p], R[p]}
      BY <1>0, <2>1 DEF IsTree, Parents
    <3>2. p \notin D[L[p]] /\ p \notin D[R[p]]
      BY <3>1, TreeNode
    <3>3. y \in D[y]
      BY <1>0, TreeNode
    <3> QED BY <1>1, <3>1, <3>2, <3>3
  <2> QED BY <1>0, <1>1, <2>1
<1>4. P2 = [n \in Sudog |-> IF n = x THEN p ELSE IF n = y THEN x ELSE IF n = b THEN y ELSE P[n]]
  BY <1>0, <1>1, <1>2 DEF Put
<1>5. L2 = [n \in Sudog |-> IF n = y THEN b ELSE IF n = p /\ isLeft THEN x ELSE L[n]]
  BY <1>0, <1>1, <1>3 DEF Swung
<1>6. R2 = [n \in Sudog |-> IF n = x THEN y ELSE IF n = p /\ ~isLeft THEN x ELSE R[n]]
  BY <1>0, <1>1, <1>3 DEF Swung
<1> QED BY <1>4, <1>5, <1>6 DEF Rotates

\* And back.
LEMMA Unmirror ==
    ASSUME NEW rt, NEW P, NEW L, NEW R, NEW D, NEW K \in [Sudog -> Int],
           IsTree(rt, P, R, L, D, [n \in Sudog |-> -K[n]])
    PROVE  IsTree(rt, P, L, R, D, K)
<1> DEFINE M == [n \in Sudog |-> -K[n]]
<1>1. IsTree(rt, P, L, R, D, [n \in Sudog |-> -M[n]])
  BY Mirror
<1>2. [n \in Sudog |-> -M[n]] = K
  <2>1. \A n \in Sudog : -(-K[n]) = K[n]
    OBVIOUS
  <2> QED BY <2>1
<1> QED BY <1>1, <1>2

\* rotateRight is a rotation.
LEMMA RotatesRight ==
    ASSUME NEW Q, NEW D, Rep(Q, D), NEW y \in D[root], prev[y] # Nil, rotateRight(y)
    PROVE  /\ Rotates(root, parent, prev, next, D, elem, prev[y], y, next[prev[y]], parent[y],
                      OnLeft(parent[y], y), parent', prev', next')
           /\ root' = IF parent[y] = Nil THEN prev[y] ELSE root
<1> DEFINE p == parent[y]
           x == prev[y]
           b == next[x]
<1>1. IsTree(root, parent, prev, next, D, elem)
  BY DEF Rep, TreapOf
<1>2. OnLeft(p, y) \in BOOLEAN /\ (p # Nil => (OnLeft(p, y) <=> prev[p] = y))
  BY DEF OnLeft
<1>3. (p # Nil /\ OnLeft(p, y)) = OnLeft(p, y)
  BY DEF OnLeft
<1>4. /\ parent' = Put([parent EXCEPT ![y] = x, ![x] = p], b, y)
      /\ prev' = Swung(p # Nil /\ OnLeft(p, y), [prev EXCEPT ![y] = b], p, y, x)
      /\ next' = Swung(p # Nil /\ ~OnLeft(p, y), [next EXCEPT ![x] = y], p, y, x)
      /\ root' = IF p = Nil THEN x ELSE root
  BY <1>3 DEF rotateRight, Adopted
<1>5. x = prev[y] /\ x # Nil /\ b = next[x] /\ p = parent[y]
  OBVIOUS
<1> HIDE DEF p, x, b
<1>6. Rotates(root, parent, prev, next, D, elem, x, y, b, p, OnLeft(p, y), parent', prev', next')
  BY <1>1, <1>2, <1>4, <1>5, RotationIs
<1> QED BY <1>4, <1>6 DEF p, x, b

\* rotateLeft is one, seen in a mirror.
LEMMA RotatesLeft ==
    ASSUME NEW Q, NEW D, Rep(Q, D), NEW x \in D[root], next[x] # Nil, rotateLeft(x)
    PROVE  /\ Rotates(root, parent, next, prev, D, [n \in Sudog |-> -elem[n]], next[x], x, prev[next[x]],
                      parent[x], ~OnLeft(parent[x], x), parent', next', prev')
           /\ root' = IF parent[x] = Nil THEN next[x] ELSE root
<1> DEFINE p == parent[x]
           y == next[x]
           b == prev[y]
           K == [n \in Sudog |-> -elem[n]]
<1>0. IsTree(root, parent, prev, next, D, elem)
  BY DEF Rep, TreapOf
<1>1. IsTree(root, parent, next, prev, D, K)
  BY <1>0, Mirror
<1>2. (~OnLeft(p, x)) \in BOOLEAN /\ (p # Nil => (~OnLeft(p, x) <=> next[p] = x))
  <2>1. ASSUME p # Nil
        PROVE  x \in {prev[p], next[p]} /\ p \in D[root] /\ x \in D[root] /\ x # Nil
    <3>1. Nil \notin Sudog /\ D[root] \subseteq Sudog
      BY <1>0, TreapAssumption DEF IsTree, Pointers, Nested
    <3> QED BY <1>0, <2>1, <3>1 DEF IsTree, Parents
  <2>2. D[root] \subseteq Sudog
    BY <1>0 DEF IsTree, Pointers, Nested
  <2>3. p # Nil => (prev[p] = Nil \/ prev[p] # next[p])
    BY <1>0, <2>1, <2>2, TreeNode
  <2> QED BY <2>1, <2>3 DEF OnLeft
<1>3. (p # Nil /\ ~~OnLeft(p, x)) = OnLeft(p, x)
  BY DEF OnLeft
<1>4. /\ parent' = Put([parent EXCEPT ![x] = y, ![y] = p], b, x)
      /\ next' = Swung(p # Nil /\ ~OnLeft(p, x), [next EXCEPT ![x] = b], p, x, y)
      /\ prev' = Swung(p # Nil /\ ~~OnLeft(p, x), [prev EXCEPT ![y] = x], p, x, y)
      /\ root' = IF p = Nil THEN y ELSE root
  BY <1>3 DEF rotateLeft, Adopted
<1>5. y = next[x] /\ y # Nil /\ b = prev[y] /\ p = parent[x]
  OBVIOUS
<1> HIDE DEF p, y, b, K
<1>6. Rotates(root, parent, next, prev, D, K, y, x, b, p, ~OnLeft(p, x), parent', next', prev')
  BY <1>1, <1>2, <1>4, <1>5, RotationIs
<1> QED BY <1>4, <1>6 DEF p, y, b, K

\* After a rotation of either kind, whatever the subtrees become.
LEMMA RepRotated ==
    ASSUME NEW Q, NEW D, Rep(Q, D), NEW E, IsTree(root', parent', prev', next', E, elem),
           E[root'] = D[root], at \in {"up", "down"},
           UNCHANGED <<elem, ticket, waitlink, waittail, waiters, waiting, at, call, s, last, found>>
    PROVE  TreapOf(E)' /\ ListsOf(Q, E)' /\ CleanOf(Q, E)' /\ SearchOf(E)' /\ CallOf(E)' /\ TreapTypes'
<1>1. TreapOf(E)'
  BY DEF TreapOf
<1>2. ListsOf(Q, E)'
  BY DEF Rep, ListsOf
<1>3. CleanOf(Q, E)'
  BY DEF Rep, CleanOf, Pending, queueing, new
<1>4. SearchOf(E)' /\ CallOf(E)'
  BY DEF Rep, SearchOf, CallOf, queueing, new, addr
<1>5. TreapTypes'
  <2>1. /\ root' \in Pointer /\ parent' \in [Sudog -> Pointer] /\ prev' \in [Sudog -> Pointer]
        /\ next' \in [Sudog -> Pointer]
    BY DEF IsTree, Pointers
  <2> QED BY <2>1 DEF Rep, TreapTypes
<1> QED BY <1>1, <1>2, <1>3, <1>4, <1>5

\* A rotation brings the new node up, and its subtree grows by its parent.
LEMMA RepRotateUp ==
    ASSUME NEW Q, NEW D, Rep(Q, D), RotateUp, NEW E,
           E = Rotated(D, IF prev[parent[s]] = s THEN next ELSE prev, s, parent[s])
    PROVE  Rep(Q, E)' /\ D[s] \subseteq E[s'] /\ parent[s] \in E[s'] /\ parent[s] \notin D[s]
<1>t. Typed(Q, D)
  BY RepTypes
<1>f. /\ ticket \in [Sudog -> Nat] /\ D[root] \subseteq Sudog /\ parent \in [Sudog -> Pointer]
      /\ Nil \notin Sudog /\ Pointer = Sudog \cup {Nil} /\ D \in [Pointer -> SUBSET Sudog]
      /\ elem \in [Sudog -> Int]
  BY <1>t DEF Typed
<1>0. /\ UNCHANGED <<elem, ticket, waitlink, waittail, waiters, waiting, at, call, s, last, found>>
      /\ at = "up" /\ parent[s] # Nil /\ ticket[parent[s]] > ticket[s]
  BY DEF RotateUp, TooLow
<1>1. s \in D[root] /\ s \in Sudog
  BY <1>0, <1>f DEF Rep, CallOf
<1>2. IsTree(root, parent, prev, next, D, elem)
  BY DEF Rep, TreapOf
<1>3. parent[s] \in D[root] /\ parent[s] \in Sudog /\ s \in {prev[parent[s]], next[parent[s]]} /\ s # Nil
  BY <1>0, <1>1, <1>2, <1>f DEF IsTree, Parents
<1>4. parent[s] \in D[parent[s]] /\ parent[s] \notin D[s] /\ D[s] \subseteq D[parent[s]] /\ s # parent[s]
  BY <1>2, <1>3, TreeNode
<1>5. E[s] = D[parent[s]]
  BY <1>1, <1>3, <1>4, <1>f DEF Rotated
<1>6. Heaped(D[root], parent, prev, next, ticket, s, FALSE) /\ ticket[s] < ticket[parent[s]]
  <2>1. ticket[parent[s]] \in Nat /\ ticket[s] \in Nat
    BY <1>1, <1>3, <1>f
  <2> QED BY <1>0, <2>1 DEF Rep, HeapOf
<1>7. ASSUME prev[parent[s]] = s
      PROVE  Rep(Q, E)'
  <2>1. rotateRight(parent[s])
    BY <1>7 DEF RotateUp
  <2> DEFINE p == parent[parent[s]]
             b == next[s]
             isLeft == OnLeft(p, parent[s])
  <2>2. /\ Rotates(root, parent, prev, next, D, elem, s, parent[s], b, p, isLeft, parent', prev', next')
        /\ root' = IF p = Nil THEN s ELSE root
    BY <1>3, <1>7, <2>1, RotatesRight
  <2>3. E = Rotated(D, next, s, parent[s])
    BY <1>7
  <2> HIDE DEF p, b, isLeft
  <2>4. IsTree(root', parent', prev', next', E, elem) /\ E[root'] = D[root]
    BY <2>2, <2>3, Rotation
  <2>5. Heaped(D[root], parent', prev', next', ticket, s, FALSE)
    BY <1>6, <1>f, <2>2, HeapUp
  <2>6. HeapOf(E)'
    BY <1>0, <2>4, <2>5 DEF HeapOf
  <2> QED BY <1>0, <2>4, <2>6, RepRotated DEF Rep
<1>8. ASSUME prev[parent[s]] # s
      PROVE  Rep(Q, E)'
  <2>1. rotateLeft(parent[s])
    BY <1>8 DEF RotateUp
  <2> DEFINE p == parent[parent[s]]
             b == prev[s]
             isLeft == ~OnLeft(p, parent[s])
             K == [n \in Sudog |-> -elem[n]]
  <2>2. /\ Rotates(root, parent, next, prev, D, K, s, parent[s], b, p, isLeft, parent', next', prev')
        /\ root' = IF p = Nil THEN s ELSE root
    <3>1. next[parent[s]] = s
      BY <1>3, <1>8
    <3> QED BY <1>3, <2>1, <3>1, RotatesLeft
  <2>3. E = Rotated(D, prev, s, parent[s])
    BY <1>8
  <2> HIDE DEF p, b, isLeft, K
  <2>4. IsTree(root', parent', next', prev', E, K) /\ E[root'] = D[root]
    BY <2>2, <2>3, Rotation
  <2>5. IsTree(root', parent', prev', next', E, elem)
    BY <1>f, <2>4, Unmirror DEF K
  <2>6. Heaped(D[root], parent, next, prev, ticket, s, FALSE)
    BY <1>6, HeapMirror
  <2>7. Heaped(D[root], parent', next', prev', ticket, s, FALSE)
    BY <1>6, <1>f, <2>2, <2>6, HeapUp
  <2>8. Heaped(D[root], parent', prev', next', ticket, s, FALSE)
    BY <2>7, HeapMirror
  <2>9. HeapOf(E)'
    BY <1>0, <2>4, <2>8 DEF HeapOf
  <2> QED BY <1>0, <2>4, <2>5, <2>9, RepRotated DEF Rep
<1>9. Rep(Q, E)'
  BY <1>7, <1>8
<1> QED BY <1>0, <1>4, <1>5, <1>9

\* A rotation takes the node that leaves one step down, and its subtree shrinks by
\* the child that goes up.
LEMMA RepRotateDown ==
    ASSUME NEW Q, NEW D, Rep(Q, D), RotateDown, NEW E,
           E = IF LeftIsSmaller(s) THEN Rotated(D, next, prev[s], s) ELSE Rotated(D, prev, next[s], s)
    PROVE  Rep(Q, E)' /\ E[s'] \subseteq D[s] /\ \E c \in D[s] : c \notin E[s']
<1>t. Typed(Q, D)
  BY RepTypes
<1>f. /\ ticket \in [Sudog -> Nat] /\ D[root] \subseteq Sudog /\ prev \in [Sudog -> Pointer]
      /\ next \in [Sudog -> Pointer]
      /\ Nil \notin Sudog /\ Pointer = Sudog \cup {Nil} /\ D \in [Pointer -> SUBSET Sudog]
      /\ elem \in [Sudog -> Int]
  BY <1>t DEF Typed
<1>0. /\ UNCHANGED <<elem, ticket, waitlink, waittail, waiters, waiting, at, call, s, last, found>>
      /\ at = "down" /\ (next[s] # Nil \/ prev[s] # Nil)
  BY DEF RotateDown
<1>1. s \in D[root] /\ s \in Sudog
  BY <1>0, <1>f DEF Rep, CallOf
<1>2. IsTree(root, parent, prev, next, D, elem)
  BY DEF Rep, TreapOf
<1>3. /\ s \in D[s] /\ D[prev[s]] \subseteq D[s] /\ D[next[s]] \subseteq D[s]
      /\ \A n \in Sudog : \A m \in D[prev[n]] : elem[m] < elem[n]
      /\ \A n \in Sudog : \A m \in D[next[n]] : elem[n] < elem[m]
  BY <1>1, <1>2, TreeNode DEF IsTree, Sorted
<1>4. /\ prev[s] # Nil => prev[s] \in Sudog /\ prev[s] \in D[prev[s]] /\ prev[s] # s
                          /\ D[next[prev[s]]] \subseteq D[prev[s]] /\ prev[s] \notin D[next[prev[s]]]
      /\ next[s] # Nil => next[s] \in Sudog /\ next[s] \in D[next[s]] /\ next[s] # s
                          /\ D[prev[next[s]]] \subseteq D[next[s]] /\ next[s] \notin D[prev[next[s]]]
  <2>1. /\ prev[s] # Nil => prev[s] \in Sudog /\ prev[s] # s
        /\ next[s] # Nil => next[s] \in Sudog /\ next[s] # s
    BY <1>1, <1>2, TreeNode
  <2> QED BY <1>2, <2>1, TreeNode
<1>5. Heaped(D[root], parent, prev, next, ticket, s, TRUE)
  BY <1>0 DEF Rep, HeapOf
<1>6. ASSUME LeftIsSmaller(s)
      PROVE  /\ Rep(Q, E)' /\ E[s] = {s} \cup D[next[prev[s]]] \cup D[next[s]]
             /\ prev[s] \in D[s] /\ prev[s] \notin E[s] /\ E[s] \subseteq D[s]
  <2>1. rotateRight(s) /\ prev[s] # Nil
    BY <1>0, <1>6 DEF RotateDown, LeftIsSmaller
  <2> DEFINE x == prev[s]
             p == parent[s]
             b == next[x]
             isLeft == OnLeft(p, s)
  <2>2. /\ Rotates(root, parent, prev, next, D, elem, x, s, b, p, isLeft, parent', prev', next')
        /\ root' = IF p = Nil THEN x ELSE root
    BY <1>1, <2>1, RotatesRight
  <2>3. E = Rotated(D, next, x, s)
    BY <1>6
  <2>4. E[s] = {s} \cup D[next[prev[s]]] \cup D[next[s]]
    BY <1>1, <1>4, <1>f, <2>1, <2>3 DEF Rotated
  <2>5. prev[s] \in D[s] /\ prev[s] \notin E[s] /\ E[s] \subseteq D[s]
    <3>1. prev[s] \notin D[next[s]]
      <4>1. prev[s] \in D[next[s]] => elem[s] < elem[prev[s]]
        BY <1>1, <1>3
      <4>2. elem[prev[s]] < elem[s]
        BY <1>1, <1>3, <1>4, <2>1
      <4>3. elem[s] \in Int /\ elem[prev[s]] \in Int
        BY <1>1, <1>4, <1>f, <2>1
      <4> QED BY <4>1, <4>2, <4>3
    <3> QED BY <1>3, <1>4, <2>1, <2>4, <3>1
  <2>6. next[s] # Nil => ticket[x] <= ticket[next[s]]
    <3>1. next[s] # Nil => ticket[x] \in Nat /\ ticket[next[s]] \in Nat
      BY <1>4, <1>f, <2>1
    <3> QED BY <1>6, <3>1 DEF LeftIsSmaller
  <2> HIDE DEF p, b, isLeft, x
  <2>7. IsTree(root', parent', prev', next', E, elem) /\ E[root'] = D[root]
    BY <2>2, <2>3, Rotation
  <2>8. Heaped(D[root], parent', prev', next', ticket, s, TRUE)
    BY <1>5, <1>f, <2>2, <2>6, HeapDown
  <2>9. HeapOf(E)'
    BY <1>0, <2>7, <2>8 DEF HeapOf
  <2>10. Rep(Q, E)'
    BY <1>0, <2>7, <2>9, RepRotated DEF Rep
  <2> QED BY <2>4, <2>5, <2>10
<1>7. ASSUME ~LeftIsSmaller(s)
      PROVE  /\ Rep(Q, E)' /\ E[s] = {s} \cup D[prev[next[s]]] \cup D[prev[s]]
             /\ next[s] \in D[s] /\ next[s] \notin E[s] /\ E[s] \subseteq D[s]
  <2>1. rotateLeft(s) /\ next[s] # Nil
    BY <1>0, <1>7 DEF RotateDown, LeftIsSmaller
  <2> DEFINE x == next[s]
             p == parent[s]
             b == prev[x]
             isLeft == ~OnLeft(p, s)
             K == [n \in Sudog |-> -elem[n]]
  <2>2. /\ Rotates(root, parent, next, prev, D, K, x, s, b, p, isLeft, parent', next', prev')
        /\ root' = IF p = Nil THEN x ELSE root
    BY <1>1, <2>1, RotatesLeft
  <2>3. E = Rotated(D, prev, x, s)
    BY <1>7
  <2>4. E[s] = {s} \cup D[prev[next[s]]] \cup D[prev[s]]
    BY <1>1, <1>4, <1>f, <2>1, <2>3 DEF Rotated
  <2>5. next[s] \in D[s] /\ next[s] \notin E[s] /\ E[s] \subseteq D[s]
    <3>1. next[s] \notin D[prev[s]]
      <4>1. next[s] \in D[prev[s]] => elem[next[s]] < elem[s]
        BY <1>1, <1>3
      <4>2. elem[s] < elem[next[s]]
        BY <1>1, <1>3, <1>4, <2>1
      <4>3. elem[s] \in Int /\ elem[next[s]] \in Int
        BY <1>1, <1>4, <1>f, <2>1
      <4> QED BY <4>1, <4>2, <4>3
    <3> QED BY <1>3, <1>4, <2>1, <2>4, <3>1
  <2>6. prev[s] # Nil => ticket[x] <= ticket[prev[s]]
    <3>1. prev[s] # Nil => ticket[x] \in Nat /\ ticket[prev[s]] \in Nat
      BY <1>4, <1>f, <2>1
    <3> QED BY <1>7, <2>1, <3>1 DEF LeftIsSmaller
  <2> HIDE DEF p, b, isLeft, x, K
  <2>7. IsTree(root', parent', next', prev', E, K) /\ E[root'] = D[root]
    BY <2>2, <2>3, Rotation
  <2>8. IsTree(root', parent', prev', next', E, elem)
    BY <1>f, <2>7, Unmirror DEF K
  <2>9. Heaped(D[root], parent, next, prev, ticket, s, TRUE)
    BY <1>5, HeapMirror
  <2>10. Heaped(D[root], parent', next', prev', ticket, s, TRUE)
    BY <1>f, <2>2, <2>6, <2>9, HeapDown
  <2>11. Heaped(D[root], parent', prev', next', ticket, s, TRUE)
    BY <2>10, HeapMirror
  <2>12. HeapOf(E)'
    BY <1>0, <2>7, <2>11 DEF HeapOf
  <2>13. Rep(Q, E)'
    BY <1>0, <2>7, <2>8, <2>12, RepRotated DEF Rep
  <2> QED BY <2>4, <2>5, <2>13
<1> QED BY <1>0, <1>6, <1>7

-----------------------------------------------------------------------------
(* The steps that change a list *)

\* A sudog of a list, and that a node is the head of one.
LEMMA ListNode ==
    ASSUME NEW Q, NEW D, Rep(Q, D), NEW a \in Addr
    PROVE  /\ Q[a] \in Seq(Sudog) /\ Len(Q[a]) \in Nat
           /\ Q[a] # <<>> <=> 1 \in 1..Len(Q[a])
           /\ \A i \in 1..Len(Q[a]) :
                 /\ Q[a][i] \in Sudog /\ Q[a][i] \in Listed(Q) /\ elem[Q[a][i]] = a
                 /\ waitlink[Q[a][i]] = IF i = Len(Q[a]) THEN Nil ELSE Q[a][i + 1]
                 /\ \A j \in 1..Len(Q[a]) : Q[a][i] = Q[a][j] => i = j
                 /\ Q[a][i] \in D[root] <=> i = 1
<1>t. Typed(Q, D)
  BY RepTypes
<1>1. Q[a] \in Seq(Sudog)
  BY <1>t DEF Typed
<1>2. Len(Q[a]) \in Nat /\ (Q[a] # <<>> <=> 1 \in 1..Len(Q[a]))
  BY <1>1
<1>3. ListsOf(Q, D)
  BY DEF Rep
<1>4. ASSUME NEW i \in 1..Len(Q[a])
      PROVE  /\ Q[a][i] \in Sudog /\ Q[a][i] \in Listed(Q) /\ elem[Q[a][i]] = a
             /\ waitlink[Q[a][i]] = IF i = Len(Q[a]) THEN Nil ELSE Q[a][i + 1]
             /\ \A j \in 1..Len(Q[a]) : Q[a][i] = Q[a][j] => i = j
  <2>1. Q[a][i] \in Sudog
    BY <1>1
  <2>2. Q[a][i] \in Listed(Q)
    BY InListed
  <2>3. /\ elem[Q[a][i]] = a
        /\ waitlink[Q[a][i]] = IF i = Len(Q[a]) THEN Nil ELSE Q[a][i + 1]
        /\ \A j \in 1..Len(Q[a]) : Q[a][i] = Q[a][j] => i = j
    BY <1>3 DEF ListsOf
  <2> QED BY <2>1, <2>2, <2>3
<1>5. ASSUME NEW i \in 1..Len(Q[a])
      PROVE  Q[a][i] \in D[root] <=> i = 1
  <2>0. 1 \in 1..Len(Q[a]) /\ Q[a] # <<>>
    BY <1>2
  <2>1. Q[a][1] \in D[root]
    BY <1>3, <2>0 DEF ListsOf
  <2>2. Q[a][i] \in D[root] => Q[a][i] = Q[a][1]
    BY <1>3, <1>4 DEF ListsOf
  <2> QED BY <1>4, <2>0, <2>1, <2>2
<1> QED BY <1>1, <1>2, <1>4, <1>5

\* A node of the tree is the head of its list.
LEMMA HeadOf ==
    ASSUME NEW Q, NEW D, Rep(Q, D), NEW n \in D[root]
    PROVE  /\ n \in Sudog /\ elem[n] \in Addr /\ Q[elem[n]] # <<>> /\ Q[elem[n]][1] = n
           /\ waittail[n] = IF Len(Q[elem[n]]) = 1 THEN Nil ELSE Q[elem[n]][Len(Q[elem[n]])]
           /\ waitlink[n] = IF Len(Q[elem[n]]) = 1 THEN Nil ELSE Q[elem[n]][2]
<1>1. elem[n] \in Addr /\ Q[elem[n]] # <<>> /\ Q[elem[n]][1] = n
  BY DEF Rep, ListsOf
<1>2. /\ 1 \in 1..Len(Q[elem[n]]) /\ n \in Sudog
      /\ waitlink[n] = IF 1 = Len(Q[elem[n]]) THEN Nil ELSE Q[elem[n]][1 + 1]
  <2>1. PICK a \in Addr : a = elem[n]
    BY <1>1
  <2>2. 1 \in 1..Len(Q[a])
    BY <1>1, <2>1, ListNode
  <2>3. \A i \in 1..Len(Q[a]) :
           Q[a][i] \in Sudog /\ waitlink[Q[a][i]] = IF i = Len(Q[a]) THEN Nil ELSE Q[a][i + 1]
    BY ListNode
  <2> QED BY <1>1, <2>1, <2>2, <2>3
<1>3. waittail[n] = IF Len(Q[elem[n]]) = 1 THEN Nil ELSE Q[elem[n]][Len(Q[elem[n]])]
  BY <1>1 DEF Rep, ListsOf
<1> QED BY <1>1, <1>2, <1>3

\* The lists when the first of those that wait for a has left.
Shorter(Q, a) == [Q EXCEPT ![a] = Tail(Q[a])]

\* What is in them.
LEMMA ShorterList ==
    ASSUME NEW Q \in [Addr -> Seq(Sudog)], NEW a \in Addr, Q[a] # <<>>
    PROVE  /\ Shorter(Q, a) \in [Addr -> Seq(Sudog)]
           /\ \A b \in Addr : b # a => Shorter(Q, a)[b] = Q[b]
           /\ Len(Shorter(Q, a)[a]) = Len(Q[a]) - 1
           /\ \A i \in 1..Len(Shorter(Q, a)[a]) : Shorter(Q, a)[a][i] = Q[a][i + 1]
<1>1. /\ Tail(Q[a]) \in Seq(Sudog) /\ Len(Tail(Q[a])) = Len(Q[a]) - 1
      /\ \A i \in 1..Len(Tail(Q[a])) : Tail(Q[a])[i] = Q[a][i + 1]
  <2>1. PICK q \in Seq(Sudog) : q = Q[a]
    OBVIOUS
  <2> QED BY <2>1, HeadTailProperties
<1>2. Shorter(Q, a)[a] = Tail(Q[a]) /\ \A b \in Addr : b # a => Shorter(Q, a)[b] = Q[b]
  BY DEF Shorter
<1>3. Shorter(Q, a) \in [Addr -> Seq(Sudog)]
  BY <1>1 DEF Shorter
<1> QED BY <1>1, <1>2, <1>3

\* The last of an address leaves the tree.
LEMMA RepRemoveLeaf ==
    ASSUME NEW Q, NEW D, Rep(Q, D), RemoveLeaf, NEW E, E = Cut(D, s),
           NEW W, W = Shorter(Q, addr)
    PROVE  Rep(W, E)' /\ Q[addr] # <<>> /\ s = Q[addr][1]
<1>t. Typed(Q, D)
  BY RepTypes
<1>f. /\ D[root] \subseteq Sudog /\ parent \in [Sudog -> Pointer] /\ prev \in [Sudog -> Pointer]
      /\ next \in [Sudog -> Pointer] /\ Nil \notin Sudog /\ Pointer = Sudog \cup {Nil}
      /\ elem \in [Sudog -> Int] /\ elem \in [Sudog -> Addr \cup {0}]
      /\ ticket \in [Sudog -> Ticket \cup {0}] /\ Q \in [Addr -> Seq(Sudog)]
      /\ waiting \subseteq Sudog /\ Listed(Q) \subseteq waiting
  BY <1>t DEF Typed
<1>0. /\ at = "down" /\ next[s] = Nil /\ prev[s] = Nil
      /\ parent' = [parent EXCEPT ![s] = Nil] /\ elem' = [elem EXCEPT ![s] = 0]
      /\ ticket' = [ticket EXCEPT ![s] = 0] /\ waiting' = waiting \ {s} /\ found' = s
      /\ at' = "idle" /\ call' = <<>> /\ s' = Nil /\ last' = Nil
      /\ UNCHANGED <<waitlink, waittail, waiters>>
      /\ root' = IF parent[s] = Nil THEN Nil ELSE root
  BY DEF RemoveLeaf, Returns
<1>1. s \in D[root] /\ s \in Sudog /\ elem[s] = addr /\ waitlink[s] = Nil
  BY <1>0, <1>f DEF Rep, CallOf
<1>2. IsTree(root, parent, prev, next, D, elem)
  BY DEF Rep, TreapOf
<1>3. /\ \A n \in Sudog : prev[n] = s => parent[s] = n /\ next[n] # s
      /\ \A n \in Sudog : next[n] = s => parent[s] = n /\ prev[n] # s
      /\ parent[s] # Nil => parent[s] \in Sudog /\ s \in {prev[parent[s]], next[parent[s]]}
  <2>1. parent[s] # Nil => parent[s] \in Sudog /\ s \in {prev[parent[s]], next[parent[s]]}
    BY <1>1, <1>2, <1>f DEF IsTree, Parents
  <2>2. s # Nil
    BY <1>1, <1>f
  <2> QED BY <1>2, <2>1, <2>2, TreeNode
<1>4. /\ prev' = [n \in Sudog |-> IF prev[n] = s THEN Nil ELSE prev[n]]
      /\ next' = [n \in Sudog |-> IF next[n] = s THEN Nil ELSE next[n]]
  <2>1. prev' = IF OnLeft(parent[s], s) THEN [prev EXCEPT ![parent[s]] = Nil] ELSE prev
    BY DEF RemoveLeaf
  <2>2. next' = IF parent[s] # Nil /\ ~OnLeft(parent[s], s) THEN [next EXCEPT ![parent[s]] = Nil] ELSE next
    BY DEF RemoveLeaf
  <2>3. CASE parent[s] = Nil
    <3>1. prev' = prev /\ next' = next
      BY <2>1, <2>2, <2>3 DEF OnLeft
    <3>2. \A n \in Sudog : prev[n] # s /\ next[n] # s
      BY <1>3, <1>f, <2>3
    <3> QED BY <1>f, <3>1, <3>2
  <2>4. CASE parent[s] # Nil /\ prev[parent[s]] = s
    <3>1. prev' = [prev EXCEPT ![parent[s]] = Nil] /\ next' = next
      BY <2>1, <2>2, <2>4 DEF OnLeft
    <3>2. \A n \in Sudog : next[n] # s /\ (prev[n] = s <=> n = parent[s])
      BY <1>3, <2>4
    <3> QED BY <1>f, <3>1, <3>2
  <2>5. CASE parent[s] # Nil /\ prev[parent[s]] # s
    <3>1. next' = [next EXCEPT ![parent[s]] = Nil] /\ prev' = prev
      BY <2>1, <2>2, <2>5 DEF OnLeft
    <3>2. \A n \in Sudog : prev[n] # s /\ (next[n] = s <=> n = parent[s])
      BY <1>3, <2>5
    <3> QED BY <1>f, <3>1, <3>2
  <2> QED BY <2>3, <2>4, <2>5
<1>5. /\ elem' \in [Sudog -> Int] /\ elem' \in [Sudog -> Addr \cup {0}]
      /\ ticket' \in [Sudog -> Ticket \cup {0}] /\ elem'[s] = 0
      /\ \A n \in Sudog : n # s => elem'[n] = elem[n] /\ ticket'[n] = ticket[n]
  BY <1>0, <1>1, <1>f
<1>6. IsTree(root', parent', prev', next', E, elem') /\ E[root'] = D[root] \ {s}
  <2>1. parent' = With(parent, s, Nil)
    BY <1>0 DEF With
  <2>2. root' = IF parent[s] = Nil THEN Nil ELSE root
    BY <1>0
  <2>3. prev[s] = Nil /\ next[s] = Nil
    BY <1>0
  <2>4. elem' \in [Sudog -> Int] /\ \A n \in Sudog : n # s => elem'[n] = elem[n]
    BY <1>5
  <2>5. s \in D[root]
    BY <1>1
  <2> QED BY <1>2, <1>4, <2>1, <2>2, <2>3, <2>4, <2>5, CutLeaf
<1>7. HeapOf(E)'
  <2>1. Heaped(D[root], parent, prev, next, ticket, s, TRUE)
    BY <1>0 DEF Rep, HeapOf
  <2>2. Clears(prev, prev', s) /\ Clears(next, next', s)
    BY <1>1, <1>4, <1>f DEF Clears
  <2>3. Heaped(D[root] \ {s}, parent', prev', next', ticket', Nil, FALSE)
    <3>1. SameBut(ticket, ticket', s)
      BY <1>5 DEF SameBut
    <3>2. s \in D[root]
      BY <1>1
    <3> QED BY <1>2, <2>1, <2>2, <3>1, <3>2, HeapCut
  <2> QED BY <1>0, <1>6, <2>3 DEF HeapOf
<1>8. /\ addr \in Addr /\ Q[addr] # <<>> /\ Q[addr][1] = s /\ Len(Q[addr]) = 1 /\ waittail[s] = Nil
      /\ Q[addr] \in Seq(Sudog)
  <2>1. /\ addr \in Addr /\ Q[addr] # <<>> /\ Q[addr][1] = s
        /\ waitlink[s] = IF Len(Q[addr]) = 1 THEN Nil ELSE Q[addr][2]
        /\ waittail[s] = IF Len(Q[addr]) = 1 THEN Nil ELSE Q[addr][Len(Q[addr])]
    BY <1>1, HeadOf
  <2>2. Q[addr] \in Seq(Sudog) /\ Len(Q[addr]) \in Nat /\ Len(Q[addr]) > 0
    BY <1>f, <2>1
  <2>3. Len(Q[addr]) = 1
    <3>0. \A k \in Nat : k > 0 /\ k # 1 => 2 \in 1..k
      OBVIOUS
    <3>1. Len(Q[addr]) # 1 => 2 \in 1..Len(Q[addr])
      BY <2>2, <3>0
    <3>2. Len(Q[addr]) # 1 => Q[addr][2] \in Sudog
      BY <2>2, <3>1, ElementOfSeq
    <3> QED BY <1>1, <1>f, <2>1, <3>2
  <2> QED BY <2>1, <2>2, <2>3
<1>9. /\ W \in [Addr -> Seq(Sudog)] /\ W[addr] = <<>> /\ Len(W[addr]) = 0
      /\ \A b \in Addr : b # addr => W[b] = Q[b]
  <2>1. /\ W \in [Addr -> Seq(Sudog)] /\ (\A b \in Addr : b # addr => W[b] = Q[b])
        /\ Len(W[addr]) = Len(Q[addr]) - 1
    <3>1. addr \in Addr /\ Q \in [Addr -> Seq(Sudog)] /\ Q[addr] # <<>>
      BY <1>8, <1>f
    <3> QED BY <3>1, ShorterList
  <2>2. W[addr] \in Seq(Sudog) /\ Len(W[addr]) = 0
    BY <1>8, <2>1
  <2> QED BY <2>1, <2>2, EmptySeq
<1>10. ASSUME NEW b \in Addr, NEW i \in 1..Len(W[b])
       PROVE  b # addr /\ W[b] = Q[b] /\ Q[b][i] \in Sudog /\ Q[b][i] # s /\ elem'[Q[b][i]] = b /\ Q[b][i] \in Listed(Q)
  <2>1. b # addr /\ W[b] = Q[b]
    BY <1>9
  <2>2. Q[b][i] \in Sudog /\ elem[Q[b][i]] = b /\ Q[b][i] \in Listed(Q)
    BY <2>1, ListNode
  <2> QED BY <1>1, <1>5, <2>1, <2>2
<1>11. ListsOf(W, E)'
  <2>1. ASSUME NEW b \in Addr, NEW i \in 1..Len(W[b])
        PROVE  /\ elem'[W[b][i]] = b
               /\ waitlink'[W[b][i]] = IF i = Len(W[b]) THEN Nil ELSE W[b][i + 1]
               /\ \A j \in 1..Len(W[b]) : W[b][i] = W[b][j] => i = j
    BY <1>0, <1>10, ListNode
  <2>2. ASSUME NEW b \in Addr, W[b] # <<>>
        PROVE  /\ W[b][1] \in E[root']
               /\ waittail'[W[b][1]] = IF Len(W[b]) = 1 THEN Nil ELSE W[b][Len(W[b])]
    <3>1. b # addr /\ W[b] = Q[b]
      BY <1>9, <2>2
    <3>2. 1 \in 1..Len(W[b])
      BY <1>f, <2>2, <3>1
    <3>3. Q[b][1] \in D[root] /\ waittail[Q[b][1]] = IF Len(Q[b]) = 1 THEN Nil ELSE Q[b][Len(Q[b])]
      BY <2>2, <3>1 DEF Rep, ListsOf
    <3> QED BY <1>0, <1>6, <1>10, <3>1, <3>2, <3>3
  <2>3. ASSUME NEW n \in E[root']
        PROVE  elem'[n] \in Addr /\ W[elem'[n]] # <<>> /\ n = W[elem'[n]][1]
    <3>1. n \in D[root] /\ n # s /\ n \in Sudog
      BY <1>6, <1>f
    <3>2. elem[n] \in Addr /\ Q[elem[n]] # <<>> /\ Q[elem[n]][1] = n
      BY <3>1, HeadOf
    <3>3. elem'[n] = elem[n] /\ elem[n] # addr
      BY <1>5, <1>8, <3>1, <3>2
    <3> QED BY <1>9, <3>2, <3>3
  <2> QED BY <1>9, <2>1, <2>2, <2>3 DEF ListsOf
<1>12. Listed(W) = Listed(Q) \ {s}
  <2>1. ASSUME NEW n \in Listed(W)
        PROVE  n \in Listed(Q) /\ n # s
    <3>1. PICK b \in Addr : \E i \in 1..Len(W[b]) : n = W[b][i]
      BY InListed
    <3>2. PICK i \in 1..Len(W[b]) : n = W[b][i]
      BY <3>1
    <3> QED BY <1>10, <3>2
  <2>2. ASSUME NEW n \in Listed(Q), n # s
        PROVE  n \in Listed(W)
    <3>1. PICK b \in Addr : \E i \in 1..Len(Q[b]) : n = Q[b][i]
      BY InListed
    <3>2. PICK i \in 1..Len(Q[b]) : n = Q[b][i]
      BY <3>1
    <3>3. b # addr
      <4>1. b = addr => i = 1
        BY <1>8, <3>2
      <4> QED BY <1>8, <2>2, <3>2, <4>1
    <3>4. W[b] = Q[b]
      BY <1>9, <3>3
    <3> QED BY <3>2, <3>4, InListed
  <2> QED BY <2>1, <2>2
<1>13. CleanOf(W, E)'
  <2>1. Pending = {} /\ Pending' = {}
    BY <1>0 DEF Pending
  <2>2. /\ waiting = Listed(Q) /\ (\A n \in Sudog \ D[root] : waittail[n] = Nil)
        /\ (\A n \in Sudog \ Listed(Q) : waitlink[n] = Nil) /\ \A n \in Sudog \ waiting : elem[n] = 0
    BY <2>1 DEF Rep, CleanOf
  <2>3. waiting' = Listed(W) \cup Pending' /\ Listed(W) \cap Pending' = {}
    BY <1>0, <1>12, <2>1, <2>2
  <2>4. /\ \A n \in Sudog \ E[root'] : waittail'[n] = Nil
        /\ \A n \in Sudog \ Listed(W) : waitlink'[n] = Nil
    BY <1>0, <1>1, <1>6, <1>8, <1>12, <2>2
  <2>5. \A n \in Sudog \ waiting' : elem'[n] = 0
    BY <1>0, <1>5, <2>2
  <2> QED BY <2>3, <2>4, <2>5 DEF CleanOf
<1>14. SearchOf(E)' /\ CallOf(E)'
  BY <1>0 DEF SearchOf, CallOf
<1>15. TreapTypes'
  <2>1. /\ root' \in Pointer /\ parent' \in [Sudog -> Pointer] /\ prev' \in [Sudog -> Pointer]
        /\ next' \in [Sudog -> Pointer]
    BY <1>6 DEF IsTree, Pointers
  <2>2. s \in Pointer /\ Nil \in Pointer /\ waiting' \subseteq Sudog
    BY <1>0, <1>1, <1>f
  <2> QED BY <1>0, <1>5, <2>1, <2>2 DEF Rep, TreapTypes
<1>16. TreapOf(E)'
  BY <1>6 DEF TreapOf
<1> QED BY <1>7, <1>8, <1>11, <1>13, <1>14, <1>15, <1>16 DEF Rep

\* t is linked in the place of s, as queue and dequeue do it.
Splices(t) ==
    /\ at = "search" /\ s # Nil
    /\ root' = LinkRoot(t)
    /\ parent' = Put(Put([parent EXCEPT ![t] = parent[s], ![s] = Nil], prev[s], t), next[s], t)
    /\ prev' = [LinkPrev(prev, t) EXCEPT ![t] = prev[s], ![s] = Nil]
    /\ next' = [LinkNext(next, t) EXCEPT ![t] = next[s], ![s] = Nil]

\* All links to s then lead to t.
LEMMA SpliceIs ==
    ASSUME NEW Q, NEW D, Rep(Q, D), NEW t \in Sudog \ D[root], Splices(t)
    PROVE  /\ root' = Swap(s, t)[root] /\ parent' = Moved(parent, s, t)
           /\ prev' = Moved(prev, s, t) /\ next' = Moved(next, s, t)
<1>t. Typed(Q, D)
  BY RepTypes
<1>f. /\ D[root] \subseteq Sudog /\ parent \in [Sudog -> Pointer] /\ prev \in [Sudog -> Pointer]
      /\ next \in [Sudog -> Pointer] /\ Nil \notin Sudog /\ Pointer = Sudog \cup {Nil}
  BY <1>t DEF Typed
<1>0. at = "search" /\ s # Nil
  BY DEF Splices
<1>1. /\ s \in D[root] /\ s \in Sudog /\ parent[s] = last
      /\ last # Nil => last \in D[root] /\ last \in Sudog /\ (prev[last] = s <=> GoesLeft(last))
                       /\ s = IF GoesLeft(last) THEN prev[last] ELSE next[last]
  BY <1>0, RepSearching
<1>2. IsTree(root, parent, prev, next, D, elem)
  BY DEF Rep, TreapOf
<1>3. /\ s # t /\ prev[s] # s /\ next[s] # s /\ (prev[s] # Nil => prev[s] # next[s])
      /\ prev[s] # Nil => prev[s] \in Sudog
      /\ next[s] # Nil => next[s] \in Sudog
  BY <1>1, <1>2, TreeNode
<1>4. prev[s] # t /\ next[s] # t
  <2>1. prev[s] # Nil => prev[s] \in D[root]
    BY <1>1, <1>2, <1>3, ChildIn
  <2>2. next[s] # Nil => next[s] \in D[root]
    BY <1>1, <1>2, <1>3, ChildIn
  <2> QED BY <1>f, <2>1, <2>2
<1>5. last # Nil => /\ last # s /\ last # t /\ (next[last] = s <=> ~GoesLeft(last))
  <2>1. last # Nil => last # prev[last] /\ last # next[last]
                      /\ (prev[last] # Nil => prev[last] # next[last])
    BY <1>1, <1>2, TreeNode
  <2> QED BY <1>0, <1>1, <2>1
<1>6. /\ Swap(s, t)[root] = IF parent[s] = Nil THEN t ELSE root
      /\ Moved(parent, s, t) = [n \in Sudog |-> IF n = t THEN parent[s] ELSE IF n = s THEN Nil
                                                ELSE IF n \in {prev[s], next[s]} THEN t ELSE parent[n]]
      /\ Moved(prev, s, t) = [n \in Sudog |-> IF n = t THEN prev[s] ELSE IF n = s THEN Nil
                                              ELSE IF n = parent[s] /\ prev[n] = s THEN t ELSE prev[n]]
      /\ Moved(next, s, t) = [n \in Sudog |-> IF n = t THEN next[s] ELSE IF n = s THEN Nil
                                              ELSE IF n = parent[s] /\ next[n] = s THEN t ELSE next[n]]
  BY <1>1, <1>2, ReplacedLinks
<1>7. root' = Swap(s, t)[root]
  BY <1>1, <1>6 DEF Splices, LinkRoot
<1>8. parent' = Moved(parent, s, t)
  <2>1. parent' = Put(Put([parent EXCEPT ![t] = parent[s], ![s] = Nil], prev[s], t), next[s], t)
    BY DEF Splices
  <2>2. parent' = [n \in Sudog |-> IF n = t THEN parent[s] ELSE IF n = s THEN Nil
                                   ELSE IF n \in {prev[s], next[s]} THEN t ELSE parent[n]]
    <3>1. CASE prev[s] = Nil /\ next[s] = Nil
      BY <1>1, <1>3, <1>f, <2>1, <3>1, ZenonT(60) DEF Put
    <3>2. CASE prev[s] = Nil /\ next[s] # Nil
      BY <1>1, <1>3, <1>4, <1>f, <2>1, <3>2 DEF Put
    <3>3. CASE prev[s] # Nil /\ next[s] = Nil
      BY <1>1, <1>3, <1>4, <1>f, <2>1, <3>3 DEF Put
    <3>4. CASE prev[s] # Nil /\ next[s] # Nil
      BY <1>1, <1>3, <1>4, <1>f, <2>1, <3>4 DEF Put
    <3> QED BY <3>1, <3>2, <3>3, <3>4
  <2> QED BY <1>6, <2>2
<1>9. prev' = Moved(prev, s, t)
  <2>1. prev' = [LinkPrev(prev, t) EXCEPT ![t] = prev[s], ![s] = Nil]
    BY DEF Splices
  <2>2. prev' = [n \in Sudog |-> IF n = t THEN prev[s] ELSE IF n = s THEN Nil
                                 ELSE IF n = last /\ prev[n] = s THEN t ELSE prev[n]]
    <3>1. CASE last # Nil /\ GoesLeft(last)
      <4>1. prev' = [[prev EXCEPT ![last] = t] EXCEPT ![t] = prev[s], ![s] = Nil]
        BY <2>1, <3>1 DEF LinkPrev
      <4>2. last \in Sudog /\ prev[last] = s /\ last # s /\ last # t /\ s # t /\ s \in Sudog
        BY <1>1, <1>3, <1>5, <3>1
      <4> QED BY <1>f, <4>1, <4>2
    <3>2. CASE last = Nil \/ ~GoesLeft(last)
      <4>1. prev' = [prev EXCEPT ![t] = prev[s], ![s] = Nil]
        BY <2>1, <3>2 DEF LinkPrev
      <4>2. s # t /\ s \in Sudog /\ \A n \in Sudog : ~(n = last /\ prev[n] = s)
        BY <1>1, <1>3, <1>5, <1>f, <3>2
      <4> QED BY <1>f, <4>1, <4>2
    <3> QED BY <3>1, <3>2
  <2> QED BY <1>1, <1>6, <2>2
<1>10. next' = Moved(next, s, t)
  <2>1. next' = [LinkNext(next, t) EXCEPT ![t] = next[s], ![s] = Nil]
    BY DEF Splices
  <2>2. next' = [n \in Sudog |-> IF n = t THEN next[s] ELSE IF n = s THEN Nil
                                 ELSE IF n = last /\ next[n] = s THEN t ELSE next[n]]
    <3>1. CASE last # Nil /\ ~GoesLeft(last)
      <4>1. next' = [[next EXCEPT ![last] = t] EXCEPT ![t] = next[s], ![s] = Nil]
        BY <2>1, <3>1 DEF LinkNext
      <4>2. last \in Sudog /\ next[last] = s /\ last # s /\ last # t /\ s # t /\ s \in Sudog
        BY <1>1, <1>3, <1>5, <3>1
      <4> QED BY <1>f, <4>1, <4>2
    <3>2. CASE last = Nil \/ GoesLeft(last)
      <4>1. next' = [next EXCEPT ![t] = next[s], ![s] = Nil]
        BY <2>1, <3>2 DEF LinkNext
      <4>2. s # t /\ s \in Sudog /\ \A n \in Sudog : ~(n = last /\ next[n] = s)
        BY <1>1, <1>3, <1>5, <1>f, <3>2
      <4> QED BY <1>f, <4>1, <4>2
    <3> QED BY <3>1, <3>2
  <2> QED BY <1>1, <1>6, <2>2
<1> QED BY <1>7, <1>8, <1>9, <1>10

\* The fields of the nodes that stay are as they were, and t has those of s.
Takes(F, F2, N, u, t) == F2[t] = F[u] /\ \A n \in N : n # u => F2[n] = F[n]

\* The tree is then a tree and a heap with t instead of s.
LEMMA Spliced ==
    ASSUME NEW Q, NEW D, Rep(Q, D), NEW t \in Sudog \ D[root], Splices(t),
           NEW E, E = Swapped(D, s, t), elem' \in [Sudog -> Int],
           Takes(elem, elem', D[root], s, t), Takes(ticket, ticket', D[root], s, t)
    PROVE  /\ IsTree(root', parent', prev', next', E, elem') /\ E[root'] = (D[root] \ {s}) \cup {t}
           /\ Heaped(E[root'], parent', prev', next', ticket', Nil, FALSE)
<1>1. /\ root' = Swap(s, t)[root] /\ parent' = Moved(parent, s, t)
      /\ prev' = Moved(prev, s, t) /\ next' = Moved(next, s, t)
  BY SpliceIs
<1>2. at = "search" /\ s # Nil
  BY DEF Splices
<1>3. s \in D[root] /\ s \in Sudog
  BY <1>2, RepSearching
<1>4. IsTree(root, parent, prev, next, D, elem)
  BY DEF Rep, TreapOf
<1>5. D[root] \subseteq Sudog /\ Sudog \subseteq Pointer
  BY RepTypes DEF Typed, Pointer
<1>6. \A n \in D[root] : Swap(s, t)[n] = IF n = s THEN t ELSE n
  BY <1>3, <1>5 DEF Swap
<1>7. (\A n \in D[root] : elem'[Swap(s, t)[n]] = elem[n]) /\ \A n \in D[root] : ticket'[Swap(s, t)[n]] = ticket[n]
  BY <1>6 DEF Takes
<1>8. IsTree(root', parent', prev', next', E, elem') /\ E[root'] = (D[root] \ {s}) \cup {t}
  BY <1>1, <1>3, <1>4, <1>7, Replacement
<1>9. Heaped(D[root], parent, prev, next, ticket, Nil, FALSE)
  BY <1>2, RepHeap
<1>10. Heaped((D[root] \ {s}) \cup {t}, parent', prev', next', ticket', Nil, FALSE)
  <2>1. Heaped((D[root] \ {s}) \cup {t}, Moved(parent, s, t), Moved(prev, s, t), Moved(next, s, t), ticket', Nil, FALSE)
    BY <1>3, <1>4, <1>7, <1>9, HeapReplaced
  <2> QED BY <1>1, <2>1
<1> QED BY <1>8, <1>10

\* The lists without the head of one of them.
LEMMA ListedShorter ==
    ASSUME NEW Q, NEW D, Rep(Q, D), NEW a \in Addr, Q[a] # <<>>, NEW W, W = Shorter(Q, a)
    PROVE  /\ Listed(W) = Listed(Q) \ {Q[a][1]}
           /\ \A b \in Addr : \A i \in 1..Len(W[b]) : W[b][i] \in Listed(W) /\ W[b][i] \in Sudog
<1>0. Q \in [Addr -> Seq(Sudog)]
  BY RepTypes DEF Typed
<1>1. /\ W \in [Addr -> Seq(Sudog)] /\ (\A b \in Addr : b # a => W[b] = Q[b])
      /\ Len(W[a]) = Len(Q[a]) - 1 /\ (\A i \in 1..Len(W[a]) : W[a][i] = Q[a][i + 1])
  BY <1>0, ShorterList
<1>2. Len(Q[a]) \in Nat /\ Len(Q[a]) > 0 /\ 1 \in 1..Len(Q[a])
  <2>1. Q[a] \in Seq(Sudog)
    BY <1>0
  <2> QED BY <2>1
<1>3. \A b \in Addr : \A i \in 1..Len(Q[b]) :
         /\ Q[b][i] \in Sudog /\ Q[b][i] \in Listed(Q) /\ elem[Q[b][i]] = b
         /\ \A j \in 1..Len(Q[b]) : Q[b][i] = Q[b][j] => i = j
  BY ListNode
<1>4. ASSUME NEW n \in Listed(W)
      PROVE  n \in Listed(Q) /\ n # Q[a][1]
  <2>1. PICK b \in Addr : \E i \in 1..Len(W[b]) : n = W[b][i]
    BY InListed
  <2>2. PICK i \in 1..Len(W[b]) : n = W[b][i]
    BY <2>1
  <2>3. CASE b = a
    <3>1. i + 1 \in 1..Len(Q[a]) /\ i + 1 # 1 /\ n = Q[a][i + 1]
      BY <1>1, <1>2, <2>2, <2>3
    <3> QED BY <1>2, <1>3, <3>1
  <2>4. CASE b # a
    <3>1. i \in 1..Len(Q[b]) /\ n = Q[b][i]
      BY <1>1, <2>2, <2>4
    <3> QED BY <1>2, <1>3, <2>4, <3>1
  <2> QED BY <2>3, <2>4
<1>5. ASSUME NEW n \in Listed(Q), n # Q[a][1]
      PROVE  n \in Listed(W)
  <2>1. PICK b \in Addr : \E i \in 1..Len(Q[b]) : n = Q[b][i]
    BY InListed
  <2>2. PICK i \in 1..Len(Q[b]) : n = Q[b][i]
    BY <2>1
  <2>3. CASE b = a
    <3>1. i # 1
      BY <1>5, <2>2, <2>3
    <3>2. i - 1 \in 1..Len(W[a]) /\ (i - 1) + 1 = i
      BY <1>1, <1>2, <2>2, <2>3, <3>1
    <3>3. n = W[a][i - 1]
      BY <1>1, <2>2, <2>3, <3>2
    <3> QED BY <3>2, <3>3, InListed
  <2>4. CASE b # a
    <3>1. i \in 1..Len(W[b]) /\ n = W[b][i]
      BY <1>1, <2>2, <2>4
    <3> QED BY <3>1, InListed
  <2> QED BY <2>3, <2>4
<1>6. ASSUME NEW b \in Addr, NEW i \in 1..Len(W[b])
      PROVE  W[b][i] \in Listed(W) /\ W[b][i] \in Sudog
  <2>1. W[b] \in Seq(Sudog)
    BY <1>1
  <2>2. W[b][i] \in Sudog
    BY <2>1, ElementOfSeq
  <2> QED BY <2>2, InListed
<1> QED BY <1>4, <1>5, <1>6

\* The head of a list leaves it, and the next one takes its place in the tree.
LEMMA RepDequeueHead ==
    ASSUME NEW Q, NEW D, Rep(Q, D), DequeueHead, NEW E, E = Swapped(D, s, waitlink[s]),
           NEW W, W = Shorter(Q, addr)
    PROVE  Rep(W, E)' /\ Q[addr] # <<>> /\ s = Q[addr][1]
<1>t. Typed(Q, D)
  BY RepTypes
<1>f. /\ D[root] \subseteq Sudog /\ Nil \notin Sudog /\ Pointer = Sudog \cup {Nil}
      /\ elem \in [Sudog -> Addr \cup {0}] /\ Addr \cup {0} \subseteq Int
      /\ ticket \in [Sudog -> Ticket \cup {0}] /\ Q \in [Addr -> Seq(Sudog)]
      /\ waitlink \in [Sudog -> Pointer] /\ waittail \in [Sudog -> Pointer]
      /\ waiters \in [Sudog -> 0..MaxWaiters] /\ MaxWaiters \in Nat
      /\ waiting \subseteq Sudog /\ 0 \notin Addr
  BY <1>t DEF Typed
<1> DEFINE t == waitlink[s]
<1>0. /\ at = "search" /\ ~queueing /\ s # Nil /\ elem[s] = addr /\ t # Nil
      /\ ticket' = [ticket EXCEPT ![t] = ticket[s], ![s] = 0]
      /\ waittail' = [waittail EXCEPT ![t] = TailOfNext(t), ![s] = Nil]
      /\ waiters' = [waiters EXCEPT ![t] = IF waiters[s] > 1 THEN waiters[s] - 1 ELSE waiters[s]]
      /\ waitlink' = [waitlink EXCEPT ![s] = Nil]
      /\ elem' = [elem EXCEPT ![s] = 0]
      /\ waiting' = waiting \ {s} /\ found' = s
      /\ at' = "idle" /\ call' = <<>> /\ s' = Nil /\ last' = Nil
  BY DEF DequeueHead, Returns
<1>s. Splices(t)
  BY DEF DequeueHead, Splices
<1>1. s \in D[root] /\ s \in Sudog
  BY <1>0, RepSearching
<1>2. /\ addr \in Addr /\ Q[addr] # <<>> /\ Q[addr][1] = s
      /\ waitlink[s] = IF Len(Q[addr]) = 1 THEN Nil ELSE Q[addr][2]
      /\ waittail[s] = IF Len(Q[addr]) = 1 THEN Nil ELSE Q[addr][Len(Q[addr])]
  BY <1>0, <1>1, HeadOf
<1>3. PICK a \in Addr : a = addr
  BY <1>2
<1>4. Len(Q[a]) \in Nat /\ 1 \in 1..Len(Q[a]) /\ 2 \in 1..Len(Q[a]) /\ t = Q[a][2] /\ Q[a][1] = s
  <2>1. Len(Q[a]) \in Nat /\ 1 \in 1..Len(Q[a]) /\ Len(Q[a]) # 1
    BY <1>0, <1>2, <1>3, ListNode
  <2>2. \A k \in Nat : 1 \in 1..k /\ k # 1 => 2 \in 1..k
    OBVIOUS
  <2> QED BY <1>2, <1>3, <2>1, <2>2
<1>5. \A b \in Addr : \A i \in 1..Len(Q[b]) :
         /\ Q[b][i] \in Sudog /\ elem[Q[b][i]] = b
         /\ waitlink[Q[b][i]] = IF i = Len(Q[b]) THEN Nil ELSE Q[b][i + 1]
         /\ \A j \in 1..Len(Q[b]) : Q[b][i] = Q[b][j] => i = j
         /\ Q[b][i] \in D[root] <=> i = 1
  BY ListNode
<1>6. t \in Sudog \ D[root] /\ t # s /\ elem[t] = a /\ elem[s] = a
  BY <1>0, <1>1, <1>3, <1>4, <1>5
<1> HIDE DEF t
<1>7. /\ elem'[s] = 0 /\ waitlink'[s] = Nil /\ waittail'[s] = Nil /\ waittail'[t] = TailOfNext(t)
      /\ ticket'[t] = ticket[s]
      /\ \A n \in Sudog : n # s => elem'[n] = elem[n] /\ waitlink'[n] = waitlink[n]
      /\ \A n \in Sudog : n # s /\ n # t => waittail'[n] = waittail[n] /\ ticket'[n] = ticket[n]
  BY <1>0, <1>1, <1>6, <1>f
<1>8. elem' \in [Sudog -> Addr \cup {0}] /\ elem' \in [Sudog -> Int]
  <2>1. elem' \in [Sudog -> Addr \cup {0}]
    BY <1>0, <1>1, <1>f
  <2> QED BY <1>f, <2>1
<1>9. /\ IsTree(root', parent', prev', next', E, elem') /\ E[root'] = (D[root] \ {s}) \cup {t}
      /\ Heaped(E[root'], parent', prev', next', ticket', Nil, FALSE)
  <2>1. Takes(elem, elem', D[root], s, t) /\ Takes(ticket, ticket', D[root], s, t)
    BY <1>6, <1>7, <1>f DEF Takes
  <2>2. E = Swapped(D, s, t)
    BY DEF t
  <2>3. t \in Sudog \ D[root] /\ elem' \in [Sudog -> Int]
    BY <1>6, <1>8
  <2> QED BY <1>s, <2>1, <2>2, <2>3, Spliced
<1>10. /\ W \in [Addr -> Seq(Sudog)] /\ (\A b \in Addr : b # a => W[b] = Q[b])
       /\ Len(W[a]) = Len(Q[a]) - 1 /\ (\A i \in 1..Len(W[a]) : W[a][i] = Q[a][i + 1])
  <2>1. W = Shorter(Q, a) /\ Q \in [Addr -> Seq(Sudog)] /\ Q[a] # <<>>
    BY <1>2, <1>3, <1>f
  <2> QED BY <2>1, ShorterList
<1>11. Listed(W) = Listed(Q) \ {s}
  <2>1. W = Shorter(Q, a) /\ Q[a] # <<>> /\ Q[a][1] = s
    BY <1>2, <1>3
  <2> QED BY <2>1, ListedShorter
<1>12. ASSUME NEW i \in 1..Len(W[a])
       PROVE  /\ i + 1 \in 1..Len(Q[a]) /\ W[a][i] = Q[a][i + 1] /\ W[a][i] # s /\ W[a][i] \in Sudog
              /\ elem'[W[a][i]] = a /\ waitlink'[W[a][i]] = waitlink[W[a][i]]
  <2>1. i + 1 \in 1..Len(Q[a]) /\ i + 1 # 1 /\ W[a][i] = Q[a][i + 1]
    BY <1>4, <1>10
  <2>2. W[a][i] \in Sudog /\ W[a][i] # s /\ elem[W[a][i]] = a
    BY <1>4, <1>5, <2>1
  <2> QED BY <1>7, <2>1, <2>2
<1>13. ASSUME NEW b \in Addr, b # a, NEW i \in 1..Len(W[b])
       PROVE  /\ W[b] = Q[b] /\ W[b][i] # s /\ W[b][i] # t /\ W[b][i] \in Sudog
              /\ elem'[W[b][i]] = b /\ waitlink'[W[b][i]] = waitlink[W[b][i]]
              /\ waittail'[W[b][i]] = waittail[W[b][i]]
  <2>1. W[b] = Q[b] /\ W[b][i] \in Sudog /\ elem[W[b][i]] = b
    BY <1>5, <1>10, <1>13
  <2> QED BY <1>6, <1>7, <1>13, <2>1
<1>14. ListsOf(W, E)'
  <2>1. ASSUME NEW b \in Addr, NEW i \in 1..Len(W[b])
        PROVE  /\ elem'[W[b][i]] = b
               /\ waitlink'[W[b][i]] = IF i = Len(W[b]) THEN Nil ELSE W[b][i + 1]
               /\ \A j \in 1..Len(W[b]) : W[b][i] = W[b][j] => i = j
    <3>1. CASE b # a
      BY <1>5, <1>13, <3>1
    <3>2. CASE b = a
      <4>1. elem'[W[a][i]] = a
        BY <1>12, <3>2
      <4>2. waitlink'[W[a][i]] = IF i = Len(W[a]) THEN Nil ELSE W[a][i + 1]
        <5>1. waitlink'[W[a][i]] = IF i + 1 = Len(Q[a]) THEN Nil ELSE Q[a][(i + 1) + 1]
          BY <1>5, <1>12, <3>2
        <5>2. i + 1 = Len(Q[a]) <=> i = Len(W[a])
          BY <1>4, <1>10, <3>2
        <5>3. i # Len(W[a]) => i + 1 \in 1..Len(W[a])
          BY <1>4, <1>10, <3>2
        <5> QED BY <1>10, <5>1, <5>2, <5>3
      <4>3. ASSUME NEW j \in 1..Len(W[a]), W[a][i] = W[a][j]
            PROVE  i = j
        <5>1. Q[a][i + 1] = Q[a][j + 1] /\ i + 1 \in 1..Len(Q[a]) /\ j + 1 \in 1..Len(Q[a])
          BY <1>12, <3>2, <4>3
        <5>2. i + 1 = j + 1
          BY <1>5, <5>1
        <5> QED BY <3>2, <5>2
      <4> QED BY <3>2, <4>1, <4>2, <4>3
    <3> QED BY <3>1, <3>2
  <2>2. W[a] # <<>> /\ 1 \in 1..Len(W[a]) /\ W[a][1] = t
    <3>1. 1 \in 1..Len(W[a])
      BY <1>4, <1>10
    <3>2. W[a][1] = Q[a][1 + 1]
      BY <1>10, <3>1
    <3>3. W[a] # <<>>
      BY <3>1
    <3> QED BY <1>4, <3>1, <3>2, <3>3
  <2>3. waittail'[t] = IF Len(W[a]) = 1 THEN Nil ELSE W[a][Len(W[a])]
    <3>1. waitlink[t] = IF 2 = Len(Q[a]) THEN Nil ELSE Q[a][2 + 1]
      BY <1>4, <1>5
    <3>2. 2 # Len(Q[a]) => Q[a][3] \in Sudog
      <4>1. \A k \in Nat : 2 \in 1..k /\ 2 # k => 3 \in 1..k
        OBVIOUS
      <4>2. 2 # Len(Q[a]) => 3 \in 1..Len(Q[a])
        BY <1>4, <4>1
      <4> QED BY <1>5, <4>2
    <3>3. waitlink[t] = Nil <=> Len(W[a]) = 1
      <4>1. \A k \in Nat : k = 2 <=> k - 1 = 1
        OBVIOUS
      <4>2. 2 = Len(Q[a]) <=> Len(W[a]) = 1
        BY <1>4, <1>10, <4>1
      <4>3. 2 + 1 = 3
        OBVIOUS
      <4> QED BY <1>f, <3>1, <3>2, <4>2, <4>3
    <3>4. waittail[s] = Q[a][Len(Q[a])]
      BY <1>2, <1>3, <1>4
    <3>5. W[a][Len(W[a])] = Q[a][Len(Q[a])]
      <4>1. Len(W[a]) \in 1..Len(W[a]) /\ Len(W[a]) + 1 = Len(Q[a])
        BY <1>4, <1>10, <2>2
      <4> QED BY <1>10, <4>1
    <3> QED BY <1>7, <3>3, <3>4, <3>5 DEF TailOfNext
  <2>4. ASSUME NEW b \in Addr, W[b] # <<>>
        PROVE  /\ W[b][1] \in E[root']
               /\ waittail'[W[b][1]] = IF Len(W[b]) = 1 THEN Nil ELSE W[b][Len(W[b])]
    <3>1. CASE b = a
      BY <1>9, <2>2, <2>3, <3>1
    <3>2. CASE b # a
      <4>1. W[b] = Q[b] /\ Q[b] # <<>>
        BY <1>10, <2>4, <3>2
      <4>2. 1 \in 1..Len(W[b])
        BY <4>1, ListNode
      <4>3. Q[b][1] \in D[root] /\ waittail[Q[b][1]] = IF Len(Q[b]) = 1 THEN Nil ELSE Q[b][Len(Q[b])]
        BY <4>1 DEF Rep, ListsOf
      <4> QED BY <1>9, <1>13, <3>2, <4>1, <4>2, <4>3
    <3> QED BY <3>1, <3>2
  <2>5. ASSUME NEW n \in E[root']
        PROVE  elem'[n] \in Addr /\ W[elem'[n]] # <<>> /\ n = W[elem'[n]][1]
    <3>1. CASE n = t
      BY <1>6, <1>7, <2>2, <3>1
    <3>2. CASE n # t
      <4>1. n \in D[root] /\ n # s /\ n \in Sudog
        BY <1>9, <1>f, <3>2
      <4>2. elem[n] \in Addr /\ Q[elem[n]] # <<>> /\ Q[elem[n]][1] = n
        BY <4>1, HeadOf
      <4>3. elem'[n] = elem[n] /\ elem[n] # a
        BY <1>4, <1>7, <4>1, <4>2
      <4> QED BY <1>10, <4>2, <4>3
    <3> QED BY <3>1, <3>2
  <2> QED BY <1>10, <2>1, <2>4, <2>5 DEF ListsOf
<1>15. CleanOf(W, E)'
  <2>1. Pending = {} /\ Pending' = {}
    BY <1>0 DEF Pending
  <2>2. /\ waiting = Listed(Q) /\ (\A n \in Sudog \ D[root] : waittail[n] = Nil)
        /\ (\A n \in Sudog \ Listed(Q) : waitlink[n] = Nil) /\ \A n \in Sudog \ waiting : elem[n] = 0
    BY <2>1 DEF Rep, CleanOf
  <2>3. waiting' = Listed(W) \cup Pending' /\ Listed(W) \cap Pending' = {}
    BY <1>0, <1>11, <2>1, <2>2
  <2>4. \A n \in Sudog \ E[root'] : waittail'[n] = Nil
    BY <1>7, <1>9, <2>2
  <2>5. \A n \in Sudog \ Listed(W) : waitlink'[n] = Nil
    BY <1>7, <1>11, <2>2
  <2>6. \A n \in Sudog \ waiting' : elem'[n] = 0
    BY <1>0, <1>7, <2>2
  <2> QED BY <2>3, <2>4, <2>5, <2>6 DEF CleanOf
<1>16. HeapOf(E)' /\ SearchOf(E)' /\ CallOf(E)' /\ TreapOf(E)'
  BY <1>0, <1>9 DEF HeapOf, SearchOf, CallOf, TreapOf
<1>17. TreapTypes'
  <2>1. /\ root' \in Pointer /\ parent' \in [Sudog -> Pointer] /\ prev' \in [Sudog -> Pointer]
        /\ next' \in [Sudog -> Pointer]
    BY <1>9 DEF IsTree, Pointers
  <2>2. s \in Pointer /\ Nil \in Pointer /\ waiting' \subseteq Sudog
    BY <1>0, <1>1, <1>f
  <2>3. ticket' \in [Sudog -> Ticket \cup {0}]
    BY <1>0, <1>1, <1>6, <1>f
  <2>4. waiters' \in [Sudog -> 0..MaxWaiters]
    <3>1. \A z \in 0..MaxWaiters : (IF z > 1 THEN z - 1 ELSE z) \in 0..MaxWaiters
      BY <1>f
    <3>2. waiters[s] \in 0..MaxWaiters
      BY <1>1, <1>f
    <3>3. (IF waiters[s] > 1 THEN waiters[s] - 1 ELSE waiters[s]) \in 0..MaxWaiters
      BY <3>1, <3>2
    <3> QED BY <1>0, <1>6, <1>f, <3>3
  <2>5. waitlink' \in [Sudog -> Pointer] /\ waittail' \in [Sudog -> Pointer]
    <3>1. TailOfNext(t) \in Pointer
      BY <1>1, <1>f DEF TailOfNext
    <3> QED BY <1>0, <1>1, <1>6, <1>f, <3>1
  <2> QED BY <1>0, <1>8, <2>1, <2>2, <2>3, <2>4, <2>5 DEF TreapTypes
<1> QED BY <1>2, <1>14, <1>15, <1>16, <1>17 DEF Rep

\* The lists when n has joined that of a, in front or at the end.
Fronted(Q, a, n) == [Q EXCEPT ![a] = <<n>> \o Q[a]]
Appended(Q, a, n) == [Q EXCEPT ![a] = Append(Q[a], n)]

\* What is in them, and who.
LEMMA FrontedList ==
    ASSUME NEW Q \in [Addr -> Seq(Sudog)], NEW a \in Addr, NEW n \in Sudog, NEW W, W = Fronted(Q, a, n)
    PROVE  /\ W \in [Addr -> Seq(Sudog)]
           /\ \A b \in Addr : b # a => W[b] = Q[b]
           /\ Len(W[a]) = Len(Q[a]) + 1 /\ W[a] # <<>>
           /\ W[a][1] = n /\ \A i \in 1..Len(Q[a]) : W[a][i + 1] = Q[a][i]
           /\ Listed(W) = Listed(Q) \cup {n}
<1>1. PICK q \in Seq(Sudog) : q = Q[a]
  OBVIOUS
<1>2. PICK ext : ext = <<n>> \o q
  OBVIOUS
<1>3. ext \in Seq(Sudog) /\ Len(ext) = Len(q) + 1 /\ ext[1] = n /\ \A i \in 1..Len(q) : ext[i + 1] = q[i]
  <2>1. <<n>> \in Seq(Sudog) /\ Len(<<n>>) = 1 /\ <<n>>[1] = n /\ Len(q) \in Nat
    OBVIOUS
  <2>2. /\ ext \in Seq(Sudog) /\ Len(ext) = 1 + Len(q)
        /\ \A i \in 1..1 + Len(q) : ext[i] = IF i <= 1 THEN <<n>>[i] ELSE q[i - 1]
    BY <1>2, <2>1, ConcatProperties
  <2>3. ext[1] = n
    <3>1. 1 \in 1..1 + Len(q)
      BY <2>1
    <3> QED BY <2>1, <2>2, <3>1
  <2>4. ASSUME NEW i \in 1..Len(q)
        PROVE  ext[i + 1] = q[i]
    <3>1. i + 1 \in 1..1 + Len(q) /\ ~(i + 1 <= 1) /\ (i + 1) - 1 = i
      BY <2>1
    <3> QED BY <2>2, <3>1
  <2> QED BY <2>1, <2>2, <2>3, <2>4
<1>4. W[a] = ext /\ W \in [Addr -> Seq(Sudog)] /\ \A b \in Addr : b # a => W[b] = Q[b]
  <2>1. W = [Q EXCEPT ![a] = ext]
    BY <1>1, <1>2 DEF Fronted
  <2> QED BY <1>3, <2>1
<1>l. PICK k \in Nat : k = Len(q) /\ Len(ext) = k + 1
  BY <1>3
<1>5. ext # <<>>
  BY <1>3, <1>l, EmptySeq
<1>k. /\ \A i \in 1..k + 1 : i # 1 => i - 1 \in 1..k /\ (i - 1) + 1 = i
      /\ \A i \in 1..k : i + 1 \in 1..k + 1
      /\ 1 \in 1..k + 1
  OBVIOUS
<1>6. ASSUME NEW m \in Listed(W)
      PROVE  m \in Listed(Q) \cup {n}
  <2>1. PICK b \in Addr : \E i \in 1..Len(W[b]) : m = W[b][i]
    BY InListed
  <2>2. PICK i \in 1..Len(W[b]) : m = W[b][i]
    BY <2>1
  <2>3. CASE b # a
    <3>1. m = Q[b][i] /\ i \in 1..Len(Q[b])
      BY <1>4, <2>2, <2>3
    <3> QED BY <3>1, InListed
  <2>4. CASE b = a /\ i = 1
    BY <1>3, <1>4, <2>2, <2>4
  <2>5. CASE b = a /\ i # 1
    <3>1. i - 1 \in 1..Len(Q[a]) /\ (i - 1) + 1 = i
      BY <1>1, <1>4, <1>k, <1>l, <2>5
    <3>2. m = Q[a][i - 1]
      BY <1>1, <1>3, <1>4, <2>2, <2>5, <3>1
    <3> QED BY <3>1, <3>2, InListed
  <2> QED BY <2>3, <2>4, <2>5
<1>7. ASSUME NEW m \in Listed(Q)
      PROVE  m \in Listed(W)
  <2>1. PICK b \in Addr : \E i \in 1..Len(Q[b]) : m = Q[b][i]
    BY InListed
  <2>2. PICK i \in 1..Len(Q[b]) : m = Q[b][i]
    BY <2>1
  <2>3. CASE b # a
    <3>1. m = W[b][i] /\ i \in 1..Len(W[b])
      BY <1>4, <2>2, <2>3
    <3> QED BY <3>1, InListed
  <2>4. CASE b = a
    <3>1. i + 1 \in 1..Len(W[a])
      BY <1>1, <1>4, <1>k, <1>l, <2>4
    <3>2. m = W[a][i + 1]
      BY <1>1, <1>3, <1>4, <2>2, <2>4
    <3> QED BY <3>1, <3>2, InListed
  <2> QED BY <2>3, <2>4
<1>8. n \in Listed(W)
  <2>1. 1 \in 1..Len(W[a]) /\ n = W[a][1]
    BY <1>3, <1>4, <1>k, <1>l
  <2> QED BY <2>1, InListed
<1>9. Listed(W) = Listed(Q) \cup {n}
  BY <1>6, <1>7, <1>8
<1> QED BY <1>1, <1>3, <1>4, <1>5, <1>9

\* The same at the end.
LEMMA AppendedList ==
    ASSUME NEW Q \in [Addr -> Seq(Sudog)], NEW a \in Addr, NEW n \in Sudog, NEW W, W = Appended(Q, a, n)
    PROVE  /\ W \in [Addr -> Seq(Sudog)]
           /\ \A b \in Addr : b # a => W[b] = Q[b]
           /\ Len(W[a]) = Len(Q[a]) + 1 /\ W[a] # <<>>
           /\ W[a][Len(Q[a]) + 1] = n /\ \A i \in 1..Len(Q[a]) : W[a][i] = Q[a][i]
           /\ Listed(W) = Listed(Q) \cup {n}
<1>1. PICK q \in Seq(Sudog) : q = Q[a]
  OBVIOUS
<1>2. PICK ext : ext = Append(q, n)
  OBVIOUS
<1>3. /\ ext \in Seq(Sudog) /\ Len(ext) = Len(q) + 1 /\ ext # <<>>
      /\ ext[Len(q) + 1] = n /\ \A i \in 1..Len(q) : ext[i] = q[i]
  BY <1>2, AppendProperties
<1>4. W[a] = ext /\ W \in [Addr -> Seq(Sudog)] /\ \A b \in Addr : b # a => W[b] = Q[b]
  <2>1. W = [Q EXCEPT ![a] = ext]
    BY <1>1, <1>2 DEF Appended
  <2> QED BY <1>3, <2>1
<1>l. PICK k \in Nat : k = Len(q) /\ Len(ext) = k + 1
  BY <1>3
<1>k. /\ \A i \in 1..k + 1 : i # k + 1 => i \in 1..k
      /\ \A i \in 1..k : i \in 1..k + 1
      /\ k + 1 \in 1..k + 1
  OBVIOUS
<1>6. ASSUME NEW m \in Listed(W)
      PROVE  m \in Listed(Q) \cup {n}
  <2>1. PICK b \in Addr : \E i \in 1..Len(W[b]) : m = W[b][i]
    BY InListed
  <2>2. PICK i \in 1..Len(W[b]) : m = W[b][i]
    BY <2>1
  <2>3. CASE b # a
    <3>1. m = Q[b][i] /\ i \in 1..Len(Q[b])
      BY <1>4, <2>2, <2>3
    <3> QED BY <3>1, InListed
  <2>4. CASE b = a /\ i = k + 1
    BY <1>3, <1>4, <1>l, <2>2, <2>4
  <2>5. CASE b = a /\ i # k + 1
    <3>1. i \in 1..Len(Q[a])
      BY <1>1, <1>4, <1>k, <1>l, <2>5
    <3>2. m = Q[a][i]
      BY <1>1, <1>3, <1>4, <2>2, <2>5, <3>1
    <3> QED BY <3>1, <3>2, InListed
  <2> QED BY <2>3, <2>4, <2>5
<1>7. ASSUME NEW m \in Listed(Q)
      PROVE  m \in Listed(W)
  <2>1. PICK b \in Addr : \E i \in 1..Len(Q[b]) : m = Q[b][i]
    BY InListed
  <2>2. PICK i \in 1..Len(Q[b]) : m = Q[b][i]
    BY <2>1
  <2>3. CASE b # a
    <3>1. m = W[b][i] /\ i \in 1..Len(W[b])
      BY <1>4, <2>2, <2>3
    <3> QED BY <3>1, InListed
  <2>4. CASE b = a
    <3>1. i \in 1..Len(W[a])
      BY <1>1, <1>4, <1>k, <1>l, <2>4
    <3>2. m = W[a][i]
      BY <1>1, <1>3, <1>4, <2>2, <2>4
    <3> QED BY <3>1, <3>2, InListed
  <2> QED BY <2>3, <2>4
<1>8. n \in Listed(W)
  <2>1. k + 1 \in 1..Len(W[a]) /\ n = W[a][k + 1]
    BY <1>3, <1>4, <1>k, <1>l
  <2> QED BY <2>1, InListed
<1>9. Listed(W) = Listed(Q) \cup {n}
  BY <1>6, <1>7, <1>8
<1> QED BY <1>1, <1>3, <1>4, <1>9

\* F2 is F but for u and ext.
SameButTwo(F, F2, u, ext) == \A m \in Sudog : m # u /\ m # ext => F2[m] = F[m]

\* n is linked in front of the list of a, and takes the place of its head.
JoinsFirst(Q, D, a, n, W, N, K, wl, wt) ==
    /\ W = Fronted(Q, a, n) /\ Q[a] # <<>> /\ n \in Sudog \ Listed(Q)
    /\ N = (D[root] \ {Q[a][1]}) \cup {n}
    /\ K[n] = a /\ SameBut(elem, K, n)
    /\ wl[n] = Q[a][1] /\ SameBut(waitlink, wl, n)
    /\ wt[n] = Q[a][Len(Q[a])] /\ SameButTwo(waittail, wt, n, Q[a][1])

\* W are then the lists.
AreLists(W, N, K, wl, wt) ==
    /\ W \in [Addr -> Seq(Sudog)]
    /\ \A b \in Addr : \A i \in 1..Len(W[b]) :
          /\ K[W[b][i]] = b
          /\ wl[W[b][i]] = IF i = Len(W[b]) THEN Nil ELSE W[b][i + 1]
          /\ \A j \in 1..Len(W[b]) : W[b][i] = W[b][j] => i = j
    /\ \A b \in Addr : W[b] # <<>> =>
          /\ W[b][1] \in N
          /\ wt[W[b][1]] = IF Len(W[b]) = 1 THEN Nil ELSE W[b][Len(W[b])]
    /\ \A m \in N : K[m] \in Addr /\ W[K[m]] # <<>> /\ m = W[K[m]][1]

\* That is so.
LEMMA ListsFronted ==
    ASSUME NEW Q, NEW D, Rep(Q, D), NEW a \in Addr, NEW n, NEW W, NEW N, NEW K, NEW wl, NEW wt,
           JoinsFirst(Q, D, a, n, W, N, K, wl, wt)
    PROVE  AreLists(W, N, K, wl, wt)
<1>t. Typed(Q, D)
  BY RepTypes
<1>f. Q \in [Addr -> Seq(Sudog)] /\ D[root] \subseteq Sudog /\ D[root] \subseteq Listed(Q)
  BY <1>t DEF Typed
<1>g. /\ SameBut(elem, K, n) /\ SameBut(waitlink, wl, n) /\ SameButTwo(waittail, wt, n, Q[a][1])
      /\ K[n] = a /\ wl[n] = Q[a][1] /\ wt[n] = Q[a][Len(Q[a])] /\ N = (D[root] \ {Q[a][1]}) \cup {n}
      /\ n \in Sudog /\ n \notin Listed(Q) /\ Q[a] # <<>>
  BY DEF JoinsFirst
<1>1. /\ W \in [Addr -> Seq(Sudog)]
      /\ \A b \in Addr : b # a => W[b] = Q[b]
      /\ Len(W[a]) = Len(Q[a]) + 1 /\ W[a] # <<>>
      /\ W[a][1] = n /\ \A i \in 1..Len(Q[a]) : W[a][i + 1] = Q[a][i]
  <2>1. W = Fronted(Q, a, n) /\ n \in Sudog
    BY DEF JoinsFirst
  <2> QED BY <1>f, <2>1, FrontedList
<1>2. Len(Q[a]) \in Nat /\ 1 \in 1..Len(Q[a]) /\ Len(Q[a]) \in 1..Len(Q[a])
  <2>1. Q[a] \in Seq(Sudog)
    BY <1>f
  <2> QED BY <1>g, <2>1
<1>l. PICK k \in Nat : k = Len(Q[a]) /\ Len(W[a]) = k + 1 /\ 1 \in 1..k
  BY <1>1, <1>2
<1>k. /\ \A i \in 1..k + 1 : i # 1 => i - 1 \in 1..k /\ (i - 1) + 1 = i
      /\ \A i \in 1..k + 1 : i - 1 = k <=> i = k + 1
      /\ \A i \in 1..k + 1 : i # k + 1 => i \in 1..k
      /\ k + 1 # 1 /\ k \in 1..k
  BY <1>l
<1>3. \A b \in Addr : \A i \in 1..Len(Q[b]) :
         /\ Q[b][i] \in Sudog /\ elem[Q[b][i]] = b /\ Q[b][i] # n
         /\ waitlink[Q[b][i]] = IF i = Len(Q[b]) THEN Nil ELSE Q[b][i + 1]
         /\ \A j \in 1..Len(Q[b]) : Q[b][i] = Q[b][j] => i = j
  <2>1. \A b \in Addr : \A i \in 1..Len(Q[b]) : Q[b][i] \in Listed(Q)
    BY ListNode
  <2> QED BY <1>g, <2>1, ListNode
<1>4. ASSUME NEW b \in Addr, NEW i \in 1..Len(W[b])
      PROVE  /\ K[W[b][i]] = b
             /\ wl[W[b][i]] = IF i = Len(W[b]) THEN Nil ELSE W[b][i + 1]
             /\ \A j \in 1..Len(W[b]) : W[b][i] = W[b][j] => i = j
  <2>1. CASE b # a
    <3>1. W[b] = Q[b]
      BY <1>1, <2>1
    <3>2. Q[b][i] \in Sudog /\ Q[b][i] # n /\ i \in 1..Len(Q[b])
      BY <1>3, <3>1
    <3>3. K[Q[b][i]] = elem[Q[b][i]] /\ wl[Q[b][i]] = waitlink[Q[b][i]]
      BY <1>g, <3>2 DEF SameBut
    <3> QED BY <1>3, <3>1, <3>2, <3>3
  <2>2. CASE b = a
    <3>0. \A j \in 1..Len(W[a]) : j # 1 =>
             j - 1 \in 1..Len(Q[a]) /\ W[a][j] = Q[a][j - 1]
      <4>1. ASSUME NEW j \in 1..Len(W[a]), j # 1
            PROVE  j - 1 \in 1..Len(Q[a]) /\ (j - 1) + 1 = j
        BY <1>k, <1>l, <4>1
      <4> QED BY <1>1, <4>1
    <3>1. CASE i = 1
      <4>1. W[a][i + 1] = Q[a][1] /\ i # Len(W[a])
        BY <1>1, <1>2, <1>k, <1>l, <3>1
      <4>2. K[W[a][1]] = a /\ wl[W[a][1]] = Q[a][1]
        BY <1>1, <1>g
      <4>3. \A j \in 1..Len(W[a]) : j # 1 => W[a][j] # W[a][1]
        <5>1. ASSUME NEW j \in 1..Len(W[a]), j # 1
              PROVE  W[a][j] # W[a][1]
          <6>1. j - 1 \in 1..Len(Q[a]) /\ W[a][j] = Q[a][j - 1]
            BY <3>0, <5>1
          <6>2. Q[a][j - 1] # n
            BY <1>3, <6>1
          <6> QED BY <1>1, <6>1, <6>2
        <5> QED BY <5>1
      <4> QED BY <2>2, <3>1, <4>1, <4>2, <4>3
    <3>2. CASE i # 1
      <4>1. i - 1 \in 1..Len(Q[a]) /\ W[a][i] = Q[a][i - 1]
        BY <2>2, <3>0, <3>2
      <4>2. /\ K[W[a][i]] = a /\ W[a][i] # n
            /\ wl[W[a][i]] = IF i - 1 = Len(Q[a]) THEN Nil ELSE Q[a][(i - 1) + 1]
        <5>1. /\ Q[a][i - 1] \in Sudog /\ elem[Q[a][i - 1]] = a /\ Q[a][i - 1] # n
              /\ waitlink[Q[a][i - 1]] = IF i - 1 = Len(Q[a]) THEN Nil ELSE Q[a][(i - 1) + 1]
          BY <1>3, <4>1
        <5>2. K[Q[a][i - 1]] = elem[Q[a][i - 1]] /\ wl[Q[a][i - 1]] = waitlink[Q[a][i - 1]]
          BY <1>g, <5>1 DEF SameBut
        <5> QED BY <4>1, <5>1, <5>2
      <4>3. /\ i - 1 = Len(Q[a]) <=> i = Len(W[a])
            /\ (i - 1) + 1 = i
            /\ i # Len(W[a]) => i \in 1..Len(Q[a])
        BY <1>k, <1>l, <2>2, <3>2
      <4>4. wl[W[a][i]] = IF i = Len(W[a]) THEN Nil ELSE W[a][i + 1]
        BY <1>1, <4>2, <4>3
      <4>5. ASSUME NEW j \in 1..Len(W[a]), W[a][i] = W[a][j]
            PROVE  i = j
        <5>1. j # 1
          BY <1>1, <4>2, <4>5
        <5>2. j - 1 \in 1..Len(Q[a]) /\ W[a][j] = Q[a][j - 1]
          BY <3>0, <5>1
        <5>3. \A x, y \in 1..Len(Q[a]) : Q[a][x] = Q[a][y] => x = y
          BY <1>3
        <5>4. Q[a][i - 1] = Q[a][j - 1]
          BY <4>1, <4>5, <5>2
        <5>5. i - 1 = j - 1
          BY <4>1, <5>2, <5>3, <5>4
        <5> QED BY <2>2, <5>5
      <4> QED BY <2>2, <4>2, <4>4, <4>5
    <3> QED BY <3>1, <3>2
  <2> QED BY <2>1, <2>2
<1>5. ASSUME NEW b \in Addr, W[b] # <<>>
      PROVE  /\ W[b][1] \in N
             /\ wt[W[b][1]] = IF Len(W[b]) = 1 THEN Nil ELSE W[b][Len(W[b])]
  <2>1. CASE b # a
    <3>1. W[b] = Q[b] /\ Q[b] # <<>> /\ 1 \in 1..Len(Q[b])
      BY <1>1, <1>5, <2>1, ListNode
    <3>2. Q[b][1] \in D[root] /\ waittail[Q[b][1]] = IF Len(Q[b]) = 1 THEN Nil ELSE Q[b][Len(Q[b])]
      BY <3>1 DEF Rep, ListsOf
    <3>3. Q[b][1] # Q[a][1] /\ Q[b][1] # n /\ Q[b][1] \in Sudog
      BY <1>2, <1>3, <2>1, <3>1
    <3>4. wt[Q[b][1]] = waittail[Q[b][1]]
      BY <1>g, <3>3 DEF SameButTwo
    <3> QED BY <1>g, <3>1, <3>2, <3>3, <3>4
  <2>2. CASE b = a
    <3>1. Len(W[a]) # 1
      BY <1>k, <1>l
    <3>2. W[a][Len(W[a])] = Q[a][Len(Q[a])]
      BY <1>1, <1>k, <1>l
    <3> QED BY <1>1, <1>g, <2>2, <3>1, <3>2
  <2> QED BY <2>1, <2>2
<1>6. ASSUME NEW m \in N
      PROVE  K[m] \in Addr /\ W[K[m]] # <<>> /\ m = W[K[m]][1]
  <2>1. CASE m = n
    BY <1>1, <1>g, <2>1
  <2>2. CASE m # n
    <3>1. m \in D[root] /\ m # Q[a][1] /\ m \in Sudog
      BY <1>f, <1>g, <2>2
    <3>2. elem[m] \in Addr /\ Q[elem[m]] # <<>> /\ Q[elem[m]][1] = m
      BY <3>1, HeadOf
    <3>3. K[m] = elem[m] /\ elem[m] # a
      BY <1>g, <2>2, <3>1, <3>2 DEF SameBut
    <3> QED BY <1>1, <3>2, <3>3
  <2> QED BY <2>1, <2>2
<1> QED BY <1>1, <1>4, <1>5, <1>6 DEF AreLists

\* Whoever is about to be queued is in no list and not in the tree.
LEMMA RepNew ==
    ASSUME NEW Q, NEW D, Rep(Q, D), at = "search", queueing
    PROVE  /\ new \in Sudog \ D[root] /\ new \notin Listed(Q) /\ elem[new] = addr /\ addr \in Addr
           /\ waiting = Listed(Q) \cup {new} /\ parent[new] = Nil /\ prev[new] = Nil /\ next[new] = Nil
           /\ waitlink[new] = Nil /\ waittail[new] = Nil /\ lifo \in BOOLEAN
<1>1. at # "idle"
  OBVIOUS
<1>2. new \in Sudog /\ lifo \in BOOLEAN /\ addr \in Addr
  BY <1>1, RepCall
<1>3. Pending = {new}
  BY DEF Pending
<1>4. D[root] \subseteq Listed(Q)
  BY RepTypes DEF Typed
<1>5. new \notin Listed(Q) /\ waiting = Listed(Q) \cup {new}
  BY <1>3 DEF Rep, CleanOf
<1>6. new \notin D[root]
  BY <1>4, <1>5
<1>7. waitlink[new] = Nil /\ waittail[new] = Nil
  BY <1>2, <1>5, <1>6 DEF Rep, CleanOf
<1>8. parent[new] = Nil /\ prev[new] = Nil /\ next[new] = Nil
  BY <1>2, <1>6 DEF Rep, TreapOf, IsTree, Parents
<1>9. elem[new] = addr
  BY DEF Rep, CallOf
<1> QED BY <1>2, <1>5, <1>6, <1>7, <1>8, <1>9

\* A sudog is put in front of those that wait for its address.
LEMMA RepQueueFirst ==
    ASSUME NEW Q, NEW D, Rep(Q, D), QueueFirst, NEW E, E = Swapped(D, s, new),
           NEW W, W = Fronted(Q, addr, new)
    PROVE  Rep(W, E)'
<1>t. Typed(Q, D)
  BY RepTypes
<1>f. /\ D[root] \subseteq Sudog /\ Nil \notin Sudog /\ Pointer = Sudog \cup {Nil}
      /\ elem \in [Sudog -> Int]
      /\ ticket \in [Sudog -> Ticket \cup {0}] /\ Q \in [Addr -> Seq(Sudog)]
      /\ waitlink \in [Sudog -> Pointer] /\ waittail \in [Sudog -> Pointer]
      /\ waiters \in [Sudog -> 0..MaxWaiters] /\ MaxWaiters \in Nat
  BY <1>t DEF Typed
<1>0. /\ at = "search" /\ queueing /\ s # Nil /\ elem[s] = addr
      /\ ticket' = [ticket EXCEPT ![new] = ticket[s]]
      /\ waitlink' = [waitlink EXCEPT ![new] = s]
      /\ waittail' = [waittail EXCEPT ![new] = TailOfNewHead(s), ![s] = Nil]
      /\ waiters' = [waiters EXCEPT ![new] = Clamped(waiters[s])]
      /\ at' = "idle" /\ call' = <<>> /\ s' = Nil /\ last' = Nil
      /\ UNCHANGED <<elem, waiting, found>>
  BY DEF QueueFirst, Returns
<1>s. Splices(new)
  BY DEF QueueFirst, Splices
<1>1. s \in D[root] /\ s \in Sudog
  BY <1>0, RepSearching
<1>n. /\ new \in Sudog \ D[root] /\ new \notin Listed(Q) /\ elem[new] = addr /\ addr \in Addr
      /\ waiting = Listed(Q) \cup {new}
  BY <1>0, RepNew
<1>2. /\ addr \in Addr /\ Q[addr] # <<>> /\ Q[addr][1] = s
      /\ waittail[s] = IF Len(Q[addr]) = 1 THEN Nil ELSE Q[addr][Len(Q[addr])]
  BY <1>0, <1>1, HeadOf
<1>3. TailOfNewHead(s) = Q[addr][Len(Q[addr])] /\ TailOfNewHead(s) \in Sudog
  <2>1. PICK q \in Seq(Sudog) : q = Q[addr]
    BY <1>f, <1>n
  <2>2. Len(q) \in Nat /\ Len(q) # 0 /\ Len(q) \in 1..Len(q)
    BY <1>2, <2>1, EmptySeq
  <2>3. q[Len(q)] \in Sudog
    BY <2>1, <2>2, ElementOfSeq
  <2> QED BY <1>1, <1>2, <1>f, <2>1, <2>3 DEF TailOfNewHead
<1>4. s # new
  BY <1>1, <1>n
<1>5. /\ ticket'[new] = ticket[s] /\ (\A n \in Sudog : n # new => ticket'[n] = ticket[n])
      /\ waitlink'[new] = s /\ (\A n \in Sudog : n # new => waitlink'[n] = waitlink[n])
      /\ waittail'[new] = TailOfNewHead(s) /\ waittail'[s] = Nil
      /\ \A n \in Sudog : n # new /\ n # s => waittail'[n] = waittail[n]
  BY <1>0, <1>1, <1>4, <1>f, <1>n
<1>6. /\ IsTree(root', parent', prev', next', E, elem') /\ E[root'] = (D[root] \ {s}) \cup {new}
      /\ Heaped(E[root'], parent', prev', next', ticket', Nil, FALSE)
  <2>1. Takes(elem, elem', D[root], s, new) /\ Takes(ticket, ticket', D[root], s, new)
    BY <1>0, <1>5, <1>f, <1>n DEF Takes
  <2>2. new \in Sudog \ D[root] /\ elem' \in [Sudog -> Int]
    BY <1>0, <1>f, <1>n
  <2> QED BY <1>s, <2>1, <2>2, Spliced
<1>7. AreLists(W, E[root'], elem', waitlink', waittail')
  <2>1. SameBut(elem, elem', new) /\ SameBut(waitlink, waitlink', new) /\ SameButTwo(waittail, waittail', new, s)
    BY <1>0, <1>5 DEF SameBut, SameButTwo
  <2>2. /\ W = Fronted(Q, addr, new) /\ Q[addr] # <<>> /\ new \in Sudog \ Listed(Q)
        /\ E[root'] = (D[root] \ {Q[addr][1]}) \cup {new}
        /\ elem'[new] = addr /\ waitlink'[new] = Q[addr][1] /\ waittail'[new] = Q[addr][Len(Q[addr])]
        /\ SameButTwo(waittail, waittail', new, Q[addr][1])
    BY <1>0, <1>2, <1>3, <1>5, <1>6, <1>n, <2>1
  <2>3. JoinsFirst(Q, D, addr, new, W, E[root'], elem', waitlink', waittail')
    BY <2>1, <2>2 DEF JoinsFirst
  <2>4. addr \in Addr
    BY <1>n
  <2> QED BY <2>3, <2>4, ListsFronted
<1>8. ListsOf(W, E)'
  BY <1>7 DEF AreLists, ListsOf
<1>9. Listed(W) = Listed(Q) \cup {new}
  <2>1. addr \in Addr /\ new \in Sudog /\ Q \in [Addr -> Seq(Sudog)]
    BY <1>f, <1>n
  <2> QED BY <2>1, FrontedList
<1>10. CleanOf(W, E)'
  <2>1. Pending' = {}
    BY <1>0 DEF Pending
  <2>2. /\ (\A n \in Sudog \ D[root] : waittail[n] = Nil)
        /\ (\A n \in Sudog \ Listed(Q) : waitlink[n] = Nil) /\ \A n \in Sudog \ waiting : elem[n] = 0
    BY DEF Rep, CleanOf
  <2>3. waiting' = Listed(W) \cup Pending' /\ Listed(W) \cap Pending' = {}
    BY <1>0, <1>9, <1>n, <2>1
  <2>4. \A n \in Sudog \ E[root'] : waittail'[n] = Nil
    BY <1>5, <1>6, <2>2
  <2>5. \A n \in Sudog \ Listed(W) : waitlink'[n] = Nil
    BY <1>5, <1>9, <2>2
  <2>6. \A n \in Sudog \ waiting' : elem'[n] = 0
    BY <1>0, <2>2
  <2> QED BY <2>3, <2>4, <2>5, <2>6 DEF CleanOf
<1>11. HeapOf(E)' /\ SearchOf(E)' /\ CallOf(E)' /\ TreapOf(E)'
  BY <1>0, <1>6 DEF HeapOf, SearchOf, CallOf, TreapOf
<1>12. TreapTypes'
  <2>1. /\ root' \in Pointer /\ parent' \in [Sudog -> Pointer] /\ prev' \in [Sudog -> Pointer]
        /\ next' \in [Sudog -> Pointer]
    BY <1>6 DEF IsTree, Pointers
  <2>2. Nil \in Pointer
    BY <1>f
  <2>3. ticket' \in [Sudog -> Ticket \cup {0}]
    BY <1>0, <1>1, <1>f, <1>n
  <2>4. waiters' \in [Sudog -> 0..MaxWaiters]
    <3>1. \A z \in 0..MaxWaiters : Clamped(z) \in 0..MaxWaiters
      BY <1>f DEF Clamped
    <3>2. Clamped(waiters[s]) \in 0..MaxWaiters
      BY <1>1, <1>f, <3>1
    <3> QED BY <1>0, <1>f, <1>n, <3>2
  <2>5. waitlink' \in [Sudog -> Pointer] /\ waittail' \in [Sudog -> Pointer]
    BY <1>0, <1>1, <1>3, <1>f, <1>n
  <2> QED BY <1>0, <2>1, <2>2, <2>3, <2>4, <2>5 DEF Rep, TreapTypes
<1> QED BY <1>8, <1>10, <1>11, <1>12 DEF Rep

\* n is linked to the end of the list of a.
JoinsLast(Q, a, n, W, wl, wt) ==
    /\ W = Appended(Q, a, n) /\ Q[a] # <<>> /\ n \in Sudog \ Listed(Q) /\ elem[n] = a
    /\ wl[n] = Nil /\ wl[Q[a][Len(Q[a])]] = n /\ SameButTwo(waitlink, wl, n, Q[a][Len(Q[a])])
    /\ wt[Q[a][1]] = n /\ SameBut(waittail, wt, Q[a][1])

\* W are then the lists.
LEMMA ListsAppended ==
    ASSUME NEW Q, NEW D, Rep(Q, D), NEW a \in Addr, NEW n, NEW W, NEW wl, NEW wt,
           JoinsLast(Q, a, n, W, wl, wt)
    PROVE  AreLists(W, D[root], elem, wl, wt)
<1>f. Q \in [Addr -> Seq(Sudog)]
  BY RepTypes DEF Typed
<1>g. /\ SameButTwo(waitlink, wl, n, Q[a][Len(Q[a])]) /\ SameBut(waittail, wt, Q[a][1])
      /\ elem[n] = a /\ wl[n] = Nil /\ wl[Q[a][Len(Q[a])]] = n /\ wt[Q[a][1]] = n
      /\ n \in Sudog /\ n \notin Listed(Q) /\ Q[a] # <<>>
  BY DEF JoinsLast
<1>1. /\ W \in [Addr -> Seq(Sudog)]
      /\ \A b \in Addr : b # a => W[b] = Q[b]
      /\ Len(W[a]) = Len(Q[a]) + 1 /\ W[a] # <<>>
      /\ W[a][Len(Q[a]) + 1] = n /\ \A i \in 1..Len(Q[a]) : W[a][i] = Q[a][i]
  <2>1. W = Appended(Q, a, n) /\ n \in Sudog
    BY DEF JoinsLast
  <2> QED BY <1>f, <2>1, AppendedList
<1>2. Len(Q[a]) \in Nat /\ 1 \in 1..Len(Q[a])
  <2>1. Q[a] \in Seq(Sudog)
    BY <1>f
  <2> QED BY <1>g, <2>1
<1>3. \A b \in Addr : \A i \in 1..Len(Q[b]) :
         /\ Q[b][i] \in Sudog /\ elem[Q[b][i]] = b /\ Q[b][i] # n
         /\ waitlink[Q[b][i]] = IF i = Len(Q[b]) THEN Nil ELSE Q[b][i + 1]
         /\ \A j \in 1..Len(Q[b]) : Q[b][i] = Q[b][j] => i = j
  <2>1. \A b \in Addr : \A i \in 1..Len(Q[b]) : Q[b][i] \in Listed(Q)
    BY ListNode
  <2> QED BY <1>g, <2>1, ListNode
<1>l. PICK k \in Nat : k = Len(Q[a]) /\ Len(W[a]) = k + 1 /\ 1 \in 1..k
  BY <1>1, <1>2
<1>k. /\ \A i \in 1..k + 1 : i # k + 1 => i \in 1..k
      /\ \A i \in 1..k : i # k => i + 1 \in 1..k
      /\ \A i \in 1..k : i # k + 1 /\ i \in 1..k + 1
      /\ k + 1 # 1 /\ k \in 1..k
  BY <1>l
<1>4. ASSUME NEW b \in Addr, NEW i \in 1..Len(W[b])
      PROVE  /\ elem[W[b][i]] = b
             /\ wl[W[b][i]] = IF i = Len(W[b]) THEN Nil ELSE W[b][i + 1]
             /\ \A j \in 1..Len(W[b]) : W[b][i] = W[b][j] => i = j
  <2>1. CASE b # a
    <3>1. W[b] = Q[b]
      BY <1>1, <2>1
    <3>2. Q[b][i] \in Sudog /\ Q[b][i] # n /\ i \in 1..Len(Q[b]) /\ elem[Q[b][i]] = b
      BY <1>3, <3>1
    <3>3. Q[b][i] # Q[a][Len(Q[a])]
      <4>1. elem[Q[a][k]] = a
        BY <1>3, <1>k, <1>l
      <4> QED BY <1>l, <2>1, <3>2, <4>1
    <3>4. wl[Q[b][i]] = waitlink[Q[b][i]]
      BY <1>g, <3>2, <3>3 DEF SameButTwo
    <3> QED BY <1>3, <3>1, <3>2, <3>4
  <2>2. CASE b = a
    <3>0. \A j \in 1..Len(W[a]) : j # k + 1 => j \in 1..k /\ W[a][j] = Q[a][j] /\ W[a][j] # n
      <4>1. ASSUME NEW j \in 1..Len(W[a]), j # k + 1
            PROVE  j \in 1..k
        BY <1>k, <1>l, <4>1
      <4> QED BY <1>1, <1>3, <1>l, <4>1
    <3>00. W[a][k + 1] = n
      BY <1>1, <1>l
    <3>1. CASE i = k + 1
      <4>1. elem[W[a][i]] = a /\ wl[W[a][i]] = Nil /\ i = Len(W[a])
        BY <1>g, <1>l, <3>00, <3>1
      <4>2. \A j \in 1..Len(W[a]) : W[a][i] = W[a][j] => i = j
        BY <3>0, <3>00, <3>1
      <4> QED BY <2>2, <4>1, <4>2
    <3>2. CASE i # k + 1
      <4>1. i \in 1..k /\ W[a][i] = Q[a][i] /\ i # Len(W[a]) /\ W[a][i] # n
        BY <1>l, <2>2, <3>0, <3>2
      <4>2. elem[W[a][i]] = a /\ W[a][i] \in Sudog /\ waitlink[Q[a][i]] = IF i = k THEN Nil ELSE Q[a][i + 1]
        BY <1>3, <1>l, <4>1
      <4>3. wl[W[a][i]] = W[a][i + 1]
        <5>1. CASE i = k
          BY <1>g, <1>l, <3>00, <4>1, <5>1
        <5>2. CASE i # k
          <6>1. \A x, y \in 1..k : Q[a][x] = Q[a][y] => x = y
            BY <1>3, <1>l
          <6>2. Q[a][i] # Q[a][k]
            BY <1>k, <4>1, <5>2, <6>1
          <6>3. wl[Q[a][i]] = waitlink[Q[a][i]]
            BY <1>g, <1>l, <4>1, <4>2, <6>2 DEF SameButTwo
          <6>4. i + 1 \in 1..k
            BY <1>k, <4>1, <5>2
          <6>5. W[a][i + 1] = Q[a][i + 1]
            BY <1>1, <1>l, <6>4
          <6> QED BY <4>1, <4>2, <5>2, <6>3, <6>5
        <5> QED BY <5>1, <5>2
      <4>4. ASSUME NEW j \in 1..Len(W[a]), W[a][i] = W[a][j]
            PROVE  i = j
        <5>1. j # k + 1
          BY <3>00, <4>1, <4>4
        <5>2. j \in 1..k /\ Q[a][i] = Q[a][j]
          BY <3>0, <4>1, <4>4, <5>1
        <5>3. \A x, y \in 1..k : Q[a][x] = Q[a][y] => x = y
          BY <1>3, <1>l
        <5> QED BY <4>1, <5>2, <5>3
      <4> QED BY <2>2, <4>1, <4>2, <4>3, <4>4
    <3> QED BY <3>1, <3>2
  <2> QED BY <2>1, <2>2
<1>5. ASSUME NEW b \in Addr, W[b] # <<>>
      PROVE  /\ W[b][1] \in D[root]
             /\ wt[W[b][1]] = IF Len(W[b]) = 1 THEN Nil ELSE W[b][Len(W[b])]
  <2>1. CASE b # a
    <3>1. W[b] = Q[b] /\ Q[b] # <<>> /\ 1 \in 1..Len(Q[b])
      BY <1>1, <1>5, <2>1, ListNode
    <3>2. Q[b][1] \in D[root] /\ waittail[Q[b][1]] = IF Len(Q[b]) = 1 THEN Nil ELSE Q[b][Len(Q[b])]
      BY <3>1 DEF Rep, ListsOf
    <3>3. Q[b][1] # Q[a][1] /\ Q[b][1] \in Sudog
      BY <1>2, <1>3, <2>1, <3>1
    <3>4. wt[Q[b][1]] = waittail[Q[b][1]]
      BY <1>g, <3>3 DEF SameBut
    <3> QED BY <3>1, <3>2, <3>4
  <2>2. CASE b = a
    <3>1. Len(W[a]) # 1 /\ W[a][Len(W[a])] = n
      BY <1>1, <1>k, <1>l
    <3>2. W[a][1] = Q[a][1] /\ Q[a][1] \in D[root]
      <4>1. Q[a][1] \in D[root]
        BY <1>g DEF Rep, ListsOf
      <4> QED BY <1>1, <1>2, <4>1
    <3> QED BY <1>g, <2>2, <3>1, <3>2
  <2> QED BY <2>1, <2>2
<1>6. ASSUME NEW m \in D[root]
      PROVE  elem[m] \in Addr /\ W[elem[m]] # <<>> /\ m = W[elem[m]][1]
  <2>1. elem[m] \in Addr /\ Q[elem[m]] # <<>> /\ Q[elem[m]][1] = m
    BY HeadOf
  <2>2. CASE elem[m] = a
    BY <1>1, <1>2, <2>1, <2>2
  <2>3. CASE elem[m] # a
    BY <1>1, <2>1, <2>3
  <2> QED BY <2>2, <2>3
<1> QED BY <1>1, <1>4, <1>5, <1>6 DEF AreLists

\* A sudog is put behind those that wait for its address.
LEMMA RepQueueLast ==
    ASSUME NEW Q, NEW D, Rep(Q, D), QueueLast, NEW W, W = Appended(Q, addr, new)
    PROVE  Rep(W, D)'
<1>t. Typed(Q, D)
  BY RepTypes
<1>f. /\ D[root] \subseteq Sudog /\ Nil \notin Sudog /\ Pointer = Sudog \cup {Nil}
      /\ Q \in [Addr -> Seq(Sudog)]
      /\ waitlink \in [Sudog -> Pointer] /\ waittail \in [Sudog -> Pointer]
      /\ waiters \in [Sudog -> 0..MaxWaiters] /\ MaxWaiters \in Nat
  BY <1>t DEF Typed
<1>e. PICK end : end = IF waittail[s] = Nil THEN s ELSE waittail[s]
  OBVIOUS
<1>0. /\ at = "search" /\ queueing /\ s # Nil /\ elem[s] = addr
      /\ waitlink' = [waitlink EXCEPT ![end] = new, ![new] = Nil]
      /\ waittail' = [waittail EXCEPT ![s] = new]
      /\ waiters' = [waiters EXCEPT ![s] = Clamped(@)]
      /\ at' = "idle" /\ call' = <<>> /\ s' = Nil /\ last' = Nil
      /\ UNCHANGED <<root, elem, ticket, parent, prev, next, waiting, found>>
  BY <1>e DEF QueueLast, Returns
<1>1. s \in D[root] /\ s \in Sudog
  BY <1>0, RepSearching
<1>n. /\ new \in Sudog \ D[root] /\ new \notin Listed(Q) /\ elem[new] = addr /\ addr \in Addr
      /\ waiting = Listed(Q) \cup {new}
  BY <1>0, RepNew
<1>2. /\ addr \in Addr /\ Q[addr] # <<>> /\ Q[addr][1] = s
      /\ waittail[s] = IF Len(Q[addr]) = 1 THEN Nil ELSE Q[addr][Len(Q[addr])]
  BY <1>0, <1>1, HeadOf
<1>3. end = Q[addr][Len(Q[addr])] /\ end \in Sudog /\ end \in Listed(Q)
  <2>1. PICK q \in Seq(Sudog) : q = Q[addr]
    BY <1>f, <1>n
  <2>2. Len(q) \in Nat /\ Len(q) # 0 /\ Len(q) \in 1..Len(q)
    BY <1>2, <2>1, EmptySeq
  <2>3. q[Len(q)] \in Sudog
    BY <2>1, <2>2, ElementOfSeq
  <2>4. q[Len(q)] \in Listed(Q)
    BY <1>n, <2>1, <2>2, InListed
  <2> QED BY <1>1, <1>2, <1>e, <1>f, <2>1, <2>3, <2>4
<1>4. end # new /\ s # new
  BY <1>1, <1>3, <1>n
<1>5. /\ waitlink'[new] = Nil /\ waitlink'[end] = new
      /\ (\A n \in Sudog : n # new /\ n # end => waitlink'[n] = waitlink[n])
      /\ waittail'[s] = new /\ \A n \in Sudog : n # s => waittail'[n] = waittail[n]
  BY <1>0, <1>1, <1>3, <1>4, <1>f, <1>n
<1>7. AreLists(W, D[root], elem, waitlink', waittail')
  <2>1. SameButTwo(waitlink, waitlink', new, end) /\ SameBut(waittail, waittail', s)
    BY <1>5 DEF SameBut, SameButTwo
  <2>3. JoinsLast(Q, addr, new, W, waitlink', waittail')
    BY <1>2, <1>3, <1>5, <1>n, <2>1 DEF JoinsLast
  <2>4. addr \in Addr
    BY <1>n
  <2> QED BY <2>3, <2>4, ListsAppended
<1>8. ListsOf(W, D)'
  <2>1. AreLists(W, D[root'], elem', waitlink', waittail')
    BY <1>0, <1>7
  <2> QED BY <2>1 DEF AreLists, ListsOf
<1>9. Listed(W) = Listed(Q) \cup {new}
  <2>1. addr \in Addr /\ new \in Sudog /\ Q \in [Addr -> Seq(Sudog)]
    BY <1>f, <1>n
  <2> QED BY <2>1, AppendedList
<1>10. CleanOf(W, D)'
  <2>1. Pending' = {}
    BY <1>0 DEF Pending
  <2>2. /\ (\A n \in Sudog \ D[root] : waittail[n] = Nil)
        /\ (\A n \in Sudog \ Listed(Q) : waitlink[n] = Nil) /\ \A n \in Sudog \ waiting : elem[n] = 0
    BY DEF Rep, CleanOf
  <2>3. waiting' = Listed(W) \cup Pending' /\ Listed(W) \cap Pending' = {}
    BY <1>0, <1>9, <1>n, <2>1
  <2>4. \A n \in Sudog \ D[root'] : waittail'[n] = Nil
    BY <1>0, <1>1, <1>5, <2>2
  <2>5. \A n \in Sudog \ Listed(W) : waitlink'[n] = Nil
    BY <1>3, <1>5, <1>9, <2>2
  <2>6. \A n \in Sudog \ waiting' : elem'[n] = 0
    BY <1>0, <2>2
  <2> QED BY <2>3, <2>4, <2>5, <2>6 DEF CleanOf
<1>11. SearchOf(D)' /\ CallOf(D)' /\ TreapOf(D)'
  BY <1>0 DEF SearchOf, CallOf, TreapOf, Rep
<1>13. HeapOf(D)'
  <2>1. Heaped(D[root], parent, prev, next, ticket, Nil, FALSE)
    BY <1>0, RepHeap
  <2>2. Heaped(D[root'], parent', prev', next', ticket', Nil, FALSE)
    BY <1>0, <2>1
  <2> QED BY <1>0, <2>2 DEF HeapOf
<1>12. TreapTypes'
  <2>2. Nil \in Pointer
    BY <1>f
  <2>4. waiters' \in [Sudog -> 0..MaxWaiters]
    <3>1. \A z \in 0..MaxWaiters : Clamped(z) \in 0..MaxWaiters
      BY <1>f DEF Clamped
    <3>2. Clamped(waiters[s]) \in 0..MaxWaiters
      BY <1>1, <1>f, <3>1
    <3> QED BY <1>0, <1>1, <1>f, <3>2
  <2>5. waitlink' \in [Sudog -> Pointer] /\ waittail' \in [Sudog -> Pointer]
    BY <1>0, <1>1, <1>3, <1>f, <1>n
  <2>6. {parent', prev', next', waitlink', waittail'} \subseteq [Sudog -> Pointer]
    <3>1. parent \in [Sudog -> Pointer] /\ prev \in [Sudog -> Pointer] /\ next \in [Sudog -> Pointer]
      BY <1>t DEF Typed
    <3> QED BY <1>0, <2>5, <3>1
  <2>7. /\ root \in Pointer /\ elem \in [Sudog -> Addr \cup {0}] /\ ticket \in [Sudog -> Ticket \cup {0}]
        /\ waiting \subseteq Sudog /\ found \in Pointer
    BY DEF Rep, TreapTypes
  <2> QED BY <1>0, <2>2, <2>4, <2>6, <2>7 DEF TreapTypes
<1> QED BY <1>8, <1>10, <1>11, <1>12, <1>13 DEF Rep

\* n is the only one in the list of a.
JoinsAlone(Q, D, a, n, W, N) ==
    /\ W = Fronted(Q, a, n) /\ Q[a] = <<>> /\ n \in Sudog \ Listed(Q)
    /\ N = D[root] \cup {n} /\ elem[n] = a /\ waitlink[n] = Nil /\ waittail[n] = Nil

\* W are then the lists.
LEMMA ListsAlone ==
    ASSUME NEW Q, NEW D, Rep(Q, D), NEW a \in Addr, NEW n, NEW W, NEW N,
           JoinsAlone(Q, D, a, n, W, N)
    PROVE  AreLists(W, N, elem, waitlink, waittail)
<1>f. Q \in [Addr -> Seq(Sudog)]
  BY RepTypes DEF Typed
<1>g. /\ elem[n] = a /\ waitlink[n] = Nil /\ waittail[n] = Nil /\ Q[a] = <<>> /\ Len(Q[a]) = 0
      /\ n \in Sudog /\ n \notin Listed(Q) /\ N = D[root] \cup {n}
  BY DEF JoinsAlone
<1>1. /\ W \in [Addr -> Seq(Sudog)]
      /\ \A b \in Addr : b # a => W[b] = Q[b]
      /\ Len(W[a]) = 1 /\ W[a] # <<>> /\ W[a][1] = n
  <2>1. W = Fronted(Q, a, n) /\ n \in Sudog
    BY DEF JoinsAlone
  <2>2. /\ W \in [Addr -> Seq(Sudog)]
        /\ \A b \in Addr : b # a => W[b] = Q[b]
        /\ Len(W[a]) = Len(Q[a]) + 1 /\ W[a] # <<>> /\ W[a][1] = n
    BY <1>f, <2>1, FrontedList
  <2> QED BY <1>g, <2>2
<1>2. \A i \in 1..1 : i = 1
  OBVIOUS
<1>3. \A b \in Addr : \A i \in 1..Len(Q[b]) :
         /\ elem[Q[b][i]] = b
         /\ waitlink[Q[b][i]] = IF i = Len(Q[b]) THEN Nil ELSE Q[b][i + 1]
         /\ \A j \in 1..Len(Q[b]) : Q[b][i] = Q[b][j] => i = j
  BY ListNode
<1>4. ASSUME NEW b \in Addr, NEW i \in 1..Len(W[b])
      PROVE  /\ elem[W[b][i]] = b
             /\ waitlink[W[b][i]] = IF i = Len(W[b]) THEN Nil ELSE W[b][i + 1]
             /\ \A j \in 1..Len(W[b]) : W[b][i] = W[b][j] => i = j
  <2>1. CASE b # a
    <3>1. W[b] = Q[b]
      BY <1>1, <2>1
    <3> QED BY <1>3, <3>1
  <2>2. CASE b = a
    <3>1. i = 1 /\ \A j \in 1..Len(W[b]) : j = 1
      BY <1>1, <1>2, <2>2
    <3> QED BY <1>1, <1>g, <2>2, <3>1
  <2> QED BY <2>1, <2>2
<1>5. ASSUME NEW b \in Addr, W[b] # <<>>
      PROVE  /\ W[b][1] \in N
             /\ waittail[W[b][1]] = IF Len(W[b]) = 1 THEN Nil ELSE W[b][Len(W[b])]
  <2>1. CASE b # a
    <3>1. W[b] = Q[b] /\ Q[b] # <<>>
      BY <1>1, <1>5, <2>1
    <3>2. Q[b][1] \in D[root] /\ waittail[Q[b][1]] = IF Len(Q[b]) = 1 THEN Nil ELSE Q[b][Len(Q[b])]
      BY <3>1 DEF Rep, ListsOf
    <3> QED BY <1>g, <3>1, <3>2
  <2>2. CASE b = a
    BY <1>1, <1>g, <2>2
  <2> QED BY <2>1, <2>2
<1>6. ASSUME NEW m \in N
      PROVE  elem[m] \in Addr /\ W[elem[m]] # <<>> /\ m = W[elem[m]][1]
  <2>1. CASE m = n
    BY <1>1, <1>g, <2>1
  <2>2. CASE m # n
    <3>1. m \in D[root]
      BY <1>g, <2>2
    <3>2. elem[m] \in Addr /\ Q[elem[m]] # <<>> /\ Q[elem[m]][1] = m
      BY <3>1, HeadOf
    <3>3. elem[m] # a
      BY <1>g, <3>2
    <3> QED BY <1>1, <3>2, <3>3
  <2> QED BY <2>1, <2>2
<1> QED BY <1>1, <1>4, <1>5, <1>6 DEF AreLists

\* Where a sudog that waits for an address nobody waits for is hung up.
LEMMA LeafPlace ==
    ASSUME NEW Q, NEW D, Rep(Q, D), at = "search", queueing, s = Nil, last # Nil
    PROVE  /\ \A n \in Sudog : last \in D[prev[n]] => elem[new] < elem[n]
           /\ \A n \in Sudog : last \in D[next[n]] => elem[n] < elem[new]
           /\ IF GoesLeft(last) THEN elem[new] < elem[last] /\ prev[last] = Nil
                                ELSE elem[last] < elem[new] /\ next[last] = Nil
<1>t. Typed(Q, D)
  BY RepTypes
<1>f. /\ D \in [Pointer -> SUBSET Sudog] /\ D[Nil] = {} /\ elem \in [Sudog -> Int]
      /\ Nil \notin Sudog /\ D[root] \subseteq Sudog
  BY <1>t DEF Typed
<1>0. IsTree(root, parent, prev, next, D, elem)
  BY DEF Rep, TreapOf
<1>1. last \in D[root] /\ last \in Sudog /\ s = IF GoesLeft(last) THEN prev[last] ELSE next[last]
  BY RepSearching
<1>2. elem[new] = addr /\ new \in Sudog /\ elem[new] \in Int /\ elem[last] \in Int
  BY <1>1, <1>f, RepNew
<1>3. \A n \in D[root] : last \in D[n] =>
         /\ elem[n] # addr
         /\ last \in D[prev[n]] => addr < elem[n]
         /\ last \in D[next[n]] => elem[n] < addr
  BY DEF Rep, SearchOf
<1>4. ASSUME NEW n \in Sudog
      PROVE  /\ last \in D[prev[n]] => elem[new] < elem[n]
             /\ last \in D[next[n]] => elem[n] < elem[new]
  <2>1. D[prev[n]] \subseteq D[n] /\ D[next[n]] \subseteq D[n]
    BY <1>0, TreeNode
  <2>2. CASE n \in D[root]
    BY <1>2, <1>3, <2>1, <2>2
  <2>3. CASE n \notin D[root]
    <3>1. prev[n] = Nil /\ next[n] = Nil
      BY <1>0, <2>3 DEF IsTree, Parents
    <3> QED BY <1>f, <3>1
  <2> QED BY <2>2, <2>3
<1>5. last \in D[last]
  BY <1>0, <1>1, TreeNode
<1>6. elem[last] # addr
  BY <1>1, <1>3, <1>5
<1>7. CASE GoesLeft(last)
  BY <1>1, <1>2, <1>4, <1>7 DEF GoesLeft
<1>8. CASE ~GoesLeft(last)
  <2>1. elem[last] < elem[new]
    BY <1>2, <1>6, <1>8 DEF GoesLeft
  <2> QED BY <1>1, <1>4, <1>8, <2>1
<1> QED BY <1>7, <1>8

\* The subtrees when new is a leaf.
Leafed(D) == IF last = Nil THEN D ELSE Grown(D, last, new)

\* The tree with the new leaf.
LEMMA LeafTree ==
    ASSUME NEW Q, NEW D, Rep(Q, D), QueueLeaf, NEW E, E = Leafed(D)
    PROVE  /\ IsTree(root', parent', prev', next', E, elem) /\ E[root'] = D[root] \cup {new}
           /\ Heaped(E[root'], parent', prev', next', ticket', new, FALSE)
<1>t. Typed(Q, D)
  BY RepTypes
<1>f. /\ D \in [Pointer -> SUBSET Sudog] /\ D[Nil] = {} /\ elem \in [Sudog -> Int]
      /\ Nil \notin Sudog /\ D[root] \subseteq Sudog /\ ticket \in [Sudog -> Ticket \cup {0}]
      /\ parent \in [Sudog -> Pointer] /\ prev \in [Sudog -> Pointer] /\ next \in [Sudog -> Pointer]
  BY <1>t DEF Typed
<1>0. IsTree(root, parent, prev, next, D, elem)
  BY DEF Rep, TreapOf
<1>1. /\ at = "search" /\ queueing /\ s = Nil
      /\ parent' = [parent EXCEPT ![new] = last] /\ root' = LinkRoot(new)
      /\ prev' = LinkPrev(prev, new) /\ next' = LinkNext(next, new)
  BY DEF QueueLeaf
<1>n. new \in Sudog \ D[root] /\ parent[new] = Nil /\ prev[new] = Nil /\ next[new] = Nil
  BY <1>1, RepNew
<1>2. \A n \in D[root] : ticket'[n] = ticket[n]
  BY <1>f, <1>n DEF QueueLeaf
<1>h. Heaped(D[root], parent, prev, next, ticket, Nil, FALSE)
  BY <1>1, RepHeap
<1>3. CASE last = Nil
  <2>1. root = Nil /\ E = D
    BY <1>1, <1>3, RepSearching DEF Leafed
  <2>2. parent' = parent /\ prev' = prev /\ next' = next /\ root' = new
    BY <1>1, <1>3, <1>f, <1>n DEF LinkRoot, LinkPrev, LinkNext
  <2>3. IsTree(new, parent, prev, next, D, elem) /\ D[new] = {new}
    <3>1. IsTree(Nil, parent, prev, next, D, elem) /\ new \in Sudog
      BY <1>0, <1>n, <2>1
    <3> QED BY <3>1, AddFirst
  <2>4. Heaped({new}, parent, prev, next, ticket', new, FALSE)
    BY <1>f, <1>n DEF Heaped
  <2> QED BY <1>f, <2>1, <2>2, <2>3, <2>4
<1>4. ASSUME last # Nil
      PROVE  /\ root' = root /\ parent' = With(parent, new, last) /\ E = Grown(D, last, new)
             /\ last \in D[root]
  <2>1. last \in D[root]
    BY <1>1, <1>4, RepSearching
  <2> QED BY <1>1, <1>4, <2>1 DEF LinkRoot, With, Leafed
<1>5. CASE last # Nil /\ GoesLeft(last)
  <2>1. prev' = With(prev, last, new) /\ next' = next
    BY <1>1, <1>5 DEF LinkPrev, LinkNext, With
  <2>2. /\ \A n \in Sudog : last \in D[prev[n]] => elem[new] < elem[n]
        /\ \A n \in Sudog : last \in D[next[n]] => elem[n] < elem[new]
        /\ elem[new] < elem[last] /\ prev[last] = Nil
    BY <1>1, <1>5, LeafPlace
  <2>3. IsTree(root, parent', prev', next, E, elem) /\ E[root] = D[root] \cup {new}
    BY <1>0, <1>4, <1>5, <1>n, <2>1, <2>2, AddLeft
  <2>4. Heaped(D[root] \cup {new}, parent', With(prev, last, new), next, ticket', new, FALSE)
    BY <1>0, <1>2, <1>4, <1>5, <1>h, <1>n, <2>2, HeapAdded
  <2> QED BY <1>4, <1>5, <2>1, <2>3, <2>4
<1>6. CASE last # Nil /\ ~GoesLeft(last)
  <2> DEFINE K == [n \in Sudog |-> -elem[n]]
  <2>1. next' = With(next, last, new) /\ prev' = prev
    BY <1>1, <1>6 DEF LinkPrev, LinkNext, With
  <2>2. /\ \A n \in Sudog : last \in D[prev[n]] => elem[new] < elem[n]
        /\ \A n \in Sudog : last \in D[next[n]] => elem[n] < elem[new]
        /\ elem[last] < elem[new] /\ next[last] = Nil
    BY <1>1, <1>6, LeafPlace
  <2>3. new \in Sudog /\ last \in Sudog
    BY <1>4, <1>6, <1>f, <1>n
  <2>4. \A n, m \in Sudog : elem[n] < elem[m] => K[m] < K[n]
    <3>1. \A x, y \in Int : x < y => -y < -x
      OBVIOUS
    <3> QED BY <1>f, <3>1
  <2>5. IsTree(root, parent, next, prev, D, K)
    BY <1>0, Mirror
  <2> HIDE DEF K
  <2>6. /\ \A n \in Sudog : last \in D[prev[n]] => K[n] < K[new]
        /\ \A n \in Sudog : last \in D[next[n]] => K[new] < K[n]
        /\ K[new] < K[last]
    BY <2>2, <2>3, <2>4
  <2>7. IsTree(root, parent', next', prev, E, K) /\ E[root] = D[root] \cup {new}
    BY <1>4, <1>6, <1>n, <2>1, <2>2, <2>5, <2>6, AddLeft
  <2>8. IsTree(root, parent', prev, next', E, elem)
    BY <1>f, <2>7, Unmirror DEF K
  <2>9. Heaped(D[root], parent, next, prev, ticket, Nil, FALSE)
    BY <1>h, HeapMirror
  <2>10. Heaped(D[root] \cup {new}, parent', With(next, last, new), prev, ticket', new, FALSE)
    BY <1>2, <1>4, <1>6, <1>n, <2>2, <2>5, <2>9, HeapAdded
  <2>11. Heaped(D[root] \cup {new}, parent', prev, next', ticket', new, FALSE)
    BY <2>1, <2>10, HeapMirror
  <2> QED BY <1>4, <1>6, <2>1, <2>7, <2>8, <2>11
<1> QED BY <1>3, <1>5, <1>6

\* A sudog that waits for an address nobody waits for becomes a leaf.
LEMMA RepQueueLeaf ==
    ASSUME NEW Q, NEW D, Rep(Q, D), QueueLeaf, NEW E, E = Leafed(D),
           NEW W, W = Fronted(Q, addr, new)
    PROVE  Rep(W, E)' /\ Q[addr] = <<>>
<1>t. Typed(Q, D)
  BY RepTypes
<1>f. /\ Nil \notin Sudog /\ Pointer = Sudog \cup {Nil} /\ Q \in [Addr -> Seq(Sudog)]
      /\ ticket \in [Sudog -> Ticket \cup {0}] /\ D[Nil] = {}
  BY <1>t DEF Typed
<1>0. /\ at = "search" /\ queueing /\ s = Nil /\ at' = "up" /\ s' = new
      /\ UNCHANGED <<elem, waitlink, waittail, waiters, waiting, call, last, found>>
  BY DEF QueueLeaf
<1>r. PICK r \in Ticket : ticket' = [ticket EXCEPT ![new] = r]
  BY DEF QueueLeaf
<1>n. /\ new \in Sudog \ D[root] /\ new \notin Listed(Q) /\ elem[new] = addr /\ addr \in Addr
      /\ waiting = Listed(Q) \cup {new} /\ waitlink[new] = Nil /\ waittail[new] = Nil
  BY <1>0, RepNew
<1>c. addr' = addr /\ new' = new /\ (queueing' <=> queueing)
  BY <1>0 DEF addr, new, queueing
<1>1. /\ IsTree(root', parent', prev', next', E, elem) /\ E[root'] = D[root] \cup {new}
      /\ Heaped(E[root'], parent', prev', next', ticket', new, FALSE)
  BY LeafTree
<1>2. Q[addr] = <<>>
  <2>1. Q[addr] \in Seq(Sudog)
    BY <1>f, <1>n
  <2>2. Q[addr] # <<>> => 1 \in 1..Len(Q[addr])
    BY <2>1
  <2>3. Q[addr] # <<>> => Q[addr][1] \in D[root] /\ elem[Q[addr][1]] = addr
    BY <1>n, <2>2 DEF Rep, ListsOf
  <2>4. \A n \in D[root] : elem[n] = addr => n \in D[s]
    BY <1>0 DEF Rep, SearchOf
  <2> QED BY <1>0, <1>f, <2>3, <2>4
<1>7. AreLists(W, E[root'], elem, waitlink, waittail)
  <2>3. JoinsAlone(Q, D, addr, new, W, E[root'])
    BY <1>1, <1>2, <1>n DEF JoinsAlone
  <2>4. addr \in Addr
    BY <1>n
  <2> QED BY <2>3, <2>4, ListsAlone
<1>8. ListsOf(W, E)'
  <2>1. AreLists(W, E[root'], elem', waitlink', waittail')
    BY <1>0, <1>7
  <2> QED BY <2>1 DEF AreLists, ListsOf
<1>9. Listed(W) = Listed(Q) \cup {new}
  <2>1. addr \in Addr /\ new \in Sudog /\ Q \in [Addr -> Seq(Sudog)]
    BY <1>f, <1>n
  <2> QED BY <2>1, FrontedList
<1>10. CleanOf(W, E)'
  <2>1. Pending' = {}
    BY <1>0 DEF Pending
  <2>2. /\ (\A n \in Sudog \ D[root] : waittail[n] = Nil)
        /\ (\A n \in Sudog \ Listed(Q) : waitlink[n] = Nil) /\ \A n \in Sudog \ waiting : elem[n] = 0
    BY DEF Rep, CleanOf
  <2>3. waiting' = Listed(W) \cup Pending' /\ Listed(W) \cap Pending' = {}
    BY <1>0, <1>9, <1>n, <2>1
  <2>4. \A n \in Sudog \ E[root'] : waittail'[n] = Nil
    BY <1>0, <1>1, <2>2
  <2>5. \A n \in Sudog \ Listed(W) : waitlink'[n] = Nil
    BY <1>0, <1>9, <2>2
  <2>6. \A n \in Sudog \ waiting' : elem'[n] = 0
    BY <1>0, <2>2
  <2> QED BY <2>3, <2>4, <2>5, <2>6 DEF CleanOf
<1>11. HeapOf(E)' /\ SearchOf(E)' /\ TreapOf(E)'
  BY <1>0, <1>1 DEF HeapOf, SearchOf, TreapOf
<1>13. CallOf(E)'
  <2>1. call \in Addr \X Sudog \X BOOLEAN \/ \E a \in Addr : call = <<a>>
    BY <1>0 DEF Rep, CallOf
  <2>2. new \in E[root']
    BY <1>1
  <2> QED BY <1>0, <1>c, <2>1, <2>2 DEF CallOf
<1>12. TreapTypes'
  <2>1. /\ root' \in Pointer /\ parent' \in [Sudog -> Pointer] /\ prev' \in [Sudog -> Pointer]
        /\ next' \in [Sudog -> Pointer]
    BY <1>1 DEF IsTree, Pointers
  <2>2. new \in Pointer
    BY <1>f, <1>n
  <2>3. ticket' \in [Sudog -> Ticket \cup {0}]
    BY <1>f, <1>n, <1>r
  <2>4. {parent', prev', next', waitlink', waittail'} \subseteq [Sudog -> Pointer]
    <3>1. waitlink \in [Sudog -> Pointer] /\ waittail \in [Sudog -> Pointer]
      BY <1>t DEF Typed
    <3> QED BY <1>0, <2>1, <3>1
  <2>5. /\ elem \in [Sudog -> Addr \cup {0}] /\ waiters \in [Sudog -> 0..MaxWaiters]
        /\ waiting \subseteq Sudog /\ found \in Pointer /\ last \in Pointer
        /\ call \in {<<>>} \cup (Addr \X Sudog \X BOOLEAN) \cup {<<a>> : a \in Addr}
    BY DEF Rep, TreapTypes
  <2> QED BY <1>0, <2>1, <2>2, <2>3, <2>4, <2>5 DEF TreapTypes
<1> QED BY <1>2, <1>8, <1>10, <1>11, <1>12, <1>13 DEF Rep
-----------------------------------------------------------------------------
(* Induction and recursion over the natural numbers *)

\* A set of numbers that is not empty has a least one.
LEMMA Least ==
    ASSUME NEW T \in SUBSET Nat, T # {}
    PROVE  \E n \in T : \A m \in T : n <= m
<1> DEFINE R == {ss \in Nat \X Nat : ss[1] < ss[2]}
<1>1. R = OpToRel(<, Nat)
  BY DEF OpToRel
<1>2. IsWellFoundedOn(R, Nat)
  BY <1>1, NatLessThanWellFounded, Zenon
<1>3. \A m, n \in T : m < n => <<m, n>> \in R
  OBVIOUS
<1> HIDE DEF R
<1>4. PICK n \in T : \A m \in T : ~(<<m, n>> \in R)
  BY <1>2, WFMin
<1>5. \A m \in T : ~(m < n)
  BY <1>3, <1>4, Zenon
<1>6. \A m \in T : n <= m
  BY <1>5
<1> QED BY <1>6

\* Induction, for a set of numbers.
LEMMA Induction ==
    ASSUME NEW S, 0 \in S, \A n \in Nat : n \in S => n + 1 \in S
    PROVE  Nat \subseteq S
<1> SUFFICES ASSUME Nat \ S # {}
             PROVE  FALSE
  OBVIOUS
<1>1. PICK n \in Nat \ S : \A m \in Nat \ S : n <= m
  BY Least
<1>2. n # 0
  BY <1>1
<1>3. n - 1 \in Nat /\ ~(n <= n - 1)
  BY <1>2
<1>4. n - 1 \in S
  BY <1>1, <1>3
<1>5. (n - 1) + 1 \in S
  BY <1>3, <1>4
<1>6. (n - 1) + 1 = n
  OBVIOUS
<1> QED BY <1>5, <1>6

\* f iterates step from a.
Maps(X) == [X -> X]
Iterates(f, X, a, step) == f \in [Nat -> X] /\ f[0] = a /\ \A n \in Nat : f[n + 1] = step[f[n]]

\* A function can be defined by iteration.
LEMMA Iterate ==
    ASSUME NEW X, NEW a \in X, NEW step \in Maps(X)
    PROVE  \E f : Iterates(f, X, a, step)
<1> USE DEF Maps
<1> DEFINE Upto(n, g) == /\ g \in [0..n -> X] /\ g[0] = a
                         /\ \A m \in 0..(n - 1) : g[m + 1] = step[g[m]]
<1>1. \A n \in Nat : \E g : Upto(n, g)
  <2> DEFINE S == {n \in Nat : \E g : Upto(n, g)}
  <2>1. 0 \in S
    <3>1. Upto(0, [m \in 0..0 |-> a])
      OBVIOUS
    <3> QED BY <3>1
  <2>2. ASSUME NEW n \in Nat, n \in S
        PROVE  n + 1 \in S
    <3>1. PICK g : Upto(n, g)
      BY <2>2
    <3> DEFINE g2 == [m \in 0..(n + 1) |-> IF m <= n THEN g[m] ELSE step[g[n]]]
    <3>2. g2 \in [0..(n + 1) -> X] /\ g2[0] = a
      BY <3>1
    <3>3. ASSUME NEW m \in 0..((n + 1) - 1)
          PROVE  g2[m + 1] = step[g2[m]]
      <4>1. CASE m < n
        BY <3>1, <4>1
      <4>2. CASE m = n
        BY <3>1, <4>2
      <4> QED BY <4>1, <4>2
    <3>4. Upto(n + 1, g2)
      BY <3>2, <3>3
    <3> QED BY <3>4
  <2> HIDE DEF S
  <2>3. Nat \subseteq S
    BY <2>1, <2>2, Induction
  <2> QED BY <2>3 DEF S
<1>2. \A n \in Nat : \A g, h : Upto(n, g) /\ Upto(n + 1, h) => g[n] = h[n]
  <2> SUFFICES ASSUME NEW n \in Nat, NEW g, NEW h, Upto(n, g), Upto(n + 1, h)
               PROVE  g[n] = h[n]
    BY SMTT(30)
  <2> DEFINE S == {m \in Nat : m <= n => g[m] = h[m]}
  <2>1. 0 \in S
    OBVIOUS
  <2>2. ASSUME NEW m \in Nat, m \in S
        PROVE  m + 1 \in S
    <3>1. ASSUME m + 1 <= n
          PROVE  g[m + 1] = h[m + 1]
      <4>1. g[m] = h[m]
        BY <2>2, <3>1
      <4>2. m \in 0..(n - 1) /\ m \in 0..((n + 1) - 1)
        BY <3>1
      <4>3. g[m + 1] = step[g[m]] /\ h[m + 1] = step[h[m]]
        BY <4>2
      <4> QED BY <4>1, <4>3
    <3> QED BY <3>1
  <2> HIDE DEF S
  <2>3. Nat \subseteq S
    BY <2>1, <2>2, Induction
  <2> QED BY <2>3 DEF S
<1> DEFINE G(n) == CHOOSE g : Upto(n, g)
<1>3. \A n \in Nat : Upto(n, G(n))
  BY <1>1
<1> HIDE DEF G
<1> DEFINE f == [n \in Nat |-> G(n)[n]]
<1>4. f \in [Nat -> X]
  BY <1>3
<1>5. f[0] = a
  BY <1>3
<1>6. ASSUME NEW n \in Nat
      PROVE  f[n + 1] = step[f[n]]
  <2>1. Upto(n, G(n)) /\ Upto(n + 1, G(n + 1))
    BY <1>3
  <2>2. G(n)[n] = G(n + 1)[n]
    <3> HIDE DEF Upto
    <3> QED BY <1>2, <2>1
  <2>3. n \in 0..((n + 1) - 1)
    OBVIOUS
  <2>4. G(n + 1)[n + 1] = step[G(n + 1)[n]]
    BY <2>1, <2>3
  <2>5. f[n] = G(n)[n] /\ f[n + 1] = G(n + 1)[n + 1]
    OBVIOUS
  <2> QED BY <2>2, <2>4, <2>5
<1>7. Iterates(f, X, a, step)
  BY <1>4, <1>5, <1>6 DEF Iterates
<1> QED BY <1>7

-----------------------------------------------------------------------------
(* What the pointers represent *)

\* The recursions of Below and of Chain, for the links L and R, and F.
IsBelow(B, L, R) ==
    B = [d \in Nat |-> [n \in Pointer |->
            IF n = Nil THEN {} ELSE IF d = 0 THEN {n} ELSE {n} \cup B[d - 1][L[n]] \cup B[d - 1][R[n]]]]
IsChain(C, F) ==
    C = [d \in Nat |-> [n \in Pointer |->
            IF n = Nil \/ d = 0 THEN <<>> ELSE <<n>> \o C[d - 1][F[n]]]]

\* The first has a solution.
LEMMA BelowExists ==
    ASSUME NEW L \in [Sudog -> Pointer], NEW R \in [Sudog -> Pointer]
    PROVE  \E B : IsBelow(B, L, R)
<1>0. Pointer = Sudog \cup {Nil}
  BY DEF Pointer
<1>1. PICK X : X = [Pointer -> SUBSET Sudog]
  OBVIOUS
<1>2. PICK a \in X : a = [n \in Pointer |-> IF n = Nil THEN {} ELSE {n}]
  <2>1. [n \in Pointer |-> IF n = Nil THEN {} ELSE {n}] \in X
    BY <1>0, <1>1
  <2> QED BY <2>1
<1>3. PICK step \in Maps(X) :
        step = [h \in X |-> [n \in Pointer |-> IF n = Nil THEN {} ELSE {n} \cup h[L[n]] \cup h[R[n]]]]
  <2>1. ASSUME NEW h \in X
        PROVE  [n \in Pointer |-> IF n = Nil THEN {} ELSE {n} \cup h[L[n]] \cup h[R[n]]] \in X
    <3>1. ASSUME NEW n \in Pointer, n # Nil
          PROVE  {n} \cup h[L[n]] \cup h[R[n]] \in SUBSET Sudog
      <4>1. n \in Sudog /\ L[n] \in Pointer /\ R[n] \in Pointer
        BY <1>0, <3>1
      <4> QED BY <1>1, <4>1
    <3> QED BY <1>1, <3>1
  <2>2. [h \in X |-> [n \in Pointer |-> IF n = Nil THEN {} ELSE {n} \cup h[L[n]] \cup h[R[n]]]] \in Maps(X)
    BY <2>1 DEF Maps
  <2> QED BY <2>2
<1>4. PICK f : f \in [Nat -> X] /\ f[0] = a /\ \A n \in Nat : f[n + 1] = step[f[n]]
  <2>1. \E f : Iterates(f, X, a, step)
    BY Iterate
  <2> QED BY <2>1 DEF Iterates
<1>5. ASSUME NEW d \in Nat
      PROVE  f[d] = [n \in Pointer |-> IF n = Nil THEN {} ELSE IF d = 0 THEN {n}
                                       ELSE {n} \cup f[d - 1][L[n]] \cup f[d - 1][R[n]]]
  <2>1. CASE d = 0
    BY <1>2, <1>4, <2>1
  <2>2. CASE d # 0
    <3>1. PICK m \in Nat : m = d - 1 /\ m + 1 = d
      BY <2>2
    <3>2. f[d] = step[f[m]] /\ f[m] \in X
      BY <1>4, <3>1
    <3>3. f[d] = [n \in Pointer |-> IF n = Nil THEN {} ELSE {n} \cup f[m][L[n]] \cup f[m][R[n]]]
      BY <1>3, <3>2
    <3> QED BY <2>2, <3>1, <3>3
  <2> QED BY <2>1, <2>2
<1>6. f = [d \in Nat |-> f[d]]
  BY <1>4
<1>7. f = [d \in Nat |-> [n \in Pointer |-> IF n = Nil THEN {} ELSE IF d = 0 THEN {n}
                                       ELSE {n} \cup f[d - 1][L[n]] \cup f[d - 1][R[n]]]]
  BY <1>5, <1>6
<1> QED BY <1>7 DEF IsBelow

\* And the second.
LEMMA ChainExists ==
    ASSUME NEW F \in [Sudog -> Pointer]
    PROVE  \E C : IsChain(C, F)
<1>0. Pointer = Sudog \cup {Nil}
  BY DEF Pointer
<1>1. PICK X : X = [Pointer -> Seq(Sudog)]
  OBVIOUS
<1>2. PICK a \in X : a = [n \in Pointer |-> <<>>]
  <2>1. [n \in Pointer |-> <<>>] \in X
    BY <1>1
  <2> QED BY <2>1
<1>3. PICK step \in Maps(X) :
        step = [h \in X |-> [n \in Pointer |-> IF n = Nil THEN <<>> ELSE <<n>> \o h[F[n]]]]
  <2>1. ASSUME NEW h \in X
        PROVE  [n \in Pointer |-> IF n = Nil THEN <<>> ELSE <<n>> \o h[F[n]]] \in X
    <3>1. ASSUME NEW n \in Pointer, n # Nil
          PROVE  <<n>> \o h[F[n]] \in Seq(Sudog)
      <4>1. n \in Sudog /\ F[n] \in Pointer
        BY <1>0, <3>1
      <4>2. <<n>> \in Seq(Sudog) /\ h[F[n]] \in Seq(Sudog)
        BY <1>1, <4>1
      <4> QED BY <4>2, ConcatProperties
    <3> QED BY <1>1, <3>1
  <2>2. [h \in X |-> [n \in Pointer |-> IF n = Nil THEN <<>> ELSE <<n>> \o h[F[n]]]] \in Maps(X)
    BY <2>1 DEF Maps
  <2> QED BY <2>2
<1>4. PICK f : f \in [Nat -> X] /\ f[0] = a /\ \A n \in Nat : f[n + 1] = step[f[n]]
  <2>1. \E f : Iterates(f, X, a, step)
    BY Iterate
  <2> QED BY <2>1 DEF Iterates
<1>5. ASSUME NEW d \in Nat
      PROVE  f[d] = [n \in Pointer |-> IF n = Nil \/ d = 0 THEN <<>> ELSE <<n>> \o f[d - 1][F[n]]]
  <2>1. CASE d = 0
    BY <1>2, <1>4, <2>1
  <2>2. CASE d # 0
    <3>1. PICK m \in Nat : m = d - 1 /\ m + 1 = d
      BY <2>2
    <3>2. f[d] = step[f[m]] /\ f[m] \in X
      BY <1>4, <3>1
    <3>3. f[d] = [n \in Pointer |-> IF n = Nil THEN <<>> ELSE <<n>> \o f[m][F[n]]]
      BY <1>3, <3>2
    <3> QED BY <2>2, <3>1, <3>3
  <2> QED BY <2>1, <2>2
<1>6. f = [d \in Nat |-> f[d]]
  BY <1>4
<1>7. f = [d \in Nat |-> [n \in Pointer |->
             IF n = Nil \/ d = 0 THEN <<>> ELSE <<n>> \o f[d - 1][F[n]]]]
  BY <1>5, <1>6
<1> QED BY <1>7 DEF IsChain

\* To the depth of the number of its nodes, a subtree is what Below says.
LEMMA BelowIsSubtree ==
    ASSUME NEW rt, NEW P, NEW L, NEW R, NEW D, NEW K, IsTree(rt, P, L, R, D, K), NEW B, IsBelow(B, L, R),
           NEW n \in Pointer
    PROVE  B[Cardinality(Sudog)][n] = D[n]
<1>0. /\ D \in [Pointer -> SUBSET Sudog] /\ D[Nil] = {} /\ Nil \notin Sudog /\ Pointer = Sudog \cup {Nil}
      /\ L \in [Sudog -> Pointer] /\ R \in [Sudog -> Pointer]
      /\ \A m \in Sudog : D[m] = {m} \cup D[L[m]] \cup D[R[m]]
  BY TreapAssumption DEF IsTree, Nested, Pointers, Pointer
<1>1. \A d \in Nat : \A m \in Pointer :
         B[d][m] = IF m = Nil THEN {} ELSE IF d = 0 THEN {m}
                   ELSE {m} \cup B[d - 1][L[m]] \cup B[d - 1][R[m]]
  <2>1. ASSUME NEW d \in Nat
        PROVE  B[d] = [m \in Pointer |-> IF m = Nil THEN {} ELSE IF d = 0 THEN {m}
                          ELSE {m} \cup B[d - 1][L[m]] \cup B[d - 1][R[m]]]
    BY ZenonT(60) DEF IsBelow
  <2> QED BY <2>1
<1>2. /\ \A m \in Pointer : B[0][m] = IF m = Nil THEN {} ELSE {m}
      /\ \A d \in Nat : \A m \in Pointer :
            B[d + 1][m] = IF m = Nil THEN {} ELSE {m} \cup B[d][L[m]] \cup B[d][R[m]]
  <2>1. 0 \in Nat /\ \A d \in Nat : d + 1 \in Nat /\ (d + 1) - 1 = d /\ d + 1 # 0
    OBVIOUS
  <2>2. ASSUME NEW d \in Nat, NEW m \in Pointer
        PROVE  B[d + 1][m] = IF m = Nil THEN {} ELSE {m} \cup B[d][L[m]] \cup B[d][R[m]]
    <3>1. PICK e \in Nat : e = d + 1 /\ e - 1 = d /\ e # 0
      BY <2>1
    <3>2. B[e][m] = IF m = Nil THEN {} ELSE IF e = 0 THEN {m}
                    ELSE {m} \cup B[e - 1][L[m]] \cup B[e - 1][R[m]]
      BY <1>1
    <3> QED BY <3>1, <3>2
  <2>3. ASSUME NEW m \in Pointer
        PROVE  B[0][m] = IF m = Nil THEN {} ELSE {m}
    BY <1>1, <2>1
  <2> QED BY <2>2, <2>3
<1>3. IsFiniteSet(Sudog) /\ \A S \in SUBSET Sudog : IsFiniteSet(S) /\ Cardinality(S) \in Nat
                                                  /\ Cardinality(S) <= Cardinality(Sudog)
  BY TreapAssumption, FS_Subset, FS_CardinalityType
<1>4. ASSUME NEW m \in Sudog, NEW c \in {L[m], R[m]}
      PROVE  Cardinality(D[c]) + 1 <= Cardinality(D[m]) /\ c \in Pointer
  <2>1. D[c] \subseteq D[m] /\ m \in D[m] /\ m \notin D[c] /\ D[m] \subseteq Sudog /\ c \in Pointer
    <3>1. m \in D[m] /\ m \notin D[L[m]] /\ m \notin D[R[m]] /\ D[L[m]] \subseteq D[m] /\ D[R[m]] \subseteq D[m]
      BY TreeNode
    <3> QED BY <1>0, <3>1
  <2>2. IsFiniteSet(D[m]) /\ Cardinality(D[m]) \in Nat /\ IsFiniteSet(D[c]) /\ Cardinality(D[c]) \in Nat
    BY <1>3, <2>1
  <2>3. D[c] \subseteq D[m] \ {m}
    BY <2>1
  <2>4. IsFiniteSet(D[m] \ {m}) /\ Cardinality(D[m] \ {m}) = Cardinality(D[m]) - 1
    BY <2>1, <2>2, FS_RemoveElement
  <2>5. Cardinality(D[c]) <= Cardinality(D[m] \ {m})
    BY <2>3, <2>4, FS_Subset
  <2> QED BY <2>1, <2>2, <2>4, <2>5
<1> DEFINE S == {d \in Nat : \A m \in Pointer : Cardinality(D[m]) <= d + 1 => B[d][m] = D[m]}
<1>5. 0 \in S
  <2>1. ASSUME NEW m \in Pointer, Cardinality(D[m]) <= 0 + 1, m # Nil
        PROVE  D[m] = {m}
    <3>1. m \in Sudog
      BY <1>0, <2>1
    <3>2. \A c \in {L[m], R[m]} : D[c] = {}
      <4>1. ASSUME NEW c \in {L[m], R[m]}
            PROVE  D[c] = {}
        <5>1. Cardinality(D[c]) + 1 <= Cardinality(D[m]) /\ c \in Pointer
          BY <1>4, <3>1
        <5>2. D[c] \subseteq Sudog /\ D[m] \subseteq Sudog
          BY <1>0, <5>1
        <5>3. Cardinality(D[c]) \in Nat /\ Cardinality(D[m]) \in Nat /\ IsFiniteSet(D[c])
          BY <1>3, <5>2
        <5>4. Cardinality(D[c]) = 0
          BY <2>1, <5>1, <5>3
        <5> QED BY <5>3, <5>4, FS_EmptySet
      <4> QED BY <4>1
    <3> QED BY <1>0, <3>1, <3>2
  <2> QED BY <1>0, <1>2, <2>1
<1>6. ASSUME NEW d \in Nat, d \in S
      PROVE  d + 1 \in S
  <2>1. ASSUME NEW m \in Pointer, Cardinality(D[m]) <= (d + 1) + 1
        PROVE  B[d + 1][m] = D[m]
    <3>1. CASE m = Nil
      BY <1>0, <1>2, <3>1
    <3>2. CASE m # Nil
      <4>1. m \in Sudog
        BY <1>0, <3>2
      <4>2. ASSUME NEW c \in {L[m], R[m]}
            PROVE  B[d][c] = D[c]
        <5>1. Cardinality(D[c]) + 1 <= Cardinality(D[m]) /\ c \in Pointer
          BY <1>4, <4>1
        <5>2. D[c] \subseteq Sudog /\ D[m] \subseteq Sudog
          BY <1>0, <5>1
        <5>3. Cardinality(D[c]) \in Nat /\ Cardinality(D[m]) \in Nat
          BY <1>3, <5>2
        <5>4. Cardinality(D[c]) <= d + 1
          BY <2>1, <5>1, <5>3
        <5> QED BY <1>6, <5>1, <5>4
      <4>3. B[d + 1][m] = {m} \cup B[d][L[m]] \cup B[d][R[m]]
        BY <1>2, <3>2
      <4> QED BY <1>0, <4>1, <4>2, <4>3
    <3> QED BY <3>1, <3>2
  <2> QED BY <2>1
<1> HIDE DEF S
<1>7. Nat \subseteq S
  BY <1>5, <1>6, Induction
<1>8. Cardinality(Sudog) \in S
  BY <1>3, <1>7, FS_CardinalityType
<1>9. D[n] \subseteq Sudog
  BY <1>0
<1>10. Cardinality(D[n]) \in Nat /\ Cardinality(Sudog) \in Nat /\ Cardinality(D[n]) <= Cardinality(Sudog)
  BY <1>3, <1>9, FS_CardinalityType
<1>11. Cardinality(D[n]) <= Cardinality(Sudog) + 1
  BY <1>10
<1> QED BY <1>8, <1>11 DEF S

\* What is left of q from i on.
Rest(q, i) == [j \in 1..(Len(q) - i + 1) |-> q[i + j - 1]]

\* An element and what comes after it.
LEMMA RestIs ==
    ASSUME NEW q \in Seq(Sudog)
    PROVE  /\ q # <<>> => Rest(q, 1) = q
           /\ \A i \in 1..Len(q) : i = Len(q) => Rest(q, i) = <<q[i]>> \o <<>>
           /\ \A i \in 1..Len(q) : i # Len(q) => Rest(q, i) = <<q[i]>> \o Rest(q, i + 1)
           /\ \A i \in 1..Len(q) : Rest(q, i) \in Seq(Sudog)
<1>l. PICK k \in Nat : k = Len(q)
  OBVIOUS
<1>0. \A i \in 1..k : q[i] \in Sudog
  BY <1>l
<1>1. ASSUME NEW i \in 1..(k + 1)
      PROVE  Rest(q, i) \in Seq(Sudog) /\ Len(Rest(q, i)) = k - i + 1
  <2>1. PICK m \in Nat : m = k - i + 1 /\ \A j \in 1..m : i + j - 1 \in 1..k
    OBVIOUS
  <2>2. Rest(q, i) = [j \in 1..m |-> q[i + j - 1]]
    BY <1>l, <2>1 DEF Rest
  <2>3. \A j \in 1..m : q[i + j - 1] \in Sudog
    BY <1>0, <2>1
  <2> QED BY <2>1, <2>2, <2>3
<1>2. Rest(q, 1) = q
  <2>1. k - 1 + 1 = k /\ \A j \in 1..k : 1 + j - 1 = j
    OBVIOUS
  <2>2. Rest(q, 1) = [j \in 1..k |-> q[j]]
    BY <1>l, <2>1 DEF Rest
  <2>3. q = [j \in 1..k |-> q[j]]
    BY <1>l
  <2> QED BY <2>2, <2>3
<1>3. ASSUME NEW i \in 1..k
      PROVE  Rest(q, i) = <<q[i]>> \o Rest(q, i + 1)
  <2>0. i + 1 \in 1..(k + 1) /\ i \in 1..(k + 1)
    OBVIOUS
  <2>1. PICK r \in Seq(Sudog) : r = Rest(q, i + 1) /\ Len(r) = k - i
    <3>1. k - (i + 1) + 1 = k - i
      OBVIOUS
    <3> QED BY <1>1, <2>0, <3>1
  <2>2. PICK ext : ext = <<q[i]>> \o r
    OBVIOUS
  <2>3. <<q[i]>> \in Seq(Sudog) /\ Len(<<q[i]>>) = 1 /\ <<q[i]>>[1] = q[i]
    BY <1>0
  <2>4. /\ ext \in Seq(Sudog) /\ Len(ext) = 1 + Len(r)
        /\ \A j \in 1..1 + Len(r) : ext[j] = IF j <= 1 THEN <<q[i]>>[j] ELSE r[j - 1]
    BY <2>2, <2>3, ConcatProperties
  <2>5. PICK m \in Nat : m = k - i + 1 /\ m = 1 + Len(r)
    BY <2>1
  <2>6. ASSUME NEW j \in 1..m
        PROVE  Rest(q, i)[j] = ext[j]
    <3>1. Rest(q, i)[j] = q[i + j - 1]
      BY <1>l, <2>5 DEF Rest
    <3>2. CASE j = 1
      <4>1. i + j - 1 = i
        BY <3>2
      <4> QED BY <2>3, <2>4, <2>5, <3>1, <3>2, <4>1
    <3>3. CASE j # 1
      <4>1. j - 1 \in 1..(k - (i + 1) + 1) /\ (i + 1) + (j - 1) - 1 = i + j - 1 /\ ~(j <= 1)
        BY <2>5, <3>3
      <4>2. r[j - 1] = q[(i + 1) + (j - 1) - 1]
        BY <1>l, <2>1, <4>1 DEF Rest
      <4> QED BY <2>4, <2>5, <3>1, <4>1, <4>2
    <3> QED BY <3>2, <3>3
  <2>7. Rest(q, i) \in Seq(Sudog) /\ Len(Rest(q, i)) = m
    BY <1>1, <2>0, <2>5
  <2>8. Rest(q, i) = ext
    BY <2>4, <2>5, <2>6, <2>7, SeqEqual
  <2> QED BY <2>1, <2>2, <2>8
<1>4. Rest(q, k + 1) = <<>>
  <2>1. Rest(q, k + 1) \in Seq(Sudog) /\ Len(Rest(q, k + 1)) = 0
    <3>1. k + 1 \in 1..(k + 1) /\ k - (k + 1) + 1 = 0
      OBVIOUS
    <3> QED BY <1>1, <3>1
  <2> QED BY <2>1, EmptySeq
<1>5. \A i \in 1..k : i \in 1..(k + 1)
  OBVIOUS
<1> QED BY <1>1, <1>2, <1>3, <1>4, <1>5, <1>l

\* A list without repetitions, by its links.
LinkedBy(q, F) ==
    /\ q \in Seq(Sudog) /\ F \in [Sudog -> Pointer]
    /\ \A i \in 1..Len(q) : /\ F[q[i]] = IF i = Len(q) THEN Nil ELSE q[i + 1]
                            /\ \A j \in 1..Len(q) : q[i] = q[j] => i = j

\* It is no longer than there are sudogs.
LEMMA ListLength ==
    ASSUME NEW q, NEW F, LinkedBy(q, F)
    PROVE  Len(q) \in Nat /\ Cardinality(Sudog) \in Nat /\ Len(q) <= Cardinality(Sudog)
<1>0. q \in Seq(Sudog) /\ \A i, j \in 1..Len(q) : q[i] = q[j] => i = j
  BY DEF LinkedBy
<1>1. Len(q) \in Nat /\ IsFiniteSet(Sudog) /\ Cardinality(Sudog) \in Nat
  BY <1>0, TreapAssumption, FS_CardinalityType
<1>2. IsFiniteSet(1..Len(q)) /\ Cardinality(1..Len(q)) = Len(q)
  <2>1. PICK k \in Nat : k = Len(q)
    BY <1>1
  <2>2. IsFiniteSet(1..k) /\ Cardinality(1..k) = k
    BY FS_Interval
  <2> QED BY <2>1, <2>2
<1>3. q \in Injection(1..Len(q), Sudog)
  <2>1. q \in [1..Len(q) -> Sudog]
    BY <1>0
  <2> QED BY <1>0, <2>1 DEF Injection, IsInjective
<1>4. Cardinality(1..Len(q)) <= Cardinality(Sudog)
  BY <1>1, <1>3, FS_Injection
<1> QED BY <1>1, <1>2, <1>4

\* It is what Chain finds from its head.
LEMMA ChainIsList ==
    ASSUME NEW q, NEW F, LinkedBy(q, F), q # <<>>, NEW C, IsChain(C, F)
    PROVE  C[Cardinality(Sudog) + 1][q[1]] = q
<1>0. q \in Seq(Sudog) /\ F \in [Sudog -> Pointer] /\ Nil \notin Sudog /\ Pointer = Sudog \cup {Nil}
  BY TreapAssumption DEF LinkedBy, Pointer
<1>l. PICK k \in Nat : k = Len(q) /\ k <= Cardinality(Sudog) /\ Cardinality(Sudog) \in Nat
  BY ListLength
<1>k. 1 \in 1..k
  BY <1>0, <1>l
<1>f. \A i \in 1..k : q[i] \in Sudog /\ F[q[i]] = IF i = k THEN Nil ELSE q[i + 1]
  BY <1>0, <1>l DEF LinkedBy
<1>1. ASSUME NEW d \in Nat, NEW n \in Pointer
      PROVE  C[d][n] = IF n = Nil \/ d = 0 THEN <<>> ELSE <<n>> \o C[d - 1][F[n]]
  <2>1. C[d] = [m \in Pointer |-> IF m = Nil \/ d = 0 THEN <<>> ELSE <<m>> \o C[d - 1][F[m]]]
    BY Zenon DEF IsChain
  <2> QED BY <2>1
<1>2. ASSUME NEW d \in Nat, NEW n \in Sudog
      PROVE  C[d + 1][n] = <<n>> \o C[d][F[n]] /\ C[d][Nil] = <<>>
  <2>1. PICK e \in Nat : e = d + 1 /\ e - 1 = d /\ e # 0
    OBVIOUS
  <2>2. n \in Pointer /\ Nil \in Pointer /\ n # Nil
    BY <1>0
  <2>3. C[e][n] = IF n = Nil \/ e = 0 THEN <<>> ELSE <<n>> \o C[e - 1][F[n]]
    BY <1>1, <2>2
  <2>4. C[d][Nil] = <<>>
    BY <1>1, <2>2
  <2> QED BY <2>1, <2>2, <2>3, <2>4
<1>r. /\ Rest(q, 1) = q
      /\ Rest(q, k) = <<q[k]>> \o <<>>
      /\ \A i \in 1..k : i # k => Rest(q, i) = <<q[i]>> \o Rest(q, i + 1)
  <2>1. k \in 1..k
    BY <1>k
  <2> QED BY <1>0, <1>l, <2>1, RestIs
<1> DEFINE S == {d \in Nat : \A i \in 1..k : k - i + 1 <= d => C[d][q[i]] = Rest(q, i)}
<1>3. 0 \in S
  OBVIOUS
<1>4. ASSUME NEW d \in Nat, d \in S
      PROVE  d + 1 \in S
  <2>1. ASSUME NEW i \in 1..k, k - i + 1 <= d + 1
        PROVE  C[d + 1][q[i]] = Rest(q, i)
    <3>1. C[d + 1][q[i]] = <<q[i]>> \o C[d][F[q[i]]] /\ C[d][Nil] = <<>>
      BY <1>2, <1>f
    <3>2. CASE i = k
      BY <1>f, <1>r, <3>1, <3>2
    <3>3. CASE i # k
      <4>1. i + 1 \in 1..k /\ k - (i + 1) + 1 <= d
        BY <2>1, <3>3
      <4>2. C[d][q[i + 1]] = Rest(q, i + 1)
        BY <1>4, <4>1
      <4> QED BY <1>f, <1>r, <3>1, <3>3, <4>2
    <3> QED BY <3>2, <3>3
  <2> QED BY <2>1
<1> HIDE DEF S
<1>5. Nat \subseteq S
  BY <1>3, <1>4, Induction
<1>6. PICK c \in Nat : c = Cardinality(Sudog) + 1 /\ k - 1 + 1 <= c
  BY <1>l
<1>7. c \in S
  BY <1>5
<1>8. C[c][q[1]] = Rest(q, 1)
  BY <1>6, <1>7, <1>k DEF S
<1> QED BY <1>6, <1>8, <1>r

\* The subtrees and the lists are those that the pointers give.
Subtrees == [n \in Pointer |-> Subtree(n)]

\* Lists and subtrees that satisfy the invariant are those.
LEMMA Represents ==
    \A Q, D : Rep(Q, D) => Q = AbsList /\ D = Subtrees /\ \A a \in Addr : Q[a] # <<>> => WaitList(Q[a][1]) = Q[a]
<1> SUFFICES ASSUME NEW Q, NEW D, Rep(Q, D)
             PROVE  Q = AbsList /\ D = Subtrees /\ \A a \in Addr : Q[a] # <<>> => WaitList(Q[a][1]) = Q[a]
  OBVIOUS
<1>t. Typed(Q, D)
  BY RepTypes
<1>f. /\ D \in [Pointer -> SUBSET Sudog] /\ Q \in [Addr -> Seq(Sudog)] /\ root \in Pointer
      /\ prev \in [Sudog -> Pointer] /\ next \in [Sudog -> Pointer] /\ waitlink \in [Sudog -> Pointer]
  BY <1>t DEF Typed
<1>p. prev \in [Sudog -> Pointer] /\ next \in [Sudog -> Pointer] /\ waitlink \in [Sudog -> Pointer]
  BY <1>f
<1>0. IsTree(root, parent, prev, next, D, elem)
  BY DEF Rep, TreapOf
<1>1. IsBelow(Below, prev, next)
  <2>1. \E B : IsBelow(B, prev, next)
    BY <1>p, BelowExists
  <2>2. \E f : f = [d \in Nat |-> [n \in Pointer |->
            IF n = Nil THEN {} ELSE IF d = 0 THEN {n}
            ELSE {n} \cup f[d - 1][prev[n]] \cup f[d - 1][next[n]]]]
    BY <2>1, ZenonT(60) DEF IsBelow
  <2>3. Below = [d \in Nat |-> [n \in Pointer |->
            IF n = Nil THEN {} ELSE IF d = 0 THEN {n}
            ELSE {n} \cup Below[d - 1][prev[n]] \cup Below[d - 1][next[n]]]]
    BY <2>2, ZenonT(60) DEF Below
  <2> QED BY <2>3, Zenon DEF IsBelow
<1>2. IsChain(Chain, waitlink)
  <2>1. \E C : IsChain(C, waitlink)
    BY <1>p, ChainExists
  <2>2. \E f : f = [d \in Nat |-> [n \in Pointer |->
            IF n = Nil \/ d = 0 THEN <<>> ELSE <<n>> \o f[d - 1][waitlink[n]]]]
    BY <2>1, ZenonT(60) DEF IsChain
  <2>3. Chain = [d \in Nat |-> [n \in Pointer |->
            IF n = Nil \/ d = 0 THEN <<>> ELSE <<n>> \o Chain[d - 1][waitlink[n]]]]
    BY <2>2, ZenonT(60) DEF Chain
  <2> QED BY <2>3, Zenon DEF IsChain
<1>3. \A n \in Pointer : Subtree(n) = D[n]
  BY <1>0, <1>1, BelowIsSubtree DEF Subtree
<1>4. D = Subtrees
  BY <1>3, <1>f DEF Subtrees
<1>5. ASSUME NEW a \in Addr, Q[a] # <<>>
      PROVE  WaitList(Q[a][1]) = Q[a]
  <2>1. PICK q : q = Q[a]
    OBVIOUS
  <2>2. LinkedBy(q, waitlink)
    BY <1>f, <2>1 DEF Rep, ListsOf, LinkedBy
  <2> QED BY <1>2, <1>5, <2>1, <2>2, ChainIsList DEF WaitList
<1>6. Tree = D[root]
  BY <1>3, <1>f DEF Tree
<1> DEFINE heads(a) == {n \in Tree : elem[n] = a}
           listAt(a) == IF heads(a) = {} THEN <<>> ELSE WaitList(CHOOSE n \in heads(a) : TRUE)
<1>7. ASSUME NEW a \in Addr
      PROVE  listAt(a) = Q[a]
  <2>2. CASE Q[a] = <<>>
    <3>1. heads(a) = {}
      BY <1>6, <2>2, HeadOf
    <3> QED BY <2>2, <3>1
  <2>3. CASE Q[a] # <<>>
    <3>1. Q[a][1] \in D[root] /\ elem[Q[a][1]] = a
      <4>1. Q[a][1] \in D[root]
        BY <2>3 DEF Rep, ListsOf
      <4>2. 1 \in 1..Len(Q[a])
        BY <1>f, <2>3
      <4> QED BY <4>1, <4>2, ListNode
    <3>2. heads(a) = {Q[a][1]}
      BY <1>6, <3>1, HeadOf
    <3> HIDE DEF heads
    <3>3. (CHOOSE n \in heads(a) : TRUE) = Q[a][1] /\ heads(a) # {}
      BY <3>2
    <3> QED BY <1>5, <2>3, <3>3
  <2> QED BY <2>2, <2>3
<1>8. Q = AbsList
  <2>1. AbsList = [a \in Addr |-> listAt(a)]
    BY Zenon DEF AbsList
  <2> HIDE DEF listAt
  <2>2. Q = [a \in Addr |-> Q[a]]
    BY <1>f
  <2> QED BY <1>7, <2>1, <2>2
<1> QED BY <1>4, <1>5, <1>8

\* The invariant, for the lists and the subtrees that the pointers give.
TreapIInv == Rep(AbsList, Subtrees)

\* Then the pointers are those of a treap, and the sudogs that do not wait are clean.
LEMMA RepSound ==
    ASSUME TreapIInv
    PROVE  TreapInv
<1>0. PICK Q, D : Q = AbsList /\ D = Subtrees /\ Rep(Q, D)
  BY DEF TreapIInv
<1>t. Typed(Q, D)
  BY <1>0, RepTypes
<1>f. /\ D \in [Pointer -> SUBSET Sudog] /\ Q \in [Addr -> Seq(Sudog)] /\ root \in Pointer
      /\ D[root] \subseteq Sudog /\ elem \in [Sudog -> Int] /\ ticket \in [Sudog -> Nat]
      /\ prev \in [Sudog -> Pointer] /\ next \in [Sudog -> Pointer] /\ waitlink \in [Sudog -> Pointer]
      /\ Nil \notin Sudog /\ Pointer = Sudog \cup {Nil} /\ Listed(Q) \subseteq waiting /\ D[root] \subseteq Listed(Q)
  BY <1>t DEF Typed
<1>1. IsTree(root, parent, prev, next, D, elem)
  BY <1>0 DEF Rep, TreapOf
<1>2. (\A n \in Pointer : Subtree(n) = D[n]) /\ Tree = D[root]
  BY <1>0, <1>f DEF Subtrees, Tree
<1>3. SearchTree
  <2>1. ASSUME NEW n \in D[root]
        PROVE  /\ \A m \in D[prev[n]] : elem[m] < elem[n]
               /\ \A m \in D[next[n]] : elem[m] > elem[n]
               /\ Subtree(prev[n]) = D[prev[n]] /\ Subtree(next[n]) = D[next[n]]
    <3>1. n \in Sudog /\ prev[n] \in Pointer /\ next[n] \in Pointer
      BY <1>f
    <3>2. /\ \A m \in D[prev[n]] : elem[m] < elem[n]
          /\ \A m \in D[next[n]] : elem[n] < elem[m]
      BY <1>1, <3>1 DEF IsTree, Sorted
    <3>3. \A m \in D[next[n]] : elem[m] > elem[n]
      <4>1. \A m \in D[next[n]] : elem[m] \in Int /\ elem[n] \in Int
        BY <1>f, <3>1
      <4> QED BY <3>2, <4>1
    <3> QED BY <1>2, <3>1, <3>2, <3>3
  <2> QED BY <1>2, <2>1 DEF SearchTree
<1>4. HeapOrder
  <2>1. ASSUME at = "idle", NEW n \in D[root], NEW m \in {prev[n], next[n]} \ {Nil}
        PROVE  ticket[n] <= ticket[m]
    <3>1. Heaped(D[root], parent, prev, next, ticket, Nil, FALSE)
      BY <1>0, <2>1, RepHeap
    <3>2. m \in Sudog
      BY <1>f
    <3> QED BY <1>f, <3>1, <3>2 DEF Heaped
  <2> QED BY <1>2, <2>1 DEF HeapOrder
<1>5. ASSUME NEW n \in D[root]
      PROVE  /\ n = root <=> parent[n] = Nil
             /\ \A m \in {prev[n], next[n]} \ {Nil} : parent[m] = n
             /\ waittail[n] = IF waitlink[n] = Nil THEN Nil ELSE Last(WaitList(n))
  <2>1. /\ n = root <=> parent[n] = Nil
        /\ \A m \in Sudog : m \in {prev[n], next[n]} => parent[m] = n
    BY <1>1 DEF IsTree, Parents
  <2>2. \A m \in {prev[n], next[n]} \ {Nil} : m \in Sudog
    BY <1>f
  <2>3. PICK q : /\ elem[n] \in Addr /\ q = Q[elem[n]] /\ q # <<>> /\ q[1] = n /\ q \in Seq(Sudog)
                 /\ waittail[n] = IF Len(q) = 1 THEN Nil ELSE q[Len(q)]
    BY <1>0, <1>f, HeadOf
  <2>4. WaitList(n) = q
    BY <1>0, <2>3, Represents
  <2>5. waitlink[n] = Nil <=> Len(q) = 1
    <3>1. 1 \in 1..Len(q) /\ Len(q) \in Nat
      BY <2>3
    <3>2. waitlink[n] = IF Len(q) = 1 THEN Nil ELSE q[2]
      BY <1>0, <2>3, HeadOf
    <3>3. Len(q) # 1 => q[2] \in Sudog
      <4>1. PICK k \in Nat : k = Len(q) /\ 1 \in 1..k
        BY <3>1
      <4>2. k # 1 => 2 \in 1..k
        BY <4>1
      <4> QED BY <2>3, <4>1, <4>2, ElementOfSeq
    <3> QED BY <1>f, <3>2, <3>3
  <2> QED BY <2>1, <2>2, <2>3, <2>4, <2>5 DEF Last
<1>6. ASSUME NEW n \in Sudog \ D[root]
      PROVE  parent[n] = Nil /\ prev[n] = Nil /\ next[n] = Nil /\ waittail[n] = Nil
  BY <1>0, <1>1 DEF IsTree, Parents, Rep, CleanOf
<1>7. LinksExact
  <2>1. \A n \in Sudog \ D[root] : {parent[n], prev[n], next[n], waittail[n]} = {Nil}
    BY <1>6
  <2> QED BY <1>2, <1>5, <2>1 DEF LinksExact
<1>8. SudogClean
  <2>1. ASSUME NEW n \in Sudog \ waiting
        PROVE  elem[n] = 0 /\ {parent[n], prev[n], next[n], waitlink[n], waittail[n]} = {Nil}
    <3>1. n \notin Listed(Q) /\ n \notin D[root]
      BY <1>f, <2>1
    <3>2. waitlink[n] = Nil /\ elem[n] = 0
      BY <1>0, <2>1, <3>1 DEF Rep, CleanOf
    <3> QED BY <1>6, <2>1, <3>1, <3>2
  <2> QED BY <2>1 DEF SudogClean
<1>9. TreapTypes
  BY <1>0 DEF Rep
<1> QED BY <1>3, <1>4, <1>7, <1>8, <1>9 DEF TreapInv

-----------------------------------------------------------------------------
(* The steps *)

\* Lists and subtrees that satisfy the invariant after a step are those that the
\* pointers give then.
LEMMA RepresentsNext ==
    ASSUME NEW W, NEW E, Rep(W, E)'
    PROVE  TreapIInv' /\ AbsList' = W /\ Subtrees' = E
<1>1. (\A Q, D : Rep(Q, D) => Q = AbsList /\ D = Subtrees /\ \A a \in Addr : Q[a] # <<>> => WaitList(Q[a][1]) = Q[a])'
  BY Represents, PTL
<1>2. W = AbsList' /\ E = Subtrees'
  BY <1>1, SMTT(30)
<1>3. TreapIInv'
  BY <1>2 DEF TreapIInv
<1> QED BY <1>2, <1>3

\* What a step does to the lists and the subtrees.
Becomes(Q, D, W, E) ==
    /\ TreapIInv' /\ Rep(Q, D)
    /\ AbsList = Q /\ AbsList' = W /\ Subtrees = D /\ Subtrees' = E

\* The subtrees after a rotation.
Up(D) == Rotated(D, IF prev[parent[s]] = s THEN next ELSE prev, s, parent[s])
Down(D) == IF LeftIsSmaller(s) THEN Rotated(D, next, prev[s], s) ELSE Rotated(D, prev, next[s], s)

\* Every step does one of these.
LEMMA TreapSteps ==
    ASSUME TreapIInv, [TreapNext]_treapVars
    PROVE  \E Q, D :
              \/ Becomes(Q, D, Q, D) /\ \E a \in Addr : Dequeue(a) \/ \E n \in Sudog, l \in BOOLEAN : Queue(n, a, l)
              \/ Becomes(Q, D, Q, D) /\ (UNCHANGED treapVars \/ DequeueAlone \/ QueueDone)
              \/ Becomes(Q, D, Q, D) /\ DequeueNone /\ Q[addr] = <<>>
              \/ Becomes(Q, D, Q, D) /\ Search /\ D[s'] \subseteq D[s] /\ s \in D[s] /\ s \notin D[s']
              \/ Becomes(Q, D, Q, Up(D)) /\ RotateUp /\ D[s] \subseteq Up(D)[s'] /\ parent[s] \in Up(D)[s']
                                        /\ parent[s] \notin D[s]
              \/ Becomes(Q, D, Q, Down(D)) /\ RotateDown /\ Down(D)[s'] \subseteq D[s]
                                          /\ \E c \in D[s] : c \notin Down(D)[s']
              \/ Becomes(Q, D, Fronted(Q, addr, new), Swapped(D, s, new)) /\ QueueFirst
              \/ Becomes(Q, D, Appended(Q, addr, new), D) /\ QueueLast
              \/ Becomes(Q, D, Fronted(Q, addr, new), Leafed(D)) /\ QueueLeaf /\ Q[addr] = <<>>
              \/ /\ Becomes(Q, D, Shorter(Q, addr), Swapped(D, s, waitlink[s])) /\ DequeueHead
                 /\ Q[addr] # <<>> /\ s = Q[addr][1]
              \/ /\ Becomes(Q, D, Shorter(Q, addr), Cut(D, s)) /\ RemoveLeaf
                 /\ Q[addr] # <<>> /\ s = Q[addr][1]
<1>0. PICK Q, D : Q = AbsList /\ D = Subtrees /\ Rep(Q, D)
  BY DEF TreapIInv
<1>b. ASSUME NEW W, NEW E, Rep(W, E)'
      PROVE  Becomes(Q, D, W, E)
  <2>1. TreapIInv' /\ AbsList' = W /\ Subtrees' = E
    BY <1>b, RepresentsNext
  <2> QED BY <1>0, <2>1 DEF Becomes
<1>1. CASE UNCHANGED treapVars
  BY <1>0, <1>1, <1>b, RepStutter
<1>2. CASE \E a \in Addr : Dequeue(a) \/ \E n \in Sudog, l \in BOOLEAN : Queue(n, a, l)
  <2>1. PICK a \in Addr : Dequeue(a) \/ \E n \in Sudog, l \in BOOLEAN : Queue(n, a, l)
    BY <1>2
  <2>2. CASE Dequeue(a)
    BY <1>0, <1>b, <2>2, RepDequeue
  <2>3. CASE \E n \in Sudog, l \in BOOLEAN : Queue(n, a, l)
    BY <1>0, <1>b, <2>3, RepQueue
  <2> QED BY <2>1, <2>2, <2>3
<1>3. CASE Search
  BY <1>0, <1>3, <1>b, RepSearch
<1>4. CASE QueueFirst
  BY <1>0, <1>4, <1>b, RepQueueFirst
<1>5. CASE QueueLast
  BY <1>0, <1>5, <1>b, RepQueueLast
<1>6. CASE QueueLeaf
  BY <1>0, <1>6, <1>b, RepQueueLeaf
<1>7. CASE RotateUp
  <2>1. PICK E : E = Up(D)
    OBVIOUS
  <2>2. Rep(Q, E)' /\ D[s] \subseteq E[s'] /\ parent[s] \in E[s'] /\ parent[s] \notin D[s]
    BY <1>0, <1>7, <2>1, RepRotateUp DEF Up
  <2> QED BY <1>7, <1>b, <2>1, <2>2
<1>8. CASE QueueDone
  BY <1>0, <1>8, <1>b, RepQueueDone
<1>9. CASE DequeueNone
  BY <1>0, <1>9, <1>b, RepDequeueNone
<1>10. CASE DequeueHead
  BY <1>0, <1>10, <1>b, RepDequeueHead
<1>11. CASE DequeueAlone
  BY <1>0, <1>11, <1>b, RepDequeueAlone
<1>12. CASE RotateDown
  <2>1. PICK E : E = Down(D)
    OBVIOUS
  <2>2. Rep(Q, E)' /\ E[s'] \subseteq D[s] /\ \E c \in D[s] : c \notin E[s']
    BY <1>0, <1>12, <2>1, RepRotateDown DEF Down
  <2> QED BY <1>12, <1>b, <2>1, <2>2
<1>13. CASE RemoveLeaf
  BY <1>0, <1>13, <1>b, RepRemoveLeaf
<1> QED BY <1>1, <1>2, <1>3, <1>4, <1>5, <1>6, <1>7, <1>8, <1>9, <1>10, <1>11, <1>12, <1>13
        DEF TreapNext, Step

\* One of the calls of the treap, between calls, is one of the lists.
LEMMA CallsMatch ==
    ASSUME NEW Q, NEW D, Becomes(Q, D, Q, D), NEW a \in Addr,
           Dequeue(a) \/ \E n \in Sudog, l \in BOOLEAN : Queue(n, a, l)
    PROVE  Abs!Next
<1>0. AbsList = Q /\ AbsList' = Q /\ Rep(Q, D)
  BY DEF Becomes
<1>t. Typed(Q, D)
  BY <1>0, RepTypes
<1>1. at = "idle" /\ at' = "search" /\ found' = Nil
  BY DEF Dequeue, Queue
<1>2. call = <<>>
  BY <1>0, <1>1 DEF Rep, CallOf
<1>3. Abs!Waiting \subseteq waiting
  <2>1. ASSUME NEW n \in Abs!Waiting
        PROVE  n \in waiting
    <3>1. PICK b \in Addr : n \in {Q[b][i] : i \in DOMAIN Q[b]}
      BY <1>0 DEF Abs!Waiting
    <3>2. PICK i \in DOMAIN Q[b] : n = Q[b][i]
      BY <3>1
    <3>3. Q[b] \in Seq(Sudog)
      BY <1>t DEF Typed
    <3>4. i \in 1..Len(Q[b])
      BY <3>2, <3>3
    <3>5. n \in Listed(Q)
      BY <3>2, <3>4, InListed
    <3> QED BY <1>t, <3>5 DEF Typed
  <2> QED BY <2>1
<1>4. Abs!Call
  <2>1. CASE Dequeue(a)
    <3>1. call' = <<a>>
      BY <2>1 DEF Dequeue
    <3> QED BY <1>0, <1>1, <1>2, <3>1 DEF Abs!Call
  <2>2. CASE \E n \in Sudog, l \in BOOLEAN : Queue(n, a, l)
    <3>1. PICK n \in Sudog, l \in BOOLEAN : Queue(n, a, l)
      BY <2>2
    <3>2. call' = <<a, n, l>> /\ n \notin waiting
      BY <3>1 DEF Queue
    <3>3. n \in Sudog \ Abs!Waiting
      BY <1>3, <3>2
    <3> QED BY <1>0, <1>1, <1>2, <3>2, <3>3 DEF Abs!Call
  <2> QED BY <2>1, <2>2
<1> QED BY <1>4 DEF Abs!Next

\* A step that leaves the lists alone.
LEMMA StuttersMatch ==
    ASSUME NEW Q, NEW D, NEW E, Becomes(Q, D, Q, E),
           UNCHANGED treapVars \/ DequeueAlone \/ QueueDone \/ Search \/ RotateUp \/ RotateDown
    PROVE  UNCHANGED Abs!vars
<1>0. AbsList' = AbsList
  BY DEF Becomes
<1>1. UNCHANGED <<at, call, found>> \/ (at = "search" /\ at' = "down" /\ UNCHANGED <<call, found>>)
                                    \/ (at = "up" /\ at' = "idle" /\ call' = <<>> /\ found' = found)
  BY DEF treapVars, DequeueAlone, QueueDone, Search, RotateUp, RotateDown, Returns
<1> QED BY <1>0, <1>1 DEF Abs!vars

\* A sudog joins its list.
LEMMA QueuesMatch ==
    ASSUME NEW Q, NEW D, NEW W, NEW E, Becomes(Q, D, W, E),
           \/ QueueFirst /\ W = Fronted(Q, addr, new)
           \/ QueueLast /\ W = Appended(Q, addr, new)
           \/ QueueLeaf /\ W = Fronted(Q, addr, new) /\ Q[addr] = <<>>
    PROVE  Abs!Next
<1>0. AbsList = Q /\ AbsList' = W /\ Rep(Q, D)
  BY DEF Becomes
<1>1. at = "search" /\ queueing /\ found' = found /\ ((at' = "idle" /\ call' = <<>>) \/ at' = "up")
  BY DEF QueueFirst, QueueLast, QueueLeaf, Returns
<1>2. new \in Sudog /\ lifo \in BOOLEAN /\ addr \in Addr
  BY <1>0, <1>1, RepNew
<1>3. W = [Q EXCEPT ![addr] = IF lifo THEN <<new>> \o Q[addr] ELSE Append(Q[addr], new)]
  <2>1. CASE QueueFirst /\ W = Fronted(Q, addr, new)
    BY <2>1 DEF QueueFirst, Fronted
  <2>2. CASE QueueLast /\ W = Appended(Q, addr, new)
    BY <2>2 DEF QueueLast, Appended
  <2>3. CASE QueueLeaf /\ W = Fronted(Q, addr, new) /\ Q[addr] = <<>>
    <3>1. <<new>> \o <<>> = <<new>> /\ Append(<<>>, new) = <<new>>
      BY <1>2
    <3> QED BY <2>3, <3>1 DEF Fronted
  <2> QED BY <2>1, <2>2, <2>3
<1>4. (IF at = "up" THEN <<>> ELSE call) = call /\ (IF at' = "up" THEN <<>> ELSE call') = <<>>
  BY <1>1
<1>5. Abs!Queue
  <2>1. W = [Q EXCEPT ![call[1]] = Abs!Enqueued(@, call[2], call[3])]
    BY <1>3 DEF Abs!Enqueued, addr, new, lifo
  <2> QED BY <1>0, <1>1, <1>4, <2>1 DEF Abs!Queue, queueing
<1> QED BY <1>5 DEF Abs!Next

\* The head of a list leaves it, or there is none.
LEMMA DequeuesMatch ==
    ASSUME NEW Q, NEW D, NEW W, NEW E, Becomes(Q, D, W, E),
           \/ DequeueNone /\ W = Q /\ Q[addr] = <<>>
           \/ (DequeueHead \/ RemoveLeaf) /\ W = Shorter(Q, addr) /\ Q[addr] # <<>> /\ s = Q[addr][1]
    PROVE  Abs!Next
<1>0. AbsList = Q /\ AbsList' = W /\ Rep(Q, D)
  BY DEF Becomes
<1>1. at \in {"search", "down"} /\ ~queueing /\ at' = "idle" /\ call' = <<>>
  <2>1. at = "down" => ~queueing
    BY <1>0 DEF Rep, CallOf
  <2> QED BY <2>1 DEF DequeueNone, DequeueHead, RemoveLeaf, Returns
<1>2. addr \in Addr /\ call = <<addr>> /\ Len(call) = 1
  <2>1. at # "idle"
    BY <1>1
  <2>2. addr \in Addr /\ call = <<addr>>
    BY <1>0, <1>1, <2>1, RepCall
  <2>3. Len(<<addr>>) = 1
    OBVIOUS
  <2> QED BY <2>2, <2>3
<1>3. Q[addr] \in Seq(Sudog)
  <2>1. Typed(Q, D)
    BY <1>0, RepTypes
  <2> QED BY <1>2, <2>1 DEF Typed
<1>4. (IF at = "up" THEN <<>> ELSE call) = call /\ (IF at' = "up" THEN <<>> ELSE call') = <<>>
  BY <1>1
<1>5. IF Q[addr] = <<>> THEN W = Q /\ found' = found
                        ELSE W = [Q EXCEPT ![addr] = Tail(Q[addr])] /\ found' = Head(Q[addr])
  <2>1. CASE DequeueNone /\ W = Q /\ Q[addr] = <<>>
    BY <2>1 DEF DequeueNone
  <2>2. CASE (DequeueHead \/ RemoveLeaf) /\ W = Shorter(Q, addr) /\ Q[addr] # <<>> /\ s = Q[addr][1]
    <3>1. found' = s
      BY <2>2, ZenonT(30) DEF DequeueHead, RemoveLeaf
    <3>2. Head(Q[addr]) = Q[addr][1]
      <4>1. PICK q \in Seq(Sudog) : q = Q[addr]
        BY <1>3
      <4>2. q # <<>>
        BY <2>2, <4>1
      <4>3. Head(q) = q[1]
        BY <4>2
      <4> QED BY <4>1, <4>3
    <3>3. W = [Q EXCEPT ![addr] = Tail(Q[addr])]
      BY <2>2 DEF Shorter
    <3> QED BY <2>2, <3>1, <3>2, <3>3, ZenonT(30)
  <2> QED BY <2>1, <2>2
<1>6. Abs!Dequeue
  BY <1>0, <1>2, <1>4, <1>5 DEF Abs!Dequeue, addr
<1> QED BY <1>6 DEF Abs!Next

\* A proper part of a finite set is smaller.
LEMMA ProperPart ==
    ASSUME NEW S, NEW T \in SUBSET Sudog, S \subseteq T, NEW c \in T, c \notin S
    PROVE  Cardinality(S) < Cardinality(T) /\ Cardinality(T) > Cardinality(S)
<1>1. IsFiniteSet(T) /\ IsFiniteSet(S)
  BY TreapAssumption, FS_Subset
<1>2. Cardinality(S) \in Nat /\ Cardinality(T) \in Nat
  BY <1>1, FS_CardinalityType
<1>3. Cardinality(S) <= Cardinality(T) /\ Cardinality(S) # Cardinality(T)
  BY <1>1, FS_Subset
<1> QED BY <1>2, <1>3

\* The loops come closer to their end.
LoopStep ==
    /\ at = "search" /\ at' = "search" =>
          Cardinality(Subtree(s)') < Cardinality(Subtree(s))
    /\ at = "up" /\ at' = "up" =>
          Cardinality(Subtree(s)') > Cardinality(Subtree(s))
    /\ at = "down" /\ at' = "down" =>
          Cardinality(Subtree(s)') < Cardinality(Subtree(s))

\* What Subtree says of the node that a call looks at.
LEMMA SubtreeOf ==
    ASSUME NEW Q, NEW D, NEW W, NEW E, Becomes(Q, D, W, E)
    PROVE  /\ Subtree(s) = D[s] /\ Subtree(s)' = E[s'] /\ D[s] \in SUBSET Sudog /\ E[s'] \in SUBSET Sudog
           /\ TreapInv'
<1>1. Rep(Q, D) /\ Subtrees = D /\ Subtrees' = E /\ TreapIInv'
  BY DEF Becomes
<1>2. TreapInv'
  BY <1>1, RepSound, PTL
<1>3. s \in Pointer /\ s' \in Pointer
  BY <1>1, <1>2 DEF Rep, TreapTypes, TreapInv
<1>4. \A n \in Pointer : Subtrees[n] = Subtree(n)
  BY DEF Subtrees
<1>5. Subtrees'[s'] = Subtree(s)'
  BY <1>3 DEF Subtrees
<1>6. D \in [Pointer -> SUBSET Sudog]
  BY <1>1 DEF Rep, TreapOf, IsTree, Nested
<1>7. E \in [Pointer -> SUBSET Sudog]
  BY <1>1 DEF TreapIInv, Rep, TreapOf, IsTree, Nested
<1> QED BY <1>1, <1>2, <1>3, <1>4, <1>5, <1>6, <1>7

\* Every step keeps the invariant, is a step of the lists, and brings a loop closer
\* to its end.
LEMMA TreapStepIs ==
    ASSUME TreapIInv, [TreapNext]_treapVars
    PROVE  TreapIInv' /\ [Abs!Next]_(Abs!vars) /\ [LoopStep]_treapVars
<1>0. PICK Q, D :
         \/ Becomes(Q, D, Q, D) /\ \E a \in Addr : Dequeue(a) \/ \E n \in Sudog, l \in BOOLEAN : Queue(n, a, l)
         \/ Becomes(Q, D, Q, D) /\ (UNCHANGED treapVars \/ DequeueAlone \/ QueueDone)
         \/ Becomes(Q, D, Q, D) /\ DequeueNone /\ Q[addr] = <<>>
         \/ Becomes(Q, D, Q, D) /\ Search /\ D[s'] \subseteq D[s] /\ s \in D[s] /\ s \notin D[s']
         \/ Becomes(Q, D, Q, Up(D)) /\ RotateUp /\ D[s] \subseteq Up(D)[s'] /\ parent[s] \in Up(D)[s']
                                   /\ parent[s] \notin D[s]
         \/ Becomes(Q, D, Q, Down(D)) /\ RotateDown /\ Down(D)[s'] \subseteq D[s]
                                     /\ \E c \in D[s] : c \notin Down(D)[s']
         \/ Becomes(Q, D, Fronted(Q, addr, new), Swapped(D, s, new)) /\ QueueFirst
         \/ Becomes(Q, D, Appended(Q, addr, new), D) /\ QueueLast
         \/ Becomes(Q, D, Fronted(Q, addr, new), Leafed(D)) /\ QueueLeaf /\ Q[addr] = <<>>
         \/ /\ Becomes(Q, D, Shorter(Q, addr), Swapped(D, s, waitlink[s])) /\ DequeueHead
            /\ Q[addr] # <<>> /\ s = Q[addr][1]
         \/ /\ Becomes(Q, D, Shorter(Q, addr), Cut(D, s)) /\ RemoveLeaf
            /\ Q[addr] # <<>> /\ s = Q[addr][1]
  BY TreapSteps
<1>i. ASSUME NEW W, NEW E, Becomes(Q, D, W, E)
      PROVE  TreapIInv' /\ Rep(Q, D)
  BY <1>i DEF Becomes
<1>1. CASE Becomes(Q, D, Q, D) /\ \E a \in Addr : Dequeue(a) \/ \E n \in Sudog, l \in BOOLEAN : Queue(n, a, l)
  <2>1. Abs!Next
    BY <1>1, CallsMatch
  <2>2. at = "idle"
    BY <1>1 DEF Dequeue, Queue
  <2> QED BY <1>1, <1>i, <2>1, <2>2 DEF LoopStep
<1>2. CASE Becomes(Q, D, Q, D) /\ UNCHANGED treapVars
  BY <1>2, <1>i, StuttersMatch
<1>3. CASE Becomes(Q, D, Q, D) /\ (DequeueAlone \/ QueueDone)
  <2>1. UNCHANGED Abs!vars
    BY <1>3, StuttersMatch
  <2>2. at # at' /\ at' \in {"down", "idle"}
    BY <1>3 DEF DequeueAlone, QueueDone, Returns
  <2> QED BY <1>3, <1>i, <2>1, <2>2 DEF LoopStep
<1>4. CASE Becomes(Q, D, Q, D) /\ DequeueNone /\ Q[addr] = <<>>
  <2>1. Abs!Next
    BY <1>4, DequeuesMatch
  <2>2. at' = "idle"
    BY <1>4 DEF DequeueNone, Returns
  <2> QED BY <1>4, <1>i, <2>1, <2>2 DEF LoopStep
<1>5. CASE Becomes(Q, D, Q, D) /\ Search /\ D[s'] \subseteq D[s] /\ s \in D[s] /\ s \notin D[s']
  <2>1. UNCHANGED Abs!vars
    BY <1>5, StuttersMatch
  <2>2. Subtree(s) = D[s] /\ Subtree(s)' = D[s'] /\ D[s] \in SUBSET Sudog
    BY <1>5, SubtreeOf
  <2>3. Cardinality(D[s']) < Cardinality(D[s])
    BY <1>5, <2>2, ProperPart
  <2>4. at = "search" /\ at' = "search"
    BY <1>5 DEF Search
  <2> QED BY <1>5, <1>i, <2>1, <2>2, <2>3, <2>4 DEF LoopStep
<1>6. CASE Becomes(Q, D, Q, Up(D)) /\ RotateUp /\ D[s] \subseteq Up(D)[s'] /\ parent[s] \in Up(D)[s']
                                  /\ parent[s] \notin D[s]
  <2>0. PICK E : E = Up(D)
    OBVIOUS
  <2>1. Becomes(Q, D, Q, E) /\ RotateUp /\ D[s] \subseteq E[s'] /\ parent[s] \in E[s'] /\ parent[s] \notin D[s]
    BY <1>6, <2>0
  <2>2. UNCHANGED Abs!vars
    BY <2>1, StuttersMatch
  <2>3. Subtree(s) = D[s] /\ Subtree(s)' = E[s'] /\ E[s'] \in SUBSET Sudog
    BY <2>1, SubtreeOf
  <2>4. Cardinality(E[s']) > Cardinality(D[s])
    BY <2>1, <2>3, ProperPart
  <2>5. at = "up" /\ at' = "up"
    BY <2>1 DEF RotateUp
  <2> QED BY <1>i, <2>1, <2>2, <2>3, <2>4, <2>5 DEF LoopStep
<1>7. CASE Becomes(Q, D, Q, Down(D)) /\ RotateDown /\ Down(D)[s'] \subseteq D[s]
                                    /\ \E c \in D[s] : c \notin Down(D)[s']
  <2>0. PICK E : E = Down(D)
    OBVIOUS
  <2>1. Becomes(Q, D, Q, E) /\ RotateDown /\ E[s'] \subseteq D[s] /\ \E c \in D[s] : c \notin E[s']
    BY <1>7, <2>0
  <2>2. UNCHANGED Abs!vars
    BY <2>1, StuttersMatch
  <2>3. Subtree(s) = D[s] /\ Subtree(s)' = E[s'] /\ D[s] \in SUBSET Sudog
    BY <2>1, SubtreeOf
  <2>4. Cardinality(E[s']) < Cardinality(D[s])
    BY <2>1, <2>3, ProperPart
  <2>5. at = "down" /\ at' = "down"
    BY <2>1 DEF RotateDown
  <2> QED BY <1>i, <2>1, <2>2, <2>3, <2>4, <2>5 DEF LoopStep
<1>8. CASE \/ Becomes(Q, D, Fronted(Q, addr, new), Swapped(D, s, new)) /\ QueueFirst
           \/ Becomes(Q, D, Appended(Q, addr, new), D) /\ QueueLast
           \/ Becomes(Q, D, Fronted(Q, addr, new), Leafed(D)) /\ QueueLeaf /\ Q[addr] = <<>>
  <2>1. Abs!Next
    BY <1>8, QueuesMatch, SMTT(30)
  <2>2. at = "search" /\ at' \in {"idle", "up"}
    BY <1>8 DEF QueueFirst, QueueLast, QueueLeaf, Returns
  <2> QED BY <1>8, <1>i, <2>1, <2>2 DEF LoopStep
<1>9. CASE /\ \/ Becomes(Q, D, Shorter(Q, addr), Swapped(D, s, waitlink[s])) /\ DequeueHead
              \/ Becomes(Q, D, Shorter(Q, addr), Cut(D, s)) /\ RemoveLeaf
           /\ Q[addr] # <<>> /\ s = Q[addr][1]
  <2>1. Abs!Next
    BY <1>9, DequeuesMatch, SMTT(30)
  <2>2. at' = "idle"
    BY <1>9 DEF DequeueHead, RemoveLeaf, Returns
  <2> QED BY <1>9, <1>i, <2>1, <2>2 DEF LoopStep
<1> QED BY <1>0, <1>1, <1>2, <1>3, <1>4, <1>5, <1>6, <1>7, <1>8, <1>9

\* The invariant holds at the start.
LEMMA TreapInitially ==
    ASSUME TreapInit
    PROVE  TreapIInv
<1>1. PICK Q, D : Rep(Q, D)
  BY RepInit
<1>2. Q = AbsList /\ D = Subtrees
  BY <1>1, Represents
<1> QED BY <1>1, <1>2 DEF TreapIInv

\* And always.
LEMMA TreapIInvHolds == TreapSpec => []TreapIInv
<1>1. TreapIInv /\ [TreapNext]_treapVars => TreapIInv'
  BY TreapStepIs
<1> QED BY <1>1, TreapInitially, PTL DEF TreapSpec

-----------------------------------------------------------------------------
(* The theorems about SemaTreap *)

\* runtime/sema.go, semaRoot.queue and semaRoot.dequeue, for any number of sudogs,
\* addresses and tickets: after every step of every call, rotations included, the
\* pointers are those of a search tree on the addresses whose nodes head the wait
\* lists; between calls it is a heap on the tickets; no sudog leaves with a link;
\* and no rotation throws.
THEOREM TreapSound == TreapSpec => []TreapInv
<1>1. TreapIInv => TreapInv
  BY RepSound
<1> QED BY <1>1, TreapIInvHolds, PTL

\* Seen through its pointers, the treap is the plain list of waiters per address that
\* module Sema takes it for: queue adds at the end it is told, dequeue takes the
\* head, and finds nobody only if nobody waits for the address.
THEOREM TreapIsWaitLists == TreapSpec => ImplementsWaitLists
<1>1. TreapInit => Abs!Init
  <2>1. ASSUME TreapInit
        PROVE  Abs!Init
    <3>1. at = "idle" /\ call = <<>> /\ found = Nil /\ waiting = {}
      BY <2>1 DEF TreapInit
    <3>2. PICK Q, D : Rep(Q, D) /\ Q = AbsList
      BY <2>1, RepInit, Represents
    <3>3. Typed(Q, D)
      BY <3>2, RepTypes
    <3>4. Q \in [Addr -> Seq(Sudog)] /\ Listed(Q) \subseteq waiting
      BY <3>3 DEF Typed
    <3>5. \A a \in Addr : Q[a] = <<>>
      <4>1. ASSUME NEW a \in Addr, Q[a] # <<>>
            PROVE  FALSE
        <5>1. 1 \in 1..Len(Q[a])
          BY <3>2, <4>1, ListNode
        <5>2. Q[a][1] \in Listed(Q)
          BY <5>1, InListed
        <5> QED BY <3>1, <3>4, <5>2
      <4> QED BY <4>1
    <3>6. Q = [a \in Addr |-> <<>>]
      BY <3>4, <3>5
    <3> QED BY <3>1, <3>2, <3>6 DEF Abs!Init
  <2> QED BY <2>1
<1>2. TreapIInv /\ [TreapNext]_treapVars => [Abs!Next]_(Abs!vars)
  BY TreapStepIs
<1> QED BY <1>1, <1>2, TreapIInvHolds, PTL DEF TreapSpec, ImplementsWaitLists, Abs!Spec

\* The loops of queue and dequeue, which run with root.lock held, end: each step of
\* the search and of the rotation down is in a smaller subtree than the last, each
\* rotation up makes that of the new node larger.
THEOREM TreapLoopsEnd == TreapSpec => LoopsEnd
<1>1. TreapIInv /\ [TreapNext]_treapVars => [LoopStep]_treapVars
  BY TreapStepIs
<1> QED BY <1>1, TreapIInvHolds, PTL DEF TreapSpec, LoopsEnd, LoopStep
=============================================================================
