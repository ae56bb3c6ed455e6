------------------------------ MODULE WaitGroup ------------------------------
(***************************************************************************)
(* sync/waitgroup.go: Add, Done and Wait at the granularity of the atomic   *)
(* operations on the 64-bit state, over the semaphore of module Semaphore.  *)
(* The state is kept as its two halves, the counter v and the wait count w, *)
(* which every action reads and writes together.                            *)
(*                                                                         *)
(* Callers keep to rules that are stricter than the comment on Add.  A task  *)
(* that has been added is done once.  A positive Add is called by a running  *)
(* task, which keeps the counter above zero until Add returns, or from       *)
(* outside while no Wait is in progress, and then no Wait starts until Add   *)
(* has returned.  An Add that only starts while the counter is above zero,   *)
(* which the comment allows (waitgroup.go:69-71), is not among them: it can  *)
(* meet the panic of line 121.                                               *)
(* Goroutines are outside any synctest bubble.                              *)
(***************************************************************************)
EXTENDS Integers, Sequences, FiniteSets

CONSTANTS Goroutine,
          MaxTasks              \* bound on the counter

ASSUME WaitGroupAssumption == IsFiniteSet(Goroutine) /\ MaxTasks \in Nat \ {0}

VARIABLES v, w,                 \* wg.state
          tasks,                \* running tasks that are not inside a call of Add
          pc,
          kind,                 \* kind[g]: who calls Add, see Kind
          seen,                 \* seen[g]: the state g has in its local variable
          left,                 \* left[g]: runtime_Semrelease calls left to make
          sema, waitq, sudog    \* wg.sema

wgSema == "wg.sema"

INSTANCE Semaphore WITH Addr <- {wgSema}

sem == <<sema, waitq, sudog>>
vars == <<v, w, tasks, pc, kind, seen, left, sem>>

Kind == {"task",        \* Add(1) by a running task
         "outside",     \* Add(1) with no Wait in progress
         "done"}        \* Done, that is Add(-1)

PC == {"idle", "add", "check", "store", "release", "dequeue",   \* Add
       "wait", "cas", "sleep", "woken",                         \* Wait
       "panic"}

State == [v : Int, w : Nat]

TypeOK ==
    /\ v \in 0..MaxTasks /\ w \in 0..Cardinality(Goroutine)
    /\ tasks \in 0..MaxTasks
    /\ pc \in [Goroutine -> PC]
    /\ kind \in [Goroutine -> Kind]
    /\ seen \in [Goroutine -> State]
    /\ left \in [Goroutine -> Nat]
    /\ SemaTypeOK

Zero == [v |-> 0, w |-> 0]

Init ==
    /\ v = 0 /\ w = 0
    /\ tasks = 0
    /\ pc = [g \in Goroutine |-> "idle"]
    /\ kind = [g \in Goroutine |-> "done"]
    /\ seen = [g \in Goroutine |-> Zero]
    /\ left = [g \in Goroutine |-> 0]
    /\ SemaInit

Goto(g, l) == pc' = [pc EXCEPT ![g] = l]

At(S) == {g \in Goroutine : pc[g] \in S}

Adding == At({"add", "check", "store", "release", "dequeue"})
Waiting == At({"wait", "cas", "sleep", "woken"})

Delta(k) == IF k = "done" THEN -1 ELSE 1

-----------------------------------------------------------------------------
(* Add and Done *)

CallAdd(g, k) ==
    /\ pc[g] = "idle"
    /\ Goto(g, "add")
    /\ kind' = [kind EXCEPT ![g] = k]
    /\ UNCHANGED <<v, w, seen, left, sem>>

\* Bound: room for the tasks of the calls of Add in progress.
Room == v + Cardinality({g \in At({"add"}) : kind[g] # "done"}) < MaxTasks

AddInTask(g) == Room /\ tasks > 0 /\ tasks' = tasks - 1 /\ CallAdd(g, "task")

AddOutside(g) == Room /\ Waiting = {} /\ CallAdd(g, "outside") /\ UNCHANGED tasks

Done(g) == tasks > 0 /\ tasks' = tasks - 1 /\ CallAdd(g, "done")

\* Add returns: the new task runs, and the task that called goes on.
Return(g) ==
    /\ Goto(g, "idle")
    /\ tasks' = tasks + CASE kind[g] = "task" -> 2
                          [] kind[g] = "done" -> 0
                          [] OTHER -> 1

\* state := wg.state.Add(delta << 32), and the tests on it.
Add(g) ==
    LET d == Delta(kind[g]) IN
    /\ pc[g] = "add"
    /\ v' = v + d
    /\ \/ /\ v' < 0 \/ (w # 0 /\ d > 0 /\ v' = d)
          /\ Goto(g, "panic")
          /\ UNCHANGED <<tasks, seen>>
       \/ /\ v' >= 0 /\ ~(w # 0 /\ d > 0 /\ v' = d)
          /\ v' > 0 \/ w = 0
          /\ Return(g)
          /\ UNCHANGED seen
       \/ /\ v' = 0 /\ w # 0
          /\ seen' = [seen EXCEPT ![g] = [v |-> v', w |-> w]]
          /\ Goto(g, "check")
          /\ UNCHANGED tasks
    /\ UNCHANGED <<w, kind, left, sem>>

\* The sanity check: wg.state.Load() != state.
AddCheck(g) ==
    /\ pc[g] = "check"
    /\ Goto(g, IF [v |-> v, w |-> w] # seen[g] THEN "panic" ELSE "store")
    /\ UNCHANGED <<v, w, tasks, kind, seen, left, sem>>

\* Mutant of AddStore: the wait count is not reset.
AddStoreKeepsWaiters(g) ==
    /\ pc[g] = "store"
    /\ left' = [left EXCEPT ![g] = seen[g].w]
    /\ seen' = [seen EXCEPT ![g] = Zero]
    /\ Goto(g, "release")
    /\ UNCHANGED <<v, w, tasks, kind, sem>>

\* wg.state.Store(0)
AddStore(g) ==
    /\ pc[g] = "store"
    /\ v' = 0 /\ w' = 0
    /\ left' = [left EXCEPT ![g] = seen[g].w]
    /\ seen' = [seen EXCEPT ![g] = Zero]
    /\ Goto(g, "release")
    /\ UNCHANGED <<tasks, kind, sem>>

\* for ; w != 0; w-- { runtime_Semrelease(&wg.sema, false, 0) }
Semrelease(g) ==
    /\ pc[g] = "release"
    /\ SemXadd(wgSema)
    /\ Goto(g, "dequeue")
    /\ UNCHANGED <<v, w, tasks, kind, seen, left>>

\* The second half of runtime_Semrelease and the test of the loop.
SemreleaseDequeue(g) ==
    /\ pc[g] = "dequeue"
    /\ SemNoWaiter(wgSema) \/ SemDequeue(wgSema, FALSE)
    /\ left' = [left EXCEPT ![g] = @ - 1]
    /\ \/ left[g] > 1 /\ Goto(g, "release") /\ UNCHANGED tasks
       \/ left[g] = 1 /\ Return(g)
    /\ UNCHANGED <<v, w, kind, seen>>

-----------------------------------------------------------------------------
(* Wait *)

Wait(g) ==
    /\ pc[g] = "idle"
    /\ \A h \in Adding : kind[h] # "outside"
    /\ Goto(g, "wait")
    /\ UNCHANGED <<v, w, tasks, kind, seen, left, sem>>

\* Mutant of WaitLoad: it looks at the wait count.
WaitLoadWrongHalf(g) ==
    /\ pc[g] = "wait"
    /\ \/ w = 0 /\ Goto(g, "idle") /\ UNCHANGED seen
       \/ /\ w # 0
          /\ seen' = [seen EXCEPT ![g] = [v |-> v, w |-> w]]
          /\ Goto(g, "cas")
    /\ UNCHANGED <<v, w, tasks, kind, left, sem>>

\* Nothing to wait for, or a state to register on.
WaitLoad(g) ==
    /\ pc[g] = "wait"
    /\ \/ v = 0 /\ Goto(g, "idle") /\ UNCHANGED seen
       \/ /\ v # 0
          /\ seen' = [seen EXCEPT ![g] = [v |-> v, w |-> w]]
          /\ Goto(g, "cas")
    /\ UNCHANGED <<v, w, tasks, kind, left, sem>>

\* Mutant of WaitCAS: the waiter is added to whatever the state is.
WaitCASBlind(g) ==
    /\ pc[g] = "cas"
    /\ w' = w + 1
    /\ Goto(g, "sleep")
    /\ seen' = [seen EXCEPT ![g] = Zero]
    /\ UNCHANGED <<v, tasks, kind, left, sem>>

\* CompareAndSwap(state, state+1), or start over.
WaitCAS(g) ==
    /\ pc[g] = "cas"
    /\ \/ [v |-> v, w |-> w] = seen[g] /\ w' = w + 1 /\ Goto(g, "sleep")
       \/ [v |-> v, w |-> w] # seen[g] /\ Goto(g, "wait") /\ UNCHANGED w
    /\ seen' = [seen EXCEPT ![g] = Zero]
    /\ UNCHANGED <<v, tasks, kind, left, sem>>

\* runtime_SemacquireWaitGroup(&wg.sema)
WaitSleep(g) ==
    /\ pc[g] = "sleep"
    /\ \/ SemSleep(g, wgSema, FALSE) /\ UNCHANGED pc
       \/ SemAcquired(g, wgSema) /\ Goto(g, "woken")
    /\ UNCHANGED <<v, w, tasks, kind, seen, left>>

\* isReset := wg.state.Load() != 0
WaitWoken(g) ==
    /\ pc[g] = "woken"
    /\ Goto(g, IF [v |-> v, w |-> w] # Zero THEN "panic" ELSE "idle")
    /\ UNCHANGED <<v, w, tasks, kind, seen, left, sem>>

-----------------------------------------------------------------------------
AddStep(g) == Add(g) \/ AddCheck(g) \/ AddStore(g) \/ Semrelease(g) \/ SemreleaseDequeue(g)

WaitStep(g) == WaitLoad(g) \/ WaitCAS(g) \/ WaitSleep(g) \/ WaitWoken(g)

Next ==
    \E g \in Goroutine :
        \/ AddInTask(g) \/ AddOutside(g) \/ Done(g) \/ AddStep(g)
        \/ Wait(g) \/ WaitStep(g)

Spec == Init /\ [][Next]_vars

\* A goroutine inside a call that is not asleep keeps running.
FairSpec == Spec /\ \A g \in Goroutine : WF_vars(AddStep(g)) /\ WF_vars(WaitStep(g))

-----------------------------------------------------------------------------
(* Properties *)

\* The panics are reserved for misuse: callers that keep to the rules of this
\* module never meet one (waitgroup.go:118, 121, 132, 213).
NoPanic == At({"panic"}) = {}

\* Wait returns only when the counter is zero and no added task is running or
\* still inside its Done.
WaitMeansDone ==
    [][\A g \in Waiting : pc'[g] = "idle" =>
          v = 0 /\ tasks = 0 /\ \A h \in At({"add"}) : kind[h] # "done"]_vars

\* The units that an Add has still to post, as pairs <<g, i>>.
Unposted(g) ==
    CASE pc[g] = "release" -> left[g] [] pc[g] = "dequeue" -> left[g] - 1 [] OTHER -> 0

Due == {u \in Goroutine \X (1..Cardinality(Goroutine)) : u[2] <= Unposted(u[1])}

\* Every goroutine asleep in Wait is in the wait count, or its unit is in the
\* semaphore or with the Add that found the counter at zero: nobody is forgotten
\* by Store(0) and no unit is left over for a later Wait.
SleepersCounted ==
    Cardinality(At({"sleep"})) = w + sema[wgSema] + Cardinality(Due)

\* Rounds of use do not disturb each other: no panic, and no sleeper or unit of
\* one round is left for the next, although Store(0) forgets the wait count.
WaitGroupInv ==
    /\ TypeOK
    /\ NoPanic
    /\ SleepersCounted

\* A Wait that sleeps while the counter is zero returns.
WaitReturns == \A g \in Goroutine : (pc[g] = "sleep" /\ v = 0) ~> (pc[g] = "idle")
=============================================================================
