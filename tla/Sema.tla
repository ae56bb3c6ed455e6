-------------------------------- MODULE Sema --------------------------------
(***************************************************************************)
(* runtime/sema.go: semacquire1 and semrelease1 on the addresses that hash  *)
(* to one semaRoot.  The root's lock protects the wait lists; the count at  *)
(* each address and root.nwait are read and written without it, and that is *)
(* what makes a lost wakeup possible.  One action is one atomic operation   *)
(* on shared memory, or one stretch of code under root.lock between two     *)
(* accesses to memory that others reach without the lock.                   *)
(*                                                                         *)
(* The treap keyed by address (root.queue, root.dequeue, the rotations) is  *)
(* abstracted to what it stores: one list of waiters per address.           *)
(***************************************************************************)
EXTENDS Naturals, Sequences, FiniteSets

CONSTANTS Goroutine,
          Addr,         \* the addresses that hash to this root
          Nil,          \* a nil pointer
          MaxSema       \* bound on the count at one address

ASSUME SemaAssumption ==
    /\ Nil \notin Goroutine \cup Addr
    /\ IsFiniteSet(Goroutine)
    /\ MaxSema \in Nat \ {0}

VARIABLES sema,         \* sema[a] = *addr
          lock,         \* holder of root.lock, or Nil
          nwait,        \* root.nwait
          list,         \* list[a]: the sudogs in the treap for address a, head first
          ticket,       \* ticket[g]: s.ticket of g's sudog outside the treap
          pc, arg, flag, s

vars == <<sema, lock, nwait, list, ticket, pc, arg, flag, s>>

PC == {"idle",
       "easy", "lock", "check", "undo", "queue", "parked", "awake",   \* semacquire1
       "xadd", "load", "rlock", "ready"}                              \* semrelease1

TypeOK ==
    /\ sema \in [Addr -> 0..MaxSema]
    /\ lock \in Goroutine \cup {Nil}
    /\ nwait \in 0..Cardinality(Goroutine)
    /\ list \in [Addr -> Seq(Goroutine)]
    /\ ticket \in [Goroutine -> 0..1]
    /\ pc \in [Goroutine -> PC]
    /\ arg \in [Goroutine -> Addr \cup {Nil}]
    /\ flag \in [Goroutine -> BOOLEAN]
    /\ s \in [Goroutine -> Goroutine \cup {Nil}]

Init ==
    /\ sema = [a \in Addr |-> 0]
    /\ lock = Nil
    /\ nwait = 0
    /\ list = [a \in Addr |-> <<>>]
    /\ ticket = [g \in Goroutine |-> 0]
    /\ pc = [g \in Goroutine |-> "idle"]
    /\ arg = [g \in Goroutine |-> Nil]
    /\ flag = [g \in Goroutine |-> FALSE]
    /\ s = [g \in Goroutine |-> Nil]

Goto(g, l) == pc' = [pc EXCEPT ![g] = l]

Call(g, a, f, l) ==
    /\ pc[g] = "idle"
    /\ Goto(g, l)
    /\ arg' = [arg EXCEPT ![g] = a]
    /\ flag' = [flag EXCEPT ![g] = f]

Return(g) ==
    /\ Goto(g, "idle")
    /\ arg' = [arg EXCEPT ![g] = Nil]
    /\ flag' = [flag EXCEPT ![g] = FALSE]

-----------------------------------------------------------------------------
(* semacquire1(addr, lifo) *)

Semacquire(g, a, lifo) ==
    /\ Call(g, a, lifo, "easy")
    /\ UNCHANGED <<sema, lock, nwait, list, ticket, s>>

\* cansemacquire: the load/CAS loop either reads 0 or takes a unit.
cansemacquire(a) ==
    /\ sema[a] > 0
    /\ sema' = [sema EXCEPT ![a] = @ - 1]

\* Easy case, or go on to the harder one.
AcquireEasy(g) ==
    /\ pc[g] = "easy"
    /\ \/ cansemacquire(arg[g]) /\ Return(g)
       \/ sema[arg[g]] = 0 /\ Goto(g, "lock") /\ UNCHANGED <<sema, arg, flag>>
    /\ UNCHANGED <<lock, nwait, list, ticket, s>>

\* Lock the root and announce the waiter.
AcquireLock(g) ==
    /\ pc[g] = "lock"
    /\ lock = Nil
    /\ lock' = g
    /\ nwait' = nwait + 1
    /\ Goto(g, "check")
    /\ UNCHANGED <<sema, list, ticket, arg, flag, s>>

\* Mutant of AcquireCheck: sleep without testing the count again.
AcquireCheckNoRetest(g) ==
    /\ pc[g] = "check"
    /\ Goto(g, "queue")
    /\ UNCHANGED <<sema, lock, nwait, list, ticket, arg, flag, s>>

\* Test the count again now that releasers can see the waiter.
AcquireCheck(g) ==
    /\ pc[g] = "check"
    /\ \/ cansemacquire(arg[g]) /\ Goto(g, "undo")
       \/ sema[arg[g]] = 0 /\ Goto(g, "queue") /\ UNCHANGED sema
    /\ UNCHANGED <<lock, nwait, list, ticket, arg, flag, s>>

\* The second test took a unit: withdraw the announcement.
AcquireUndo(g) ==
    /\ pc[g] = "undo"
    /\ nwait' = nwait - 1
    /\ lock' = Nil
    /\ Return(g)
    /\ UNCHANGED <<sema, list, ticket, s>>

\* Mutant of Enqueue: lifo is ignored.
EnqueueFifo(q, g, lifo) == Append(q, g)

\* g inserts its descriptor: at the head if lifo, else at the tail.
Enqueue(q, g, lifo) == IF lifo THEN <<g>> \o q ELSE Append(q, g)

\* root.queue, then goparkunlock: the root is unlocked once g is parked.
AcquireQueue(g) ==
    /\ pc[g] = "queue"
    /\ list' = [list EXCEPT ![arg[g]] = Enqueue(@, g, flag[g])]
    /\ lock' = Nil
    /\ Goto(g, "parked")
    /\ UNCHANGED <<sema, nwait, ticket, arg, flag, s>>

\* Running again: a ticket or a unit ends the call, else sleep again.
AcquireAwake(g) ==
    /\ pc[g] = "awake"
    /\ \/ ticket[g] # 0 /\ Return(g) /\ UNCHANGED sema
       \/ ticket[g] = 0 /\ cansemacquire(arg[g]) /\ Return(g)
       \/ /\ ticket[g] = 0 /\ sema[arg[g]] = 0
          /\ Goto(g, "lock")
          /\ UNCHANGED <<sema, arg, flag>>
    /\ ticket' = [ticket EXCEPT ![g] = 0]
    /\ UNCHANGED <<lock, nwait, list, s>>

-----------------------------------------------------------------------------
(* semrelease1(addr, handoff) *)

Pending(a) == Cardinality({g \in Goroutine : pc[g] = "xadd" /\ arg[g] = a})

Semrelease(g, a, handoff) ==
    /\ sema[a] + Pending(a) < MaxSema
    /\ Call(g, a, handoff, "xadd")
    /\ UNCHANGED <<sema, lock, nwait, list, ticket, s>>

ReleaseXadd(g) ==
    /\ pc[g] = "xadd"
    /\ sema' = [sema EXCEPT ![arg[g]] = @ + 1]
    /\ Goto(g, "load")
    /\ UNCHANGED <<lock, nwait, list, ticket, arg, flag, s>>

\* Easy case: no waiters on the root, read without the lock.
ReleaseLoad(g) ==
    /\ pc[g] = "load"
    /\ \/ nwait = 0 /\ Return(g)
       \/ nwait # 0 /\ Goto(g, "rlock") /\ UNCHANGED <<arg, flag>>
    /\ UNCHANGED <<sema, lock, nwait, list, ticket, s>>

\* Mutant of ReleaseDequeue: the dequeued waiter stays counted.
ReleaseDequeueKeepsNwait(g) ==
    /\ pc[g] = "rlock"
    /\ lock = Nil
    /\ \/ /\ nwait = 0 \/ list[arg[g]] = <<>>
          /\ Return(g)
          /\ UNCHANGED <<list, s>>
       \/ /\ nwait # 0 /\ list[arg[g]] # <<>>
          /\ s' = [s EXCEPT ![g] = Head(list[arg[g]])]
          /\ list' = [list EXCEPT ![arg[g]] = Tail(@)]
          /\ Goto(g, "ready")
          /\ UNCHANGED <<arg, flag>>
    /\ UNCHANGED <<sema, lock, nwait, ticket>>

\* Under the lock: nothing to do, nobody on this address, or dequeue the head.
ReleaseDequeue(g) ==
    /\ pc[g] = "rlock"
    /\ lock = Nil
    /\ \/ /\ nwait = 0 \/ list[arg[g]] = <<>>
          /\ Return(g)
          /\ UNCHANGED <<nwait, list, s>>
       \/ /\ nwait # 0 /\ list[arg[g]] # <<>>
          /\ s' = [s EXCEPT ![g] = Head(list[arg[g]])]
          /\ list' = [list EXCEPT ![arg[g]] = Tail(@)]
          /\ nwait' = nwait - 1
          /\ Goto(g, "ready")
          /\ UNCHANGED <<arg, flag>>
    /\ UNCHANGED <<sema, lock, ticket>>

\* Hand the unit over if asked to and if it is still there, and ready the waiter.
ReleaseReady(g) ==
    /\ pc[g] = "ready"
    /\ \/ /\ flag[g] /\ cansemacquire(arg[g])
          /\ ticket' = [ticket EXCEPT ![s[g]] = 1]
       \/ /\ ~flag[g] \/ sema[arg[g]] = 0
          /\ UNCHANGED <<sema, ticket>>
    /\ pc' = [pc EXCEPT ![g] = "idle", ![s[g]] = "awake"]
    /\ arg' = [arg EXCEPT ![g] = Nil]
    /\ flag' = [flag EXCEPT ![g] = FALSE]
    /\ s' = [s EXCEPT ![g] = Nil]
    /\ UNCHANGED <<lock, nwait, list>>

-----------------------------------------------------------------------------
AcquireStep(g) ==
    \/ AcquireEasy(g) \/ AcquireLock(g) \/ AcquireCheck(g) \/ AcquireUndo(g)
    \/ AcquireQueue(g) \/ AcquireAwake(g)

ReleaseStep(g) ==
    \/ ReleaseXadd(g) \/ ReleaseLoad(g) \/ ReleaseDequeue(g) \/ ReleaseReady(g)

Next ==
    \E g \in Goroutine :
        \/ \E a \in Addr, f \in BOOLEAN : Semacquire(g, a, f) \/ Semrelease(g, a, f)
        \/ AcquireStep(g)
        \/ ReleaseStep(g)

Spec == Init /\ [][Next]_vars

\* A goroutine inside a call that is not parked keeps running; root.lock is
\* never held across a park.  Nothing obliges a goroutine to make a call.
Fairness == \A g \in Goroutine : WF_vars(AcquireStep(g)) /\ WF_vars(ReleaseStep(g))

FairSpec == Spec /\ Fairness

-----------------------------------------------------------------------------
(* Properties *)

Queued(a) == {list[a][i] : i \in DOMAIN list[a]}

\* Goroutines that will look at a again before they can sleep or return:
\* releasers that have not dequeued yet and waiters already taken off the list.
InFlight(a) ==
    {g \in Goroutine :
        /\ arg[g] = a
        /\ \/ pc[g] \in {"load", "rlock"}
           \/ pc[g] = "parked" /\ g \notin Queued(a)
           \/ pc[g] = "awake" /\ ticket[g] = 0}

\* No lost wakeup (sema.go:181-190, 211-216): while somebody sleeps on a,
\* every unit of the count has a goroutine on its way that will use it or
\* pass it on.  It rests on nwait being raised before the second test of the
\* count and on the count being raised before nwait is read.
NoLostWakeup ==
    \A a \in Addr : list[a] # <<>> => sema[a] <= Cardinality(InFlight(a))

\* root.nwait counts the sleepers of every address plus the goroutine that is
\* between announcing itself and queueing (sema.go:43).
NwaitExact ==
    nwait = Cardinality({g \in Goroutine : \/ pc[g] \in {"check", "undo", "queue"}
                                           \/ \E a \in Addr : g \in Queued(a)})

\* "Every sleep is paired with a single wakeup" (sema.go:13-15): a goroutine
\* is the target of at most one releaser, and then it sleeps, off the lists and
\* without a ticket (the throw "corrupted semaphore ticket" is unreachable).
OneWakeup ==
    \A g \in Goroutine : pc[g] = "ready" =>
        /\ pc[s[g]] = "parked" /\ s[g] \notin Queued(arg[g]) /\ ticket[s[g]] = 0
        /\ \A h \in Goroutine \ {g} : s[h] # s[g]

\* The safety of sema.go in one invariant: a wakeup is neither lost nor sent
\* twice, and the unlocked reads of nwait are reads of an exact count.
SemaInv ==
    /\ TypeOK
    /\ NoLostWakeup
    /\ NwaitExact
    /\ OneWakeup

\* A count that can be taken does not stay next to a sleeper: either the count
\* is used up or the list empties.
WakeupHappens ==
    \A a \in Addr : (sema[a] > 0 /\ list[a] # <<>>) ~> (sema[a] = 0 \/ list[a] = <<>>)

-----------------------------------------------------------------------------
(* Refinement: the semaphore as its callers see it. *)

\* A waiter counts as asleep from the test that failed, made under the lock.
AbsWaitq ==
    [a \in Addr |->
        IF \E g \in Goroutine : pc[g] = "queue" /\ arg[g] = a
        THEN LET g == CHOOSE h \in Goroutine : pc[h] = "queue"
             IN  Enqueue(list[a], g, flag[g])
        ELSE list[a]]

AbsSudog ==
    [g \in Goroutine |->
        IF pc[g] = "queue" \/ \E a \in Addr : g \in Queued(a) THEN "queued"
        ELSE IF \E r \in Goroutine : s[r] = g /\ flag[r] THEN "picked"
        ELSE IF ticket[g] = 1 THEN "ticket" ELSE "none"]

\* A caller that took its unit under the lock, and a releaser without handoff
\* that has dequeued, have nothing left to do that anybody can see.
Finished(g) == pc[g] = "undo" \/ (pc[g] = "ready" /\ ~flag[g])

AbsCall ==
    [g \in Goroutine |->
        CASE pc[g] = "idle" \/ Finished(g) -> "idle"
          [] pc[g] \in {"easy", "lock", "check", "queue", "parked", "awake"} -> "acquire"
          [] pc[g] = "xadd" -> "xadd"
          [] pc[g] \in {"load", "rlock"} -> "dequeue"
          [] OTHER -> "handoff"]

AbsArg == [g \in Goroutine |-> IF Finished(g) THEN Nil ELSE arg[g]]
AbsFlag == [g \in Goroutine |-> IF Finished(g) THEN FALSE ELSE flag[g]]
AbsS == [g \in Goroutine |-> IF Finished(g) THEN Nil ELSE s[g]]

Abs == INSTANCE SemaphoreSpec WITH
           waitq <- AbsWaitq, sudog <- AbsSudog, call <- AbsCall,
           arg <- AbsArg, flag <- AbsFlag, s <- AbsS

\* Every step of the code is a step of the semaphore of module SemaphoreSpec
\* or is invisible to the callers.
ImplementsSemaphore == Abs!Spec
=============================================================================
