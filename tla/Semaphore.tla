----------------------------- MODULE Semaphore -----------------------------
(***************************************************************************)
(* The wait/wake primitive that runtime/sema.go gives to package sync, seen *)
(* from its callers: one count and one queue of sleeping goroutines per     *)
(* address.  The operators below are action fragments over sema, waitq and  *)
(* sudog; a client (Mutex, RWMutex, WaitGroup, ...) conjoins them with its  *)
(* own control.  SemaphoreSpec turns them into a specification of its own   *)
(* and Sema, the model of the code with its lock and its nwait counter, is  *)
(* shown to implement that specification.                                   *)
(*                                                                         *)
(* A waiter that was woken without a ticket is in exactly the position of   *)
(* a caller that has not slept yet, so both are "none".                     *)
(***************************************************************************)
EXTENDS Naturals, Sequences

CONSTANTS Goroutine,    \* goroutines that may sleep on a semaphore
          Addr          \* the addresses (*uint32) used as semaphores

VARIABLES sema,         \* sema[a]: the count stored at address a
          waitq,        \* waitq[a]: goroutines asleep on a, next to be woken first
          sudog         \* sudog[g]: where g's wait descriptor is

SudogState == {"none",      \* g has no descriptor in a queue, it must test the count
               "queued",    \* in waitq
               "picked",    \* dequeued by a releaser that may still hand off
               "ticket"}    \* handed off: s.ticket = 1

SemaInit ==
    /\ sema = [a \in Addr |-> 0]
    /\ waitq = [a \in Addr |-> <<>>]
    /\ sudog = [g \in Goroutine |-> "none"]

SemaTypeOK ==
    /\ sema \in [Addr -> Nat]
    /\ waitq \in [Addr -> Seq(Goroutine)]
    /\ sudog \in [Goroutine -> SudogState]

\* Take one unit; disabled when the count is zero.
cansemacquire(a) ==
    /\ sema[a] > 0
    /\ sema' = [sema EXCEPT ![a] = @ - 1]

\* g inserts its descriptor: at the head if lifo, else at the tail.
Enqueue(q, g, lifo) == IF lifo THEN <<g>> \o q ELSE Append(q, g)

\* semacquire1 returns: g holds a ticket or takes a unit of the count.
SemAcquired(g, a) ==
    /\ \/ sudog[g] = "ticket" /\ UNCHANGED sema
       \/ sudog[g] = "none" /\ cansemacquire(a)
    /\ sudog' = [sudog EXCEPT ![g] = "none"]
    /\ UNCHANGED waitq

\* semacquire1 finds no unit and goes to sleep.
SemSleep(g, a, lifo) ==
    /\ sudog[g] = "none"
    /\ sema[a] = 0
    /\ waitq' = [waitq EXCEPT ![a] = Enqueue(@, g, lifo)]
    /\ sudog' = [sudog EXCEPT ![g] = "queued"]
    /\ UNCHANGED sema

\* semrelease1, first half: publish the unit.
SemXadd(a) ==
    /\ sema' = [sema EXCEPT ![a] = @ + 1]
    /\ UNCHANGED <<waitq, sudog>>

\* semrelease1, second half: nobody sleeps on a ...
SemNoWaiter(a) ==
    /\ waitq[a] = <<>>
    /\ UNCHANGED <<sema, waitq, sudog>>

\* ... or the first waiter is dequeued.  Without handoff it is made runnable
\* as it is and competes for the unit.
SemDequeue(a, handoff) ==
    /\ waitq[a] # <<>>
    /\ waitq' = [waitq EXCEPT ![a] = Tail(@)]
    /\ sudog' = [sudog EXCEPT ![Head(waitq[a])] = IF handoff THEN "picked" ELSE "none"]
    /\ UNCHANGED sema

\* With handoff the releaser tries to take the unit back on behalf of the
\* dequeued waiter s, and makes s runnable whether that succeeds or not.
SemHandoff(s, a) ==
    /\ sudog[s] = "picked"
    /\ UNCHANGED waitq
    /\ \/ cansemacquire(a) /\ sudog' = [sudog EXCEPT ![s] = "ticket"]
       \/ sema[a] = 0 /\ sudog' = [sudog EXCEPT ![s] = "none"] /\ UNCHANGED sema
=============================================================================
