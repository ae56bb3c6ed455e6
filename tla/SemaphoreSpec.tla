--------------------------- MODULE SemaphoreSpec ---------------------------
(***************************************************************************)
(* What runtime/sema.go promises: goroutines that call semacquire and       *)
(* semrelease on any of the addresses, each call made of the indivisible    *)
(* steps of module Semaphore.                                               *)
(***************************************************************************)
EXTENDS Semaphore

CONSTANT Nil            \* no address, no goroutine

VARIABLES call,         \* call[g]: the step of the call g is in
          arg,          \* arg[g]: its address
          flag,         \* flag[g]: lifo of semacquire1, handoff of semrelease1
          s             \* s[g]: the waiter a releaser has dequeued

specVars == <<sema, waitq, sudog, call, arg, flag, s>>

SpecInit ==
    /\ SemaInit
    /\ call = [g \in Goroutine |-> "idle"]
    /\ arg = [g \in Goroutine |-> Nil]
    /\ flag = [g \in Goroutine |-> FALSE]
    /\ s = [g \in Goroutine |-> Nil]

Begin(g, a, f, step) ==
    /\ call[g] = "idle"
    /\ call' = [call EXCEPT ![g] = step]
    /\ arg' = [arg EXCEPT ![g] = a]
    /\ flag' = [flag EXCEPT ![g] = f]
    /\ UNCHANGED <<sema, waitq, sudog, s>>

Return(g) ==
    /\ call' = [call EXCEPT ![g] = "idle"]
    /\ arg' = [arg EXCEPT ![g] = Nil]
    /\ flag' = [flag EXCEPT ![g] = FALSE]
    /\ s' = [s EXCEPT ![g] = Nil]

Acquire(g) ==
    /\ call[g] = "acquire"
    /\ \/ SemAcquired(g, arg[g]) /\ Return(g)
       \/ SemSleep(g, arg[g], flag[g]) /\ UNCHANGED <<call, arg, flag, s>>

Xadd(g) ==
    /\ call[g] = "xadd"
    /\ SemXadd(arg[g])
    /\ call' = [call EXCEPT ![g] = "dequeue"]
    /\ UNCHANGED <<arg, flag, s>>

Dequeue(g) ==
    /\ call[g] = "dequeue"
    /\ \/ SemNoWaiter(arg[g]) /\ Return(g)
       \/ ~flag[g] /\ SemDequeue(arg[g], FALSE) /\ Return(g)
       \/ /\ flag[g]
          /\ SemDequeue(arg[g], TRUE)
          /\ call' = [call EXCEPT ![g] = "handoff"]
          /\ s' = [s EXCEPT ![g] = Head(waitq[arg[g]])]
          /\ UNCHANGED <<arg, flag>>

Handoff(g) ==
    /\ call[g] = "handoff"
    /\ SemHandoff(s[g], arg[g])
    /\ Return(g)

SpecNext ==
    \E g \in Goroutine :
        \/ \E a \in Addr, f \in BOOLEAN, step \in {"acquire", "xadd"} : Begin(g, a, f, step)
        \/ Acquire(g) \/ Xadd(g) \/ Dequeue(g) \/ Handoff(g)

Spec == SpecInit /\ [][SpecNext]_specVars
=============================================================================
