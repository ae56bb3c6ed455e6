------------------------------- MODULE Locker -------------------------------
(***************************************************************************)
(* What a sync.Locker promises its users: at most one owner, and only the   *)
(* owner, or the goroutine it arranged to unlock, gives the lock back.  The *)
(* owner may keep it for those who are registered as waiting: whoever       *)
(* arrives later, with Lock or TryLock, does not get it before one of them  *)
(* has.  Mutex implements this specification; RWMutex and Cond use the      *)
(* owner, which is all they can see of it, for the lock they contain.       *)
(***************************************************************************)
CONSTANTS Goroutine, Nil

VARIABLES owner,        \* the goroutine that will unlock, or Nil
          reserved,     \* the lock is free, but only for one of the waiting
          waiting       \* the goroutines that are registered

vars == <<owner, reserved, waiting>>

Init == owner = Nil /\ reserved = FALSE /\ waiting = {}

\* Nobody is passed over who has a right to the lock.
Acquire(g) ==
    /\ owner = Nil /\ ~reserved
    /\ owner' = g
    /\ reserved' = reserved /\ waiting' = waiting

\* There is a reason to wait.
Register(g) ==
    /\ owner # Nil \/ reserved
    /\ waiting' = waiting \cup {g}
    /\ UNCHANGED <<owner, reserved>>

\* A waiter competes again for a lock that is not reserved.
Withdraw(g) ==
    /\ g \in waiting /\ ~reserved
    /\ waiting' = waiting \ {g}
    /\ UNCHANGED <<owner, reserved>>

Release(g) ==
    /\ owner = g
    /\ owner' = Nil
    /\ reserved' = reserved /\ waiting' = waiting

\* The owner keeps the lock for the waiters; there is one.
Handoff(g) ==
    /\ owner = g /\ waiting # {}
    /\ owner' = Nil /\ reserved' = TRUE
    /\ UNCHANGED waiting

\* One of them takes it.
Take(g) ==
    /\ reserved /\ g \in waiting
    /\ owner' = g /\ reserved' = FALSE
    /\ waiting' = waiting \ {g}

Transfer(g, h) ==
    /\ owner = g /\ h \notin waiting
    /\ owner' = h
    /\ reserved' = reserved /\ waiting' = waiting

Next ==
    \/ \E g \in Goroutine :
          Acquire(g) \/ Register(g) \/ Withdraw(g) \/ Release(g) \/ Handoff(g) \/ Take(g)
    \/ \E g, h \in Goroutine : Transfer(g, h)

Spec == Init /\ [][Next]_vars
=============================================================================
