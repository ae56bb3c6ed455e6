----------------------------- MODULE Descriptor -----------------------------
(***************************************************************************)
(* What internal/poll promises about a file descriptor: operations use it   *)
(* only from before it is closed, one reads and one writes at a time, and   *)
(* the system's descriptor is destroyed once, after the last use, so that   *)
(* no operation meets another file under the same number.  FdMutex          *)
(* implements this specification.                                           *)
(***************************************************************************)
CONSTANTS Goroutine, Mode

VARIABLES phase,        \* "open", "closing" (no new uses) or "destroyed"
          users,        \* goroutines that use the descriptor
          owner         \* owner[m]: who has the lock of mode m: a set of at most one

vars == <<phase, users, owner>>

Init ==
    /\ phase = "open"
    /\ users = {}
    /\ owner = [m \in Mode |-> {}]

Use(g) ==
    /\ phase = "open"
    /\ g \notin users
    /\ users' = users \cup {g}
    /\ UNCHANGED <<phase, owner>>

UseLocked(g, m) ==
    /\ phase = "open"
    /\ g \notin users
    /\ owner[m] = {}
    /\ users' = users \cup {g}
    /\ owner' = [owner EXCEPT ![m] = {g}]
    /\ UNCHANGED phase

Leave(g) ==
    /\ g \in users
    /\ users' = users \ {g}
    /\ owner' = [m \in Mode |-> owner[m] \ {g}]
    /\ UNCHANGED phase

\* The closing goroutine uses the descriptor until it has woken the others.
Close(g) ==
    /\ phase = "open"
    /\ phase' = "closing"
    /\ users' = users \cup {g}
    /\ UNCHANGED owner

Destroy ==
    /\ phase = "closing"
    /\ users = {}
    /\ phase' = "destroyed"
    /\ UNCHANGED <<users, owner>>

Next ==
    \/ Destroy
    \/ \E g \in Goroutine :
          \/ Use(g)
          \/ \E m \in Mode : UseLocked(g, m)
          \/ Leave(g)
          \/ Close(g)

Spec == Init /\ [][Next]_vars
=============================================================================
