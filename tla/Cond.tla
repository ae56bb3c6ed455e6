-------------------------------- MODULE Cond --------------------------------
(***************************************************************************)
(* sync/cond.go over the notifyList of runtime/sema.go.  Wait takes a       *)
(* ticket while the caller holds c.L, unlocks, and enters the list only     *)
(* then; Signal and Broadcast may run at any time, with or without c.L.     *)
(*                                                                         *)
(* l.wait and l.notify are uint32 in the code and wrap around; here they    *)
(* are counters modulo Width.  l.lock protects the list and the writes of   *)
(* l.notify, while l.wait is raised and both are read without it.           *)
(***************************************************************************)
EXTENDS Integers, FiniteSets, SequencesExt

CONSTANTS Goroutine, Nil,
          Width         \* 2^32 in the code

ASSUME CondAssumption ==
    /\ IsFiniteSet(Goroutine) /\ Nil \notin Goroutine
    /\ Width \in Nat /\ Width % 2 = 0
    /\ 2 * Cardinality(Goroutine) < Width

VARIABLES wait, notify, \* ticket counters
          lock,         \* holder of l.lock, or Nil
          list,         \* parked waiters, head first
          pc,
          ticket,       \* ticket[g]: what notifyListAdd returned to g
          w,            \* w[g]: the value of l.wait that g has loaded
          batch,        \* batch[g]: waiters that g has taken off the list to ready
          owner,        \* owner of c.L
          waiting,      \* goroutines whose ticket has not been notified, whatever the
                        \* counters make of it; this and the next are auxiliary
          before        \* before[g]: goroutines that waited when g called Signal or
                        \* Broadcast and have not been notified since

L == INSTANCE Locker WITH reserved <- FALSE, waiting <- {}

shared == <<wait, notify, lock, list>>
locals == <<ticket, w, batch>>
history == <<waiting, before>>
vars == <<shared, pc, locals, owner, history>>

PC == {"idle", "held",                                  \* outside, and holding c.L
       "unlock", "enter", "parked", "relock",           \* Wait
       "one", "one2", "onelock", "oneready",            \* Signal
       "all", "all2", "alllock", "allstore", "allready"}    \* Broadcast

Uint == 0..(Width - 1)

TypeOK ==
    /\ wait \in Uint /\ notify \in Uint
    /\ lock \in Goroutine \cup {Nil}
    /\ list \in Seq(Goroutine)
    /\ pc \in [Goroutine -> PC]
    /\ ticket \in [Goroutine -> Uint]
    /\ w \in [Goroutine -> Uint]
    /\ batch \in [Goroutine -> Seq(Goroutine)]
    /\ owner \in Goroutine \cup {Nil}
    /\ waiting \in SUBSET Goroutine
    /\ before \in [Goroutine -> SUBSET Goroutine]

Init ==
    /\ wait = 0 /\ notify = 0
    /\ lock = Nil
    /\ list = <<>>
    /\ pc = [g \in Goroutine |-> "idle"]
    /\ ticket = [g \in Goroutine |-> 0]
    /\ w = [g \in Goroutine |-> 0]
    /\ batch = [g \in Goroutine |-> <<>>]
    /\ L!Init
    /\ waiting = {}
    /\ before = [g \in Goroutine |-> {}]

Goto(g, l) == pc' = [pc EXCEPT ![g] = l]

\* x++ on a uint32
Inc(x) == (x + 1) % Width

\* Mutant of less: the counters are compared as they are.
lessPlain(a, b) == a < b

\* int32(a-b) < 0
less(a, b) == (a - b) % Width >= Width \div 2

\* Where a call of Signal or Broadcast goes back to.
Outside(g) == IF owner = g THEN "held" ELSE "idle"

-----------------------------------------------------------------------------
(* The auxiliary variables *)

\* notify moves up to its new value: the tickets in between are notified.
Notified == {g \in waiting : (ticket[g] - notify) % Width < (notify' - notify) % Width}

NoteNotify ==
    /\ waiting' = waiting \ Notified
    /\ before' = [g \in Goroutine |-> before[g] \ Notified]

NoteCall(g) ==
    /\ before' = [before EXCEPT ![g] = waiting]
    /\ UNCHANGED waiting

NoteReturn(g) ==
    /\ before' = [before EXCEPT ![g] = {}]
    /\ UNCHANGED waiting

-----------------------------------------------------------------------------
(* c.L, used by the callers *)

Lock(g) ==
    /\ pc[g] = "idle"
    /\ L!Acquire(g)
    /\ Goto(g, "held")
    /\ UNCHANGED <<shared, locals, history>>

Unlock(g) ==
    /\ pc[g] = "held"
    /\ L!Release(g)
    /\ Goto(g, "idle")
    /\ UNCHANGED <<shared, locals, history>>

-----------------------------------------------------------------------------
(* Wait *)

\* Bound: nobody is held up between notifyListAdd and notifyListWait while half
\* the range of tickets goes by.
InWindow ==
    \A g \in Goroutine :
        pc[g] \in {"unlock", "enter"} => (wait - ticket[g]) % Width < Width \div 2

\* t := l.wait.Add(1) - 1
Wait(g) ==
    /\ pc[g] = "held"
    /\ ticket' = [ticket EXCEPT ![g] = wait]
    /\ wait' = Inc(wait)
    /\ Goto(g, "unlock")
    /\ waiting' = waiting \cup {g}
    /\ UNCHANGED <<notify, lock, list, w, batch, owner, before>>

\* c.L.Unlock()
WaitUnlock(g) ==
    /\ pc[g] = "unlock"
    /\ L!Release(g)
    /\ Goto(g, "enter")
    /\ UNCHANGED <<shared, locals, history>>

\* Mutant of NotifyListWait: the ticket is not compared with l.notify.
NotifyListWaitParks(g) ==
    /\ pc[g] = "enter"
    /\ lock = Nil
    /\ list' = Append(list, g)
    /\ Goto(g, "parked")
    /\ UNCHANGED <<wait, notify, lock, locals, owner, history>>

\* notifyListWait, under l.lock: notified already, or park.
NotifyListWait(g) ==
    /\ pc[g] = "enter"
    /\ lock = Nil
    /\ \/ less(ticket[g], notify) /\ Goto(g, "relock") /\ UNCHANGED list
       \/ ~less(ticket[g], notify) /\ list' = Append(list, g) /\ Goto(g, "parked")
    /\ UNCHANGED <<wait, notify, lock, locals, owner, history>>

\* c.L.Lock(), then Wait returns.
WaitRelock(g) ==
    /\ pc[g] = "relock"
    /\ L!Acquire(g)
    /\ Goto(g, "held")
    /\ ticket' = [ticket EXCEPT ![g] = 0]
    /\ UNCHANGED <<shared, w, batch, history>>

-----------------------------------------------------------------------------
(* Signal and Broadcast *)

Call(g, l) ==
    /\ pc[g] \in {"idle", "held"}
    /\ Goto(g, l)
    /\ NoteCall(g)
    /\ UNCHANGED <<shared, locals, owner>>

Signal(g) == Call(g, "one")
Broadcast(g) == Call(g, "all")

\* The fast path reads l.wait ...
LoadWait(g) ==
    /\ pc[g] \in {"one", "all"}
    /\ w' = [w EXCEPT ![g] = wait]
    /\ Goto(g, IF pc[g] = "one" THEN "one2" ELSE "all2")
    /\ UNCHANGED <<shared, ticket, batch, owner, history>>

\* Mutant of LoadNotify: the fast path looks at the list instead.
LoadNotifyLooksAtList(g) ==
    /\ pc[g] \in {"one2", "all2"}
    /\ \/ list = <<>> /\ Goto(g, Outside(g)) /\ NoteReturn(g)
       \/ /\ list # <<>>
          /\ Goto(g, IF pc[g] = "one2" THEN "onelock" ELSE "alllock")
          /\ UNCHANGED history
    /\ w' = [w EXCEPT ![g] = 0]
    /\ UNCHANGED <<shared, ticket, batch, owner>>

\* ... and then l.notify: if they are equal there is nothing to do.
LoadNotify(g) ==
    /\ pc[g] \in {"one2", "all2"}
    /\ \/ w[g] = notify /\ Goto(g, Outside(g)) /\ NoteReturn(g)
       \/ /\ w[g] # notify
          /\ Goto(g, IF pc[g] = "one2" THEN "onelock" ELSE "alllock")
          /\ UNCHANGED history
    /\ w' = [w EXCEPT ![g] = 0]
    /\ UNCHANGED <<shared, ticket, batch, owner>>

\* Entry k of the list has ticket t, and none before it has.
Finds(k, t) == ticket[list[k]] = t /\ \A j \in 1..(k - 1) : ticket[list[j]] # t

\* The scan of the list: the goroutine with ticket t leaves it, unless it has not
\* made it to the list yet.
Scan(g, t) ==
    \/ \E k \in DOMAIN list :
          /\ Finds(k, t)
          /\ batch' = [batch EXCEPT ![g] = <<list[k]>>]
          /\ list' = RemoveAt(list, k)
    \/ /\ \A k \in DOMAIN list : ticket[list[k]] # t
       /\ UNCHANGED <<batch, list>>

\* notifyListNotifyOne under l.lock.
NotifyOne(g) ==
    /\ pc[g] = "onelock"
    /\ lock = Nil
    /\ \/ notify = wait /\ Goto(g, Outside(g)) /\ NoteReturn(g) /\ UNCHANGED <<notify, list, batch>>
       \/ /\ notify # wait
          /\ notify' = Inc(notify)
          /\ NoteNotify
          /\ Scan(g, notify)
          /\ Goto(g, "oneready")
    /\ UNCHANGED <<wait, lock, ticket, w, owner>>

\* notifyListNotifyAll under l.lock: take the list, read l.wait ...
NotifyAll(g) ==
    /\ pc[g] = "alllock"
    /\ lock = Nil
    /\ lock' = g
    /\ batch' = [batch EXCEPT ![g] = list]
    /\ list' = <<>>
    /\ w' = [w EXCEPT ![g] = wait]
    /\ Goto(g, "allstore")
    /\ UNCHANGED <<wait, notify, ticket, owner, history>>

\* ... store it to l.notify and unlock.
NotifyAllStore(g) ==
    /\ pc[g] = "allstore"
    /\ notify' = w[g]
    /\ lock' = Nil
    /\ Goto(g, "allready")
    /\ NoteNotify
    /\ w' = [w EXCEPT ![g] = 0]
    /\ UNCHANGED <<wait, list, ticket, batch, owner>>

\* readyWithTime, outside l.lock, for each goroutine taken off the list.
Ready(g) ==
    /\ pc[g] \in {"oneready", "allready"}
    /\ batch[g] # <<>>
    /\ Goto(Head(batch[g]), "relock")
    /\ batch' = [batch EXCEPT ![g] = Tail(@)]
    /\ UNCHANGED <<shared, ticket, w, owner, history>>

Return(g) ==
    /\ pc[g] \in {"oneready", "allready"}
    /\ batch[g] = <<>>
    /\ Goto(g, Outside(g))
    /\ NoteReturn(g)
    /\ UNCHANGED <<shared, locals, owner>>

-----------------------------------------------------------------------------
WaitStep(g) == WaitUnlock(g) \/ NotifyListWait(g) \/ WaitRelock(g)

NotifyStep(g) ==
    \/ LoadWait(g) \/ LoadNotify(g) \/ NotifyOne(g) \/ NotifyAll(g) \/ NotifyAllStore(g)
    \/ Ready(g) \/ Return(g)

Step(g) ==
    \/ Lock(g) \/ Unlock(g) \/ Signal(g) \/ Broadcast(g)
    \/ WaitStep(g) \/ NotifyStep(g)

Next == \E g \in Goroutine : Step(g) \/ (InWindow /\ Wait(g))

Spec == Init /\ [][Next]_vars

\* A goroutine inside Signal, Broadcast or Wait keeps running unless it is
\* parked, waits for l.lock, or has to get c.L back.
FairSpec ==
    Spec /\ \A g \in Goroutine :
        WF_vars(WaitUnlock(g)) /\ SF_vars(NotifyListWait(g)) /\ WF_vars(NotifyStep(g))

-----------------------------------------------------------------------------
(* Properties *)

\* The two counters agree with the waiters, across the wraparound.
TicketsExact == (wait - notify) % Width = Cardinality(waiting)

\* "Wait cannot return unless awoken by Broadcast or Signal" (cond.go:54-55).
NoSpuriousWakeup == \A g \in waiting : pc[g] \in {"unlock", "enter", "parked"}

\* A goroutine stays on the list only while it has not been notified, and one
\* that is off the list has exactly one goroutine about to ready it.
NobodyForgotten ==
    /\ \A g \in ToSet(list) : pc[g] = "parked" /\ g \in waiting
    /\ \A g \in Goroutine : pc[g] = "parked" /\ g \notin ToSet(list) =>
          Cardinality({h \in Goroutine : g \in ToSet(batch[h])}) = 1

\* Counters, list and goroutines agree across the wraparound: who is parked has
\* not been notified or is about to be readied, and nobody else is woken.
CondInv ==
    /\ TypeOK
    /\ TicketsExact
    /\ NoSpuriousWakeup
    /\ NobodyForgotten

Returns(g, from) == pc[g] \in from /\ pc'[g] \in {"idle", "held"}

\* No notification is lost.  A Signal that returns without notifying anybody was
\* not needed: whoever waited when it was called has been notified meanwhile.
\* Broadcast returns only when everybody who waited at its call has been notified.
NotificationNotLost ==
    [][\A g \in Goroutine :
          Returns(g, {"one2", "onelock", "all2", "allready"}) => before[g] = {}]_vars

\* A notified waiter gets to run, whenever it was notified between taking its
\* ticket and parking.
NotifiedRuns ==
    \A g \in Goroutine :
        (pc[g] \in {"unlock", "enter", "parked"} /\ g \notin waiting) ~> pc[g] = "relock"
=============================================================================
