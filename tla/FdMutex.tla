------------------------------ MODULE FdMutex ------------------------------
(***************************************************************************)
(* internal/poll/fd_mutex.go and the life of a descriptor in fd_unix.go:    *)
(* one word holds the closed flag, a lock for reads and one for writes, the *)
(* number of references and the numbers of waiters; waiters sleep on rsema  *)
(* and wsema, Close on csema.                                               *)
(*                                                                         *)
(* The word is kept as its fields, which every action reads and writes      *)
(* together: each CAS loop of the code is one step, because it computes     *)
(* nothing but the new word between the load and the CAS that succeeds.     *)
(***************************************************************************)
EXTENDS Integers, Sequences, FiniteSets

CONSTANTS Goroutine,
          MaxCount      \* the largest number a counter of the word holds

ASSUME FdMutexAssumption == IsFiniteSet(Goroutine) /\ MaxCount \in Nat \ {0}

VARIABLES closed,       \* fdmu.state: mutexClosed
          locked,       \* mutexRLock, mutexWLock
          ref,          \* references
          wait,         \* outstanding waiters
          isBlocking, evicted, sysfd,   \* of FD, of its pollDesc, and FD.Sysfd
          pc,
          kind,         \* kind[g]: the operation
          mode,         \* mode[g]: the lock it deals with
          last,         \* last[g]: rwunlock or decref found no reference left
          rel,          \* rel[g]: units that g has yet to release
          overflowed,   \* auxiliary: rwlock has panicked for want of a reference
          sema, waitq, sudog

Mode == {"r", "w"}
csema == "c"

INSTANCE Semaphore WITH Addr <- {"r", "w", "c"}

sem == <<sema, waitq, sudog>>
word == <<closed, locked, ref, wait>>
vars == <<closed, locked, ref, wait, isBlocking, evicted, sysfd, pc, kind, mode, last,
          rel, overflowed, sema, waitq, sudog>>

PC == {"idle", "lock", "sleep", "use", "unlock", "incref", "close", "release", "dequeue",
       "evict", "decref", "destroy", "signal", "signalled", "closewait", "panic"}

\* On Unix an operation locks one side; readWriteLock is used on Windows.
Kind == {"read", "write", "misc", "close"}
AllKinds == Kind \cup {"readwrite"}

None == [m \in Mode |-> 0]

Init ==
    /\ closed = FALSE
    /\ locked = [m \in Mode |-> FALSE]
    /\ ref = 0
    /\ wait = None
    /\ isBlocking = FALSE /\ evicted = FALSE /\ sysfd = "open"
    /\ pc = [g \in Goroutine |-> "idle"]
    /\ kind = [g \in Goroutine |-> "misc"]
    /\ mode = [g \in Goroutine |-> "r"]
    /\ last = [g \in Goroutine |-> FALSE]
    /\ rel = [g \in Goroutine |-> None]
    /\ overflowed = FALSE
    /\ SemaInit

Goto(g, l) ==
    /\ pc' = [pc EXCEPT ![g] = l]
    /\ kind' = IF l = "idle" THEN [kind EXCEPT ![g] = "misc"] ELSE kind

Call(g, k) ==
    /\ pc[g] = "idle"
    /\ kind' = [kind EXCEPT ![g] = k]
    /\ mode' = [mode EXCEPT ![g] = IF k = "write" THEN "w" ELSE "r"]
    /\ pc' = [pc EXCEPT ![g] = CASE k = "misc" -> "incref"
                                 [] k = "close" -> "close"
                                 [] OTHER -> "lock"]
    /\ UNCHANGED <<closed, locked, ref, wait, overflowed, isBlocking, evicted, sysfd, last, rel, sem>>

-----------------------------------------------------------------------------
\* A counter about to overflow makes the call panic, which leaves the word alone.
Overflows(n) == n = MaxCount

\* A call that fails, or panics because of an overflow, returns.
Fails(g) == Goto(g, "idle") /\ UNCHANGED <<mode, closed, locked, ref, wait>>

incref(g) ==
    /\ pc[g] = "incref"
    /\ \/ (closed \/ Overflows(ref)) /\ Fails(g)
       \/ /\ ~closed /\ ~Overflows(ref)
          /\ ref' = ref + 1
          /\ Goto(g, "use")
          /\ UNCHANGED <<closed, locked, wait, mode>>
    /\ UNCHANGED <<overflowed, isBlocking, evicted, sysfd, last, rel, sem>>

Free(m) == ~locked[m]

\* rwlock: fail, take the lock, or join the waiters.  readWriteLock goes on to
\* lock the other side; when that fails it returns the error at once.
rwlock(g) ==
    LET m == mode[g] IN
    /\ pc[g] = "lock"
    /\ \/ /\ closed \/ (~Free(m) /\ Overflows(wait[m]))
          /\ Fails(g)
          /\ UNCHANGED overflowed
       \/ /\ ~closed /\ Free(m) /\ Overflows(ref)
          /\ Fails(g)
          /\ overflowed' = TRUE
       \/ /\ ~closed /\ Free(m) /\ ~Overflows(ref)
          /\ locked' = [locked EXCEPT ![m] = TRUE]
          /\ ref' = ref + 1
          /\ IF kind[g] = "readwrite" /\ m = "r"
             THEN mode' = [mode EXCEPT ![g] = "w"] /\ Goto(g, "lock")
             ELSE /\ mode' = [mode EXCEPT ![g] = IF kind[g] = "readwrite" THEN "r" ELSE m]
                  /\ Goto(g, "use")
          /\ UNCHANGED <<closed, wait, overflowed>>
       \/ /\ ~closed /\ ~Free(m) /\ ~Overflows(wait[m])
          /\ wait' = [wait EXCEPT ![m] = @ + 1]
          /\ Goto(g, "sleep")
          /\ UNCHANGED <<closed, locked, ref, mode, overflowed>>
    /\ UNCHANGED <<isBlocking, evicted, sysfd, last, rel, sem>>

\* runtime_Semacquire(mutexSema); the signaller has subtracted mutexWait.
Semacquire(g) ==
    /\ pc[g] = "sleep"
    /\ \/ SemSleep(g, mode[g], FALSE) /\ UNCHANGED <<pc, kind>>
       \/ SemAcquired(g, mode[g]) /\ Goto(g, "lock")
    /\ UNCHANGED <<closed, locked, ref, wait, overflowed, isBlocking, evicted, sysfd, mode, last, rel>>

\* Mutant: whether the descriptor is closed is not looked at
IsLastOpen(n) == n = 0
\* Mutant: the word before the subtraction is tested
IsLastOld(n) == closed /\ ref = 0
\* The last reference to a closed descriptor is gone.
IsLast(n) == closed /\ n = 0

\* Mutant: a waiter is subtracted but not woken
UnitsForgotten(m) == None
\* The unit that an unlock owes to the waiter it has subtracted.
Units(m) == [x \in Mode |-> IF x = m /\ wait[m] > 0 THEN 1 ELSE 0]

\* rwunlock: drop the lock and a reference, and one waiter.
rwunlock(g) ==
    LET m == mode[g] IN
    /\ pc[g] \in {"use", "unlock"}
    /\ kind[g] \in {"read", "write", "readwrite"}
    /\ IF ~locked[m] \/ ref = 0
       THEN Goto(g, "panic") /\ UNCHANGED <<locked, ref, wait, last, rel>>
       ELSE /\ locked' = [locked EXCEPT ![m] = FALSE]
            /\ ref' = ref - 1
            /\ wait' = [wait EXCEPT ![m] = IF @ > 0 THEN @ - 1 ELSE 0]
            /\ rel' = [rel EXCEPT ![g] = Units(m)]
            /\ last' = [last EXCEPT ![g] = IsLast(ref - 1)]
            /\ Goto(g, "release")
    /\ UNCHANGED <<closed, overflowed, isBlocking, evicted, sysfd, mode, sem>>

\* SetBlocking, while it has its reference.
SetBlocking(g) ==
    /\ pc[g] = "use"
    /\ kind[g] = "misc"
    /\ isBlocking' = TRUE
    /\ UNCHANGED <<closed, locked, ref, wait, overflowed, evicted, sysfd, pc, kind, mode, last, rel, sem>>

decref(g) ==
    /\ pc[g] = IF kind[g] = "misc" THEN "use" ELSE "decref"
    /\ IF ref = 0
       THEN Goto(g, "panic") /\ UNCHANGED <<ref, last>>
       ELSE /\ ref' = ref - 1
            /\ last' = [last EXCEPT ![g] = IsLast(ref - 1)]
            /\ Goto(g, "release")
    /\ UNCHANGED <<closed, locked, wait, overflowed, isBlocking, evicted, sysfd, mode, rel, sem>>

\* Mutant: the waiters are woken but keep being counted
waitKept == wait
\* Close takes all waiters out of the word ...
waitCleared == None

increfAndClose(g) ==
    /\ pc[g] = "close"
    /\ \/ (closed \/ Overflows(ref)) /\ Fails(g) /\ UNCHANGED rel
       \/ /\ ~closed /\ ~Overflows(ref)
          /\ closed' = TRUE
          /\ ref' = ref + 1
          /\ wait' = waitCleared
          /\ rel' = [rel EXCEPT ![g] = wait]
          /\ Goto(g, "release")
          /\ UNCHANGED <<locked, mode>>
    /\ UNCHANGED <<overflowed, isBlocking, evicted, sysfd, last, sem>>

\* ... and wakes them one by one, readers first.
Semrelease(g) ==
    /\ pc[g] = "release"
    /\ rel[g] # None
    /\ LET m == IF rel[g]["r"] > 0 THEN "r" ELSE "w"
       IN  SemXadd(m) /\ mode' = [mode EXCEPT ![g] = IF kind[g] = "close" THEN m ELSE @]
    /\ Goto(g, "dequeue")
    /\ UNCHANGED <<closed, locked, ref, wait, overflowed, isBlocking, evicted, sysfd, last, rel>>
SemreleaseDequeue(g) ==
    /\ pc[g] = "dequeue"
    /\ SemNoWaiter(mode[g]) \/ SemDequeue(mode[g], FALSE)
    /\ rel' = [rel EXCEPT ![g][mode[g]] = @ - 1]
    /\ Goto(g, "release")
    /\ UNCHANGED <<closed, locked, ref, wait, overflowed, isBlocking, evicted, sysfd, mode, last>>

\* Mutant: Close returns as soon as it has dropped its own reference
NeverWaits == FALSE
\* Close waits for the descriptor to be destroyed, unless I/O may block.
CloseWaits == ~isBlocking

\* After the last unit: Close evicts the descriptor from the poller before its
\* decref; whoever dropped the last reference destroys the descriptor;
\* readWriteUnlock unlocks the other side.
Released(g) ==
    /\ pc[g] = "release"
    /\ rel[g] = None
    /\ mode' = [mode EXCEPT ![g] = IF kind[g] = "readwrite" THEN "w" ELSE @]
    /\ Goto(g, IF kind[g] = "readwrite" /\ mode[g] = "r" THEN "unlock"
               ELSE IF last[g] THEN "destroy"
               ELSE IF kind[g] = "close" /\ ~evicted THEN "evict"
               ELSE IF kind[g] = "close" /\ CloseWaits THEN "closewait"
               ELSE "idle")
    /\ UNCHANGED <<closed, locked, ref, wait, overflowed, isBlocking, evicted, sysfd, last, rel, sem>>

\* pd.evict unblocks the I/O under way.
Evict(g) ==
    /\ pc[g] = "evict"
    /\ evicted' = TRUE
    /\ Goto(g, "decref")
    /\ UNCHANGED <<closed, locked, ref, wait, overflowed, isBlocking, sysfd, mode, last, rel, sem>>

destroy(g) ==
    /\ pc[g] = "destroy"
    /\ sysfd' = "destroyed"
    /\ last' = [last EXCEPT ![g] = FALSE]
    /\ Goto(g, "signal")
    /\ UNCHANGED <<closed, locked, ref, wait, overflowed, isBlocking, evicted, mode, rel, sem>>

\* runtime_Semrelease(&fd.csema)
Signal(g) ==
    /\ \/ pc[g] = "signal" /\ SemXadd(csema) /\ Goto(g, "signalled")
       \/ /\ pc[g] = "signalled"
          /\ SemNoWaiter(csema) \/ SemDequeue(csema, FALSE)
          /\ Goto(g, IF kind[g] = "close" /\ CloseWaits THEN "closewait" ELSE "idle")
    /\ UNCHANGED <<closed, locked, ref, wait, overflowed, isBlocking, evicted, sysfd, mode, last, rel>>

CloseWait(g) ==
    /\ pc[g] = "closewait"
    /\ \/ SemSleep(g, csema, FALSE) /\ UNCHANGED <<pc, kind>>
       \/ SemAcquired(g, csema) /\ Goto(g, "idle")
    /\ UNCHANGED <<closed, locked, ref, wait, overflowed, isBlocking, evicted, sysfd, mode, last, rel>>

Step(g) ==
    \/ incref(g)
    \/ rwlock(g)
    \/ Semacquire(g)
    \/ increfAndClose(g)
    \/ Semrelease(g)
    \/ SemreleaseDequeue(g)
    \/ Released(g)
    \/ Evict(g)
    \/ destroy(g)
    \/ Signal(g)
    \/ CloseWait(g)

Leave(g) == rwunlock(g) \/ decref(g)

Operation(g) == Step(g) \/ Leave(g) \/ SetBlocking(g)

Next == \E g \in Goroutine : Operation(g) \/ \E k \in Kind : Call(g, k)

Spec == Init /\ [][Next]_vars

\* With readWriteLock, as on Windows.
NextRW == \E g \in Goroutine : Operation(g) \/ \E k \in AllKinds : Call(g, k)
SpecRW == Init /\ [][NextRW]_vars

\* A goroutine in a call keeps running; an operation on the descriptor ends
\* once it has been evicted from the poller, unless its system calls block.
FairSpec ==
    /\ Spec
    /\ \A g \in Goroutine :
          /\ WF_vars(Step(g))
          /\ WF_vars((pc[g] # "use" \/ (evicted /\ ~isBlocking)) /\ Leave(g))

-----------------------------------------------------------------------------
(***************************************************************************)
(* Properties.                                                              *)
(***************************************************************************)

At(S) == {g \in Goroutine : pc[g] \in S}

\* Goroutines that have a reference: they use the descriptor, or close it and
\* have not dropped theirs.
Users == At({"use"}) \cup At({"evict", "decref"})
         \cup {g \in At({"release", "dequeue"}) : kind[g] = "close" /\ ~evicted}
Holders(m) == {g \in At({"use"}) : kind[g] = (IF m = "r" THEN "read" ELSE "write")}

\* The fields of the word keep their ranges: no counter carries into the next.
TypeOK ==
    /\ {closed, isBlocking, evicted, overflowed} \subseteq BOOLEAN
    /\ locked \in [Mode -> BOOLEAN]
    /\ ref \in 0..MaxCount
    /\ wait \in [Mode -> 0..MaxCount]
    /\ sysfd \in {"open", "destroyed"}
    /\ pc \in [Goroutine -> PC]
    /\ kind \in [Goroutine -> AllKinds]
    /\ mode \in [Goroutine -> Mode]
    /\ last \in [Goroutine -> BOOLEAN]
    /\ rel \in [Goroutine -> [Mode -> 0..MaxCount]]
    /\ SemaTypeOK

\* The word counts exactly the references and the locks that goroutines have; the
\* panics of rwunlock and decref ("inconsistent poll.fdMutex") are dead code.
WordExact ==
    /\ \A g \in Goroutine : pc[g] # "panic"
    /\ ref = Cardinality(Users)
    /\ \A m \in Mode : Cardinality(Holders(m)) = IF locked[m] THEN 1 ELSE 0

\* Units of m that g has still to post: the one it is at work on is posted.
Unposted(g, m) == rel[g][m] - IF pc[g] = "dequeue" /\ mode[g] = m THEN 1 ELSE 0

\* The units of m on their way to the semaphore, one pair for each.
Due(m) == {u \in Goroutine \X (1..MaxCount) : u[2] <= Unposted(u[1], m)}

\* Every goroutine that announced itself as a waiter is matched by what will wake
\* it: it is still counted, or a unit was posted, or somebody is about to post
\* one.  So Close, which zeroes the counts, forgets nobody, and no unit is left
\* over to wake a later waiter for nothing.
WaitersMatched ==
    \A m \in Mode :
        Cardinality({g \in At({"sleep"}) : mode[g] = m})
            = wait[m] + sema[m] + Cardinality(Due(m))

\* Implements the life cycle of module Descriptor: no use begins after close, and
\* the descriptor is destroyed once, when nobody uses it.
LifeCycle == INSTANCE Descriptor WITH
    phase <- IF sysfd = "destroyed" THEN "destroyed" ELSE IF closed THEN "closing" ELSE "open",
    users <- Users,
    owner <- [m \in Mode |-> Holders(m)]
ImplementsDescriptor == LifeCycle!Spec

\* A closed descriptor that nobody uses any more is destroyed: the goroutine that
\* dropped the last reference noticed.
ClosedIsDestroyed ==
    (closed /\ \A g \in Goroutine : pc[g] \in {"idle", "closewait"}) => sysfd = "destroyed"

\* A lock that is free is not waited for: with a sleeper there is a unit, somebody
\* who still has to post one, or a goroutine about to take the lock that will post
\* one when it unlocks.  (A goroutine that was woken and panics, because there are
\* too many references for one more, breaks that chain.)
NobodyStranded ==
    \A m \in Mode : (~overflowed /\ ~locked[m] /\ waitq[m] # <<>>) =>
        \/ sema[m] > 0
        \/ \E g \in Goroutine : rel[g][m] > 0
        \/ \E g \in Goroutine : pc[g] = "lock" /\ mode[g] = m

\* The one word of fd_mutex.go and the two semaphores account for every user, owner
\* and waiter, also while Close and an unlock release the same waiters.
FdInv ==
    /\ TypeOK
    /\ WordExact
    /\ WaitersMatched
    /\ NobodyStranded

\* Close returns only when the descriptor is destroyed, if its I/O does not block.
CloseWaitsForDestroy ==
    [][\A g \in Goroutine :
          (kind[g] = "close" /\ pc[g] \in {"release", "signalled", "closewait"} /\ pc'[g] = "idle" /\ ~isBlocking)
              => sysfd = "destroyed"]_vars

\* Once the descriptor is closed every call returns: waiters for a lock, I/O that
\* was evicted, and Close itself.
CallsReturn ==
    \A g \in Goroutine : (closed /\ pc[g] # "idle") ~> (pc[g] = "idle" \/ isBlocking)
=============================================================================
