------------------------------- MODULE RWMutex -------------------------------
(***************************************************************************)
(* sync/rwmutex.go: readers and writers at the granularity of the atomic    *)
(* operations on readerCount and readerWait, over the semaphore of module   *)
(* Semaphore (readerSem, writerSem) and the Locker w that serialises the    *)
(* writers (module Mutex implements it).                                    *)
(*                                                                         *)
(* A goroutine holds the lock at most once: recursive read locking is ruled *)
(* out by the comment on RLock.                                             *)
(***************************************************************************)
EXTENDS Integers, Sequences, FiniteSets

CONSTANTS Goroutine, Nil,
          rwmutexMaxReaders     \* 1 << 30 in the code

ASSUME RWMutexAssumption ==
    /\ Nil \notin Goroutine
    /\ IsFiniteSet(Goroutine)
    /\ rwmutexMaxReaders \in Nat
    /\ rwmutexMaxReaders > Cardinality(Goroutine)

VARIABLES w,                    \* owner of rw.w
          readerCount, readerWait,
          pc,
          n,                    \* n[g]: r of Lock, then runtime_Semrelease calls left
          addr,                 \* addr[g]: the semaphore g is releasing
          sema, waitq, sudog    \* readerSem and writerSem

readerSem == "readerSem"
writerSem == "writerSem"

INSTANCE Semaphore WITH Addr <- {readerSem, writerSem}

W == INSTANCE Locker WITH owner <- w, reserved <- FALSE, waiting <- {}

sem == <<sema, waitq, sudog>>
vars == <<w, readerCount, readerWait, pc, n, addr, sem>>

PC == {"idle",
       "rwait", "reading",                                  \* RLock
       "rslow",                                             \* rUnlockSlow
       "wlock", "announce", "drain", "wwait", "writing",    \* Lock
       "trylock",                                           \* TryLock
       "release", "dequeue",                                \* runtime_Semrelease
       "wunlock",                                           \* rw.w.Unlock()
       "fatal"}

TypeOK ==
    /\ w \in Goroutine \cup {Nil}
    /\ readerCount \in Int
    /\ readerWait \in Int
    /\ pc \in [Goroutine -> PC]
    /\ n \in [Goroutine -> 0..Cardinality(Goroutine)]
    /\ addr \in [Goroutine -> {readerSem, writerSem}]
    /\ SemaTypeOK

Init ==
    /\ W!Init
    /\ readerCount = 0
    /\ readerWait = 0
    /\ pc = [g \in Goroutine |-> "idle"]
    /\ n = [g \in Goroutine |-> 0]
    /\ addr = [g \in Goroutine |-> readerSem]
    /\ SemaInit

Goto(g, l) == pc' = [pc EXCEPT ![g] = l]

At(S) == {g \in Goroutine : pc[g] \in S}

\* Writers that have announced themselves and have not unlocked.
Pending == At({"drain", "wwait", "writing"})

-----------------------------------------------------------------------------
(* Readers *)

\* readerCount.Add(1): negative if a writer has announced itself.
RLock(g) ==
    /\ pc[g] = "idle"
    /\ readerCount' = readerCount + 1
    /\ Goto(g, IF readerCount' < 0 THEN "rwait" ELSE "reading")
    /\ UNCHANGED <<w, readerWait, n, addr, sem>>

\* runtime_SemacquireRWMutexR(&rw.readerSem)
RWait(g) ==
    /\ pc[g] = "rwait"
    /\ \/ SemSleep(g, readerSem, FALSE) /\ UNCHANGED pc
       \/ SemAcquired(g, readerSem) /\ Goto(g, "reading")
    /\ UNCHANGED <<w, readerCount, readerWait, n, addr>>

\* The loop around CompareAndSwap(c, c+1) ends with c >= 0 at the swap, or it
\* returns false, which changes nothing.
TryRLock(g) ==
    /\ pc[g] = "idle"
    /\ readerCount >= 0
    /\ readerCount' = readerCount + 1
    /\ Goto(g, "reading")
    /\ UNCHANGED <<w, readerWait, n, addr, sem>>

RUnlock(g) ==
    /\ pc[g] = "reading"
    /\ readerCount' = readerCount - 1
    /\ Goto(g, CASE readerCount' >= 0 -> "idle"
                 [] readerCount' + 1 \in {0, -rwmutexMaxReaders} -> "fatal"
                 [] OTHER -> "rslow")
    /\ UNCHANGED <<w, readerWait, n, addr, sem>>

\* Mutant of RUnlockSlow: an early leaver wakes the writer too.
RUnlockSlowEager(g) ==
    /\ pc[g] = "rslow"
    /\ readerWait' = readerWait - 1
    /\ \/ /\ readerWait' <= 0
          /\ n' = [n EXCEPT ![g] = 1]
          /\ addr' = [addr EXCEPT ![g] = writerSem]
          /\ Goto(g, "release")
       \/ readerWait' > 0 /\ Goto(g, "idle") /\ UNCHANGED <<n, addr>>
    /\ UNCHANGED <<w, readerCount, sem>>

\* The last departing reader unblocks the writer.
RUnlockSlow(g) ==
    /\ pc[g] = "rslow"
    /\ readerWait' = readerWait - 1
    /\ \/ /\ readerWait' = 0
          /\ n' = [n EXCEPT ![g] = 1]
          /\ addr' = [addr EXCEPT ![g] = writerSem]
          /\ Goto(g, "release")
       \/ readerWait' # 0 /\ Goto(g, "idle") /\ UNCHANGED <<n, addr>>
    /\ UNCHANGED <<w, readerCount, sem>>

-----------------------------------------------------------------------------
(* Writers *)

Lock(g) ==
    /\ pc[g] = "idle"
    /\ Goto(g, "wlock")
    /\ UNCHANGED <<w, readerCount, readerWait, n, addr, sem>>

\* rw.w.Lock() returns.
LockW(g) ==
    /\ pc[g] = "wlock"
    /\ W!Acquire(g)
    /\ Goto(g, "announce")
    /\ UNCHANGED <<readerCount, readerWait, n, addr, sem>>

\* readerCount.Add(-rwmutexMaxReaders): r is the number of active readers.
Announce(g) ==
    /\ pc[g] = "announce"
    /\ readerCount' = readerCount - rwmutexMaxReaders
    /\ n' = [n EXCEPT ![g] = readerCount]
    /\ Goto(g, IF readerCount = 0 THEN "writing" ELSE "drain")
    /\ UNCHANGED <<w, readerWait, addr, sem>>

\* Mutant of Drain: readerWait.Store(r), early leavers are forgotten.
DrainStore(g) ==
    /\ pc[g] = "drain"
    /\ readerWait' = n[g]
    /\ n' = [n EXCEPT ![g] = 0]
    /\ Goto(g, IF readerWait' = 0 THEN "writing" ELSE "wwait")
    /\ UNCHANGED <<w, readerCount, addr, sem>>

\* readerWait.Add(r): some of the r may have left already and made it negative.
Drain(g) ==
    /\ pc[g] = "drain"
    /\ readerWait' = readerWait + n[g]
    /\ n' = [n EXCEPT ![g] = 0]
    /\ Goto(g, IF readerWait' = 0 THEN "writing" ELSE "wwait")
    /\ UNCHANGED <<w, readerCount, addr, sem>>

\* runtime_SemacquireRWMutex(&rw.writerSem)
WWait(g) ==
    /\ pc[g] = "wwait"
    /\ \/ SemSleep(g, writerSem, FALSE) /\ UNCHANGED pc
       \/ SemAcquired(g, writerSem) /\ Goto(g, "writing")
    /\ UNCHANGED <<w, readerCount, readerWait, n, addr>>

\* rw.w.TryLock() succeeds (a failure changes nothing) ...
TryLock(g) ==
    /\ pc[g] = "idle"
    /\ W!Acquire(g)
    /\ Goto(g, "trylock")
    /\ UNCHANGED <<readerCount, readerWait, n, addr, sem>>

\* Mutant of TryLockCAS: a plain store.
TryLockCASBlind(g) ==
    /\ pc[g] = "trylock"
    /\ readerCount' = -rwmutexMaxReaders
    /\ Goto(g, "writing")
    /\ UNCHANGED <<w, readerWait, n, addr, sem>>

\* ... and CompareAndSwap(0, -rwmutexMaxReaders) succeeds or w is unlocked.
TryLockCAS(g) ==
    /\ pc[g] = "trylock"
    /\ \/ /\ readerCount = 0
          /\ readerCount' = -rwmutexMaxReaders
          /\ Goto(g, "writing")
          /\ UNCHANGED w
       \/ /\ readerCount # 0
          /\ W!Release(g)
          /\ Goto(g, "idle")
          /\ UNCHANGED readerCount
    /\ UNCHANGED <<readerWait, n, addr, sem>>

\* Mutant of Unlock: it wakes nobody.
UnlockWakesNone(g) ==
    /\ pc[g] = "writing"
    /\ readerCount' = readerCount + rwmutexMaxReaders
    /\ Goto(g, "wunlock")
    /\ UNCHANGED <<w, readerWait, n, addr, sem>>

\* Readers may come in again; r of them are blocked, or about to block.
Unlock(g) ==
    /\ pc[g] = "writing"
    /\ readerCount' = readerCount + rwmutexMaxReaders
    /\ \/ readerCount' >= rwmutexMaxReaders /\ Goto(g, "fatal") /\ UNCHANGED <<n, addr>>
       \/ /\ readerCount' < rwmutexMaxReaders
          /\ n' = [n EXCEPT ![g] = readerCount']
          /\ addr' = [addr EXCEPT ![g] = readerSem]
          /\ Goto(g, IF readerCount' = 0 THEN "wunlock" ELSE "release")
    /\ UNCHANGED <<w, readerWait, sem>>

UnlockW(g) ==
    /\ pc[g] = "wunlock"
    /\ W!Release(g)
    /\ Goto(g, "idle")
    /\ UNCHANGED <<readerCount, readerWait, n, addr, sem>>

-----------------------------------------------------------------------------
(* runtime_Semrelease(addr, false), n[g] times *)

Semrelease(g) ==
    /\ pc[g] = "release"
    /\ SemXadd(addr[g])
    /\ Goto(g, "dequeue")
    /\ UNCHANGED <<w, readerCount, readerWait, n, addr>>

SemreleaseDequeue(g) ==
    /\ pc[g] = "dequeue"
    /\ SemNoWaiter(addr[g]) \/ SemDequeue(addr[g], FALSE)
    /\ n' = [n EXCEPT ![g] = @ - 1]
    /\ Goto(g, CASE n'[g] > 0 -> "release"
                 [] n'[g] = 0 /\ addr[g] = readerSem -> "wunlock"
                 [] OTHER -> "idle")
    /\ UNCHANGED <<w, readerCount, readerWait, addr>>

\* The holder arranges for another goroutine to unlock.
Pass(g, h) ==
    /\ pc[g] \in {"reading", "writing"} /\ pc[h] = "idle"
    /\ pc' = [pc EXCEPT ![g] = "idle", ![h] = pc[g]]
    /\ IF pc[g] = "writing"
          THEN W!Transfer(g, h)
          ELSE UNCHANGED w
    /\ UNCHANGED <<readerCount, readerWait, n, addr, sem>>

-----------------------------------------------------------------------------
ReadStep(g) == RWait(g) \/ RUnlock(g) \/ RUnlockSlow(g)

WriteStep(g) ==
    \/ LockW(g) \/ Announce(g) \/ Drain(g) \/ WWait(g) \/ TryLockCAS(g)
    \/ Unlock(g) \/ UnlockW(g)

ReleaseStep(g) == Semrelease(g) \/ SemreleaseDequeue(g)

Step ==
    \E g \in Goroutine :
        \/ RLock(g) \/ TryRLock(g) \/ Lock(g) \/ TryLock(g)
        \/ ReadStep(g) \/ WriteStep(g) \/ ReleaseStep(g)

Next == Step \/ \E g, h \in Goroutine : Pass(g, h)

Spec == Init /\ [][Next]_vars

\* A goroutine inside a call keeps running and a holder unlocks in the end, also
\* if the lock is passed on again and again: hence strong fairness for unlocking.
FairSpec ==
    /\ Spec
    /\ \A g \in Goroutine : /\ WF_vars(ReadStep(g)) /\ WF_vars(WriteStep(g)) /\ WF_vars(ReleaseStep(g))
                            /\ SF_vars(RUnlock(g)) /\ SF_vars(Unlock(g))

-----------------------------------------------------------------------------
(* Properties *)

\* A writer excludes everybody, readers admit readers.
Exclusion ==
    \A g, h \in Goroutine :
        pc[g] = "writing" /\ pc[h] \in {"reading", "writing"} => g = h

\* The two fatal errors (rwmutex.go:132, 212) are unreachable for callers that
\* unlock only what they hold.
NoFatal == At({"fatal"}) = {}

\* readerCount is the number of readers in or waiting, less rwmutexMaxReaders
\* while a writer has announced itself.
ReaderCountExact ==
    readerCount = Cardinality(At({"reading", "rwait"})) - IF Pending # {} THEN rwmutexMaxReaders ELSE 0

\* Readers that hold the lock, that are leaving it in rUnlockSlow, and that were
\* let in by the last Unlock but still have to take their unit of readerSem.
Inside == Cardinality(At({"reading", "rslow"})) + sema[readerSem]

\* A pending writer waits for exactly the readers that are inside, although
\* some of them may leave before readerWait has been raised (rwmutex.go:135, 154).
DrainExact ==
    \A g \in Goroutine : /\ pc[g] = "drain" => readerWait + n[g] = Inside
                         /\ pc[g] = "wwait" => readerWait = Inside
                         /\ pc[g] = "writing" => readerWait = 0 /\ Inside = 0

\* The two counters of RWMutex account for every reader in every state, the ones
\* between the two additions of Lock included, and the fatal errors are dead.
CountersExact ==
    /\ TypeOK
    /\ NoFatal
    /\ ReaderCountExact
    /\ DrainExact

\* Units that the Unlock of g has still to post to readerSem.
Unposted(g) ==
    CASE pc[g] = "release" /\ addr[g] = readerSem -> n[g]
      [] pc[g] = "dequeue" /\ addr[g] = readerSem -> n[g] - 1
      [] OTHER -> 0

\* Those units, one pair for each.
Due == {u \in Goroutine \X (1..Cardinality(Goroutine)) : u[2] <= Unposted(u[1])}

\* Without a pending writer every blocked reader has a unit posted or still to be
\* posted by Unlock, so none is left behind (rwmutex.go:215-217); and there are
\* no units to spare that would let in a reader against a later writer.
AdmitExact ==
    Pending = {} =>
        Cardinality(At({"rwait"})) = sema[readerSem] + Cardinality(Due)

\* The last reader out wakes the writer, once: a unit of writerSem is there or
\* about to be posted exactly when a writer waits and nobody is inside.
WriterWakeup ==
    LET posting == {g \in At({"release"}) : addr[g] = writerSem}
        due     == At({"wwait"}) # {} /\ readerWait = 0
    IN  sema[writerSem] + Cardinality(posting) = IF due THEN 1 ELSE 0

\* The units posted to both semaphores are the ones that waiting goroutines
\* need: none too few to leave somebody behind, none too many for later.
UnitsExact ==
    /\ AdmitExact
    /\ WriterWakeup

\* A writer that has announced itself gets in, whatever new readers do.
WriterAdmitted == \A g \in Goroutine : pc[g] = "announce" ~> pc[g] = "writing"

\* While readers are blocked a stream of writers does not keep all readers out: some
\* reader gets to read, one of the blocked or a later one.
ReaderAdmitted == At({"rwait"}) # {} ~> At({"reading"}) # {}
=============================================================================
