-------------------------------- MODULE Mutex --------------------------------
(***************************************************************************)
(* internal/sync/mutex.go: Lock, TryLock and Unlock at the granularity of   *)
(* their atomic operations on m.state, over the semaphore of module         *)
(* Semaphore (m.sema).                                                      *)
(*                                                                         *)
(* m.state is a word of three flag bits and a waiter count.  It is kept as  *)
(* a record of integers, so that an addition to the word is an addition to  *)
(* its fields; TypeOK says that no flag ever leaves 0..1 and the count      *)
(* never goes below 0, which is what makes the two views the same.          *)
(*                                                                         *)
(* The 1ms of starvationThresholdNs is abstracted to a choice made after    *)
(* each wakeup: a waiter that slept may or may not have waited that long.   *)
(***************************************************************************)
EXTENDS Naturals, Sequences, FiniteSets

CONSTANTS Goroutine,
          Nil,          \* no goroutine
          ActiveSpin    \* active_spin of the runtime: spins per wakeup

ASSUME MutexAssumption == Nil \notin Goroutine /\ ActiveSpin \in Nat

VARIABLES m,            \* m.state
          pc,
          old,          \* old[g]: the word g read last
          awoke, starving, iter,     \* locals of lockSlow
          waited,       \* waited[g]: waitStartTime # 0
          queueLifo,
          handoff,      \* handoff[g]: argument of g's runtime_Semrelease
          s,            \* s[g]: the waiter that g's runtime_Semrelease dequeued
          sema, waitq, sudog         \* m.sema

mSema == "m.sema"

INSTANCE Semaphore WITH Addr <- {mSema}

sem == <<sema, waitq, sudog>>
locals == <<old, awoke, starving, iter, waited, queueLifo>>
vars == <<m, pc, locals, handoff, s, sem>>

Word == [locked : 0..1, woken : 0..1, starving : 0..1, waiters : Nat]

MkWord(l, w, st, n) == [locked |-> l, woken |-> w, starving |-> st, waiters |-> n]

Zero == MkWord(0, 0, 0, 0)

PC == {"idle",                                   \* no call in progress, not the owner
       "load", "try", "sleep", "woke", "grab",   \* lockSlow
       "cs",                                     \* owner of the mutex
       "trylock",                                \* TryLock
       "unlock", "reload",                       \* unlockSlow
       "release", "dequeue", "handoff",          \* runtime_Semrelease
       "throw"}                                  \* throw("sync: inconsistent mutex state")

TypeOK ==
    /\ m \in Word
    /\ pc \in [Goroutine -> PC]
    /\ old \in [Goroutine -> Word]
    /\ awoke \in [Goroutine -> BOOLEAN]
    /\ starving \in [Goroutine -> BOOLEAN]
    /\ iter \in [Goroutine -> 0..ActiveSpin]
    /\ waited \in [Goroutine -> BOOLEAN]
    /\ queueLifo \in [Goroutine -> BOOLEAN]
    /\ handoff \in [Goroutine -> BOOLEAN]
    /\ s \in [Goroutine -> Goroutine \cup {Nil}]
    /\ SemaTypeOK

Init ==
    /\ m = Zero
    /\ pc = [g \in Goroutine |-> "idle"]
    /\ old = [g \in Goroutine |-> Zero]
    /\ awoke = [g \in Goroutine |-> FALSE]
    /\ starving = [g \in Goroutine |-> FALSE]
    /\ iter = [g \in Goroutine |-> 0]
    /\ waited = [g \in Goroutine |-> FALSE]
    /\ queueLifo = [g \in Goroutine |-> FALSE]
    /\ handoff = [g \in Goroutine |-> FALSE]
    /\ s = [g \in Goroutine |-> Nil]
    /\ SemaInit

Goto(g, l) == pc' = [pc EXCEPT ![g] = l]

\* Leave a function: its locals are gone.
Leave(g, l) ==
    /\ Goto(g, l)
    /\ old' = [old EXCEPT ![g] = Zero]
    /\ awoke' = [awoke EXCEPT ![g] = FALSE]
    /\ starving' = [starving EXCEPT ![g] = FALSE]
    /\ iter' = [iter EXCEPT ![g] = 0]
    /\ waited' = [waited EXCEPT ![g] = FALSE]
    /\ queueLifo' = [queueLifo EXCEPT ![g] = FALSE]

\* old&(mutexLocked|mutexStarving) != 0
Held(w) == w.locked = 1 \/ w.starving = 1

-----------------------------------------------------------------------------
(* Lock *)

\* The fast path: CAS(0, mutexLocked), else lockSlow.
Lock(g) ==
    /\ pc[g] = "idle"
    /\ \/ m = Zero /\ m' = MkWord(1, m.woken, m.starving, m.waiters) /\ Goto(g, "cs")
       \/ m # Zero /\ Goto(g, "load") /\ UNCHANGED m
    /\ UNCHANGED <<locals, handoff, s, sem>>

\* old = m.state
Load(g) ==
    /\ pc[g] = "load"
    /\ old' = [old EXCEPT ![g] = m]
    /\ Goto(g, "try")
    /\ UNCHANGED <<m, awoke, starving, iter, waited, queueLifo, handoff, s, sem>>

\* The spinner raises mutexWoken so that Unlock wakes nobody else.
MarksWoken(g) ==
    ~awoke[g] /\ old[g].woken = 0 /\ old[g].waiters # 0 /\ m = old[g]

\* One turn of active spinning; whether runtime_canSpin agrees depends on the
\* other processors, but it does not after ActiveSpin turns.
Spin(g) ==
    /\ pc[g] = "try"
    /\ old[g].locked = 1 /\ old[g].starving = 0
    /\ iter[g] < ActiveSpin
    /\ \/ MarksWoken(g) /\ m' = MkWord(m.locked, 1, m.starving, m.waiters) /\ awoke' = [awoke EXCEPT ![g] = TRUE]
       \/ ~MarksWoken(g) /\ UNCHANGED <<m, awoke>>
    /\ iter' = [iter EXCEPT ![g] = @ + 1]
    /\ Goto(g, "load")
    /\ UNCHANGED <<old, starving, waited, queueLifo, handoff, s, sem>>

\* Mutant of NewWord: mutexWoken is not reset.
NewWordKeepsWoken(g) ==
    MkWord(IF old[g].starving = 0 THEN 1 ELSE old[g].locked,
           old[g].woken,
           IF starving[g] /\ old[g].locked = 1 THEN 1 ELSE old[g].starving,
           IF Held(old[g]) THEN old[g].waiters + 1 ELSE old[g].waiters)

\* Mutant of NewWord: a free mutex is switched to starvation mode.
NewWordStarvesFree(g) ==
    MkWord(IF old[g].starving = 0 THEN 1 ELSE old[g].locked,
           IF awoke[g] THEN 0 ELSE old[g].woken,
           IF starving[g] THEN 1 ELSE old[g].starving,
           IF Held(old[g]) THEN old[g].waiters + 1 ELSE old[g].waiters)

\* The word lockSlow wants to install over old.
NewWord(g) ==
    MkWord(IF old[g].starving = 0 THEN 1 ELSE old[g].locked,
           IF awoke[g] THEN 0 ELSE old[g].woken,
           IF starving[g] /\ old[g].locked = 1 THEN 1 ELSE old[g].starving,
           IF Held(old[g]) THEN old[g].waiters + 1 ELSE old[g].waiters)

\* CAS(old, new): the mutex is taken, or g is counted as a waiter, or retry.
CompareAndSwap(g) ==
    /\ pc[g] = "try"
    /\ \/ /\ awoke[g] /\ old[g].woken = 0
          /\ Goto(g, "throw")
          /\ UNCHANGED <<m, locals>>
       \/ /\ ~(awoke[g] /\ old[g].woken = 0)
          /\ m = old[g]
          /\ m' = NewWord(g)
          /\ \/ ~Held(old[g]) /\ Leave(g, "cs")
             \/ /\ Held(old[g])
                /\ queueLifo' = [queueLifo EXCEPT ![g] = waited[g]]
                /\ waited' = [waited EXCEPT ![g] = TRUE]
                /\ Goto(g, "sleep")
                /\ UNCHANGED <<old, awoke, starving, iter>>
       \/ /\ ~(awoke[g] /\ old[g].woken = 0)
          /\ m # old[g]
          /\ Goto(g, "load")
          /\ UNCHANGED <<m, locals>>
    /\ UNCHANGED <<handoff, s, sem>>

\* runtime_SemacquireMutex: sleep, perhaps more than once, then return.
Sleep(g) ==
    /\ pc[g] = "sleep"
    /\ \/ SemSleep(g, mSema, queueLifo[g]) /\ UNCHANGED pc
       \/ SemAcquired(g, mSema) /\ Goto(g, "woke")
    /\ UNCHANGED <<m, locals, handoff, s>>

\* Woken: reread the word.  In starvation mode the mutex is g's already.
Woke(g, late) ==
    /\ pc[g] = "woke"
    /\ starving' = [starving EXCEPT ![g] = @ \/ late]
    /\ old' = [old EXCEPT ![g] = m]
    /\ \/ /\ m.starving = 1
          /\ IF m.locked = 1 \/ m.woken = 1 \/ m.waiters = 0
                THEN Goto(g, "throw") ELSE Goto(g, "grab")
          /\ UNCHANGED <<awoke, iter>>
       \/ /\ m.starving = 0
          /\ awoke' = [awoke EXCEPT ![g] = TRUE]
          /\ iter' = [iter EXCEPT ![g] = 0]
          /\ Goto(g, "try")
    /\ UNCHANGED <<m, waited, queueLifo, handoff, s, sem>>

\* g leaves starvation mode if it waited less than 1ms or is the last waiter.
ExitsStarvation(g) == ~starving[g] \/ old[g].waiters = 1

\* Mutant of Grab: the waiter stays counted.
GrabKeepsWaiter(g) ==
    /\ pc[g] = "grab"
    /\ m' = MkWord(m.locked + 1, m.woken,
                   IF ExitsStarvation(g) THEN m.starving - 1 ELSE m.starving,
                   m.waiters)
    /\ Leave(g, "cs")
    /\ UNCHANGED <<handoff, s, sem>>

\* AddInt32(&m.state, delta): take the mutex that was handed off.
Grab(g) ==
    /\ pc[g] = "grab"
    /\ m' = MkWord(m.locked + 1, m.woken,
                   IF ExitsStarvation(g) THEN m.starving - 1 ELSE m.starving,
                   m.waiters - 1)
    /\ Leave(g, "cs")
    /\ UNCHANGED <<handoff, s, sem>>

-----------------------------------------------------------------------------
(* TryLock *)

\* Mutant of TryLockLoad: only mutexLocked is looked at.
TryLockLoadIgnoresStarving(g) ==
    /\ pc[g] = "idle"
    /\ m.locked = 0
    /\ old' = [old EXCEPT ![g] = m]
    /\ Goto(g, "trylock")
    /\ UNCHANGED <<m, awoke, starving, iter, waited, queueLifo, handoff, s, sem>>

\* TryLock returns false at once (no step here) or goes on to its CAS.
TryLockLoad(g) ==
    /\ pc[g] = "idle"
    /\ ~Held(m)
    /\ old' = [old EXCEPT ![g] = m]
    /\ Goto(g, "trylock")
    /\ UNCHANGED <<m, awoke, starving, iter, waited, queueLifo, handoff, s, sem>>

\* CAS(old, old|mutexLocked), without a retry.
TryLockCAS(g) ==
    /\ pc[g] = "trylock"
    /\ \/ m = old[g] /\ m' = MkWord(1, m.woken, m.starving, m.waiters) /\ Leave(g, "cs")
       \/ m # old[g] /\ UNCHANGED m /\ Leave(g, "idle")
    /\ UNCHANGED <<handoff, s, sem>>

-----------------------------------------------------------------------------
(* Unlock *)

\* The owner may arrange for another goroutine to unlock.
Pass(g, h) ==
    /\ pc[g] = "cs" /\ pc[h] = "idle"
    /\ pc' = [pc EXCEPT ![g] = "idle", ![h] = "cs"]
    /\ UNCHANGED <<m, locals, handoff, s, sem>>

\* AddInt32(&m.state, -mutexLocked), then unlockSlow(new) unless new is 0.
Unlock(g) ==
    /\ pc[g] = "cs"
    /\ m' = MkWord(m.locked - 1, m.woken, m.starving, m.waiters)
    /\ \/ m' = Zero /\ Goto(g, "idle") /\ UNCHANGED <<old, handoff>>
       \/ /\ m' # Zero /\ m.starving = 0
          /\ old' = [old EXCEPT ![g] = m']
          /\ Goto(g, "unlock")
          /\ UNCHANGED handoff
       \/ /\ m' # Zero /\ m.starving = 1
          /\ handoff' = [handoff EXCEPT ![g] = TRUE]
          /\ Goto(g, "release")
          /\ UNCHANGED old
    /\ UNCHANGED <<awoke, starving, iter, waited, queueLifo, s, sem>>

\* Nobody to wake, or somebody else sees to it.
NothingToWake(w) == w.waiters = 0 \/ w.locked = 1 \/ w.woken = 1 \/ w.starving = 1

\* Normal mode: grab the right to wake someone.
UnlockSlow(g) ==
    /\ pc[g] = "unlock"
    /\ \/ NothingToWake(old[g]) /\ Leave(g, "idle") /\ UNCHANGED m
       \/ /\ ~NothingToWake(old[g])
          /\ m = old[g]
          /\ m' = MkWord(m.locked, 1, m.starving, m.waiters - 1)
          /\ Leave(g, "release")
       \/ /\ ~NothingToWake(old[g])
          /\ m # old[g]
          /\ Goto(g, "reload")
          /\ UNCHANGED <<m, locals>>
    /\ UNCHANGED <<handoff, s, sem>>

UnlockReload(g) ==
    /\ pc[g] = "reload"
    /\ old' = [old EXCEPT ![g] = m]
    /\ Goto(g, "unlock")
    /\ UNCHANGED <<m, awoke, starving, iter, waited, queueLifo, handoff, s, sem>>

-----------------------------------------------------------------------------
(* runtime_Semrelease(&m.sema, handoff) *)

SemReturn(g) ==
    /\ Goto(g, "idle")
    /\ handoff' = [handoff EXCEPT ![g] = FALSE]
    /\ s' = [s EXCEPT ![g] = Nil]

Semrelease(g) ==
    /\ pc[g] = "release"
    /\ SemXadd(mSema)
    /\ Goto(g, "dequeue")
    /\ UNCHANGED <<m, locals, handoff, s>>

SemreleaseDequeue(g) ==
    /\ pc[g] = "dequeue"
    /\ \/ SemNoWaiter(mSema) /\ SemReturn(g)
       \/ ~handoff[g] /\ SemDequeue(mSema, FALSE) /\ SemReturn(g)
       \/ /\ handoff[g] /\ SemDequeue(mSema, TRUE)
          /\ s' = [s EXCEPT ![g] = Head(waitq[mSema])]
          /\ Goto(g, "handoff")
          /\ UNCHANGED handoff
    /\ UNCHANGED <<m, locals>>

SemreleaseHandoff(g) ==
    /\ pc[g] = "handoff"
    /\ SemHandoff(s[g], mSema)
    /\ SemReturn(g)
    /\ UNCHANGED <<m, locals>>

-----------------------------------------------------------------------------
LockStep(g) ==
    \/ Load(g) \/ Spin(g) \/ CompareAndSwap(g) \/ Sleep(g) \/ Grab(g)
    \/ \E late \in BOOLEAN : Woke(g, late)

UnlockStep(g) ==
    \/ Unlock(g) \/ UnlockSlow(g) \/ UnlockReload(g)
    \/ Semrelease(g) \/ SemreleaseDequeue(g) \/ SemreleaseHandoff(g)

Next ==
    \/ \E g \in Goroutine :
         Lock(g) \/ LockStep(g) \/ TryLockLoad(g) \/ TryLockCAS(g) \/ UnlockStep(g)
    \/ \E g, h \in Goroutine : Pass(g, h)

Spec == Init /\ [][Next]_vars

\* Every goroutine that is in a call and can take a step keeps taking steps,
\* and an owner unlocks in the end.  Nothing obliges a goroutine to call Lock.
FairSpec ==
    /\ Spec
    /\ \A g \in Goroutine : /\ WF_vars(LockStep(g))
                            /\ WF_vars(TryLockCAS(g))
                            /\ WF_vars(UnlockStep(g))

-----------------------------------------------------------------------------
(* Properties *)

\* The mutex excludes: Lock and TryLock never make two goroutines owners.
MutualExclusion ==
    \A g, h \in Goroutine : pc[g] = "cs" /\ pc[h] = "cs" => g = h

\* The two throws "inconsistent mutex state" (mutex.go:136, 158) are dead code.
NoThrow == \A g \in Goroutine : pc[g] # "throw"

\* g carries the one wakeup that is under way: it is about to post it, was
\* handed it, has just received it, or runs on with the duty it brought.
Carries(g) ==
    \/ pc[g] \in {"release", "woke", "grab"}
    \/ sudog[g] = "ticket"
    \/ pc[g] \in {"load", "try"} /\ awoke[g]

WakeupUnderWay == sema[mSema] > 0 \/ \E g \in Goroutine : Carries(g)

\* What the word says of it: mutexWoken, in starvation mode a clear mutexLocked.
WakeupAnnounced == IF m.starving = 1 THEN m.locked = 0 ELSE m.woken = 1

\* Wakeups never pile up (mutex.go:219-222): a wakeup is under way exactly when
\* the word announces it, and there is one, in the semaphore or with one goroutine.
SingleWakeup ==
    /\ sema[mSema] <= 1
    /\ \A g, h \in Goroutine : Carries(g) /\ Carries(h) => g = h
    /\ sema[mSema] = 1 => \A g \in Goroutine : ~Carries(g)
    /\ WakeupUnderWay <=> WakeupAnnounced

\* An unlocker that still means to wake somebody.
WillWake(g) == pc[g] = "reload" \/ (pc[g] = "unlock" /\ ~NothingToWake(old[g]))

\* No stranded waiter: a free mutex with registered waiters has a wakeup under
\* way or an unlocker that will post one (the early return of unlockSlow,
\* mutex.go:215, leaves the duty to somebody who exists).
NoStrandedWaiter ==
    m.waiters > 0 /\ m.locked = 0 =>
        WakeupUnderWay \/ \E g \in Goroutine : WillWake(g)

\* The waiter count is the number of goroutines in runtime_SemacquireMutex or
\* just out of it, less the one a normal-mode Unlock has already counted out.
WaiterCount ==
    LET counted == {g \in Goroutine : pc[g] \in {"sleep", "woke", "grab"}}
        posted  == \/ sema[mSema] = 1
                   \/ \E g \in Goroutine : pc[g] \in {"release", "woke"} \/ sudog[g] = "ticket"
    IN  Cardinality(counted) = m.waiters + IF m.starving = 0 /\ posted THEN 1 ELSE 0

\* Once some goroutine waits for the mutex, some goroutine gets it.
Progress ==
    (\E g \in Goroutine : pc[g] \in {"load", "try", "sleep", "woke", "grab"})
        ~> (\E g \in Goroutine : pc[g] = "cs")

-----------------------------------------------------------------------------
(* Refinement: the mutex as a Locker. *)

Holders == {g \in Goroutine : pc[g] = "cs"}

\* The owner, given the holders; no state of a Locker if there are several.
OwnerOf(H) ==
    IF H = {} THEN Nil
    ELSE IF \E g \in Goroutine : H = {g} THEN CHOOSE g \in Goroutine : H = {g} ELSE H

\* In starvation mode an unlocked mutex is kept for the waiters.
Reserved == m.starving = 1 /\ m.locked = 0

Registered == {g \in Goroutine : pc[g] \in {"sleep", "woke", "grab"}}

L == INSTANCE Locker WITH owner <- OwnerOf(Holders), reserved <- Reserved, waiting <- Registered

\* Mutex is a sync.Locker: however Lock, TryLock and Unlock calls overlap, it has at
\* most one owner, and a mutex unlocked in starvation mode goes to a registered
\* waiter: no Lock that arrives, spins or was woken in normal mode and no TryLock
\* gets in between (mutex.go:42-46, 130), a waiter leaves only to compete for a
\* mutex that is not reserved, and there is one whenever it is.
ImplementsLocker == L!Spec

-----------------------------------------------------------------------------
(* The inductive invariant behind MutualExclusion, NoThrow and SingleWakeup *)

\* The lock bit is set exactly while somebody owns the mutex.
OwnerInv ==
    /\ MutualExclusion
    /\ m.locked = 1 <=> \E g \in Goroutine : pc[g] = "cs"

\* Starvation mode: no mutexWoken, at least one waiter, nobody on the normal
\* path of a woken waiter; the waiters that "grab" counted are still there.
StarvationInv ==
    /\ m.starving = 1 => m.woken = 0 /\ m.waiters >= 1
    /\ \A g \in Goroutine :
          /\ pc[g] \in {"load", "try"} /\ awoke[g] => m.starving = 0
          /\ pc[g] = "grab" => m.starving = 1 /\ old[g].waiters >= 1 /\ m.waiters >= old[g].waiters

\* Locals: only a woken waiter can be starving, and it read mutexWoken set.
LocalInv ==
    \A g \in Goroutine :
        /\ pc[g] \notin {"load", "try", "sleep", "woke", "grab"} => ~awoke[g] /\ ~starving[g]
        /\ pc[g] \in {"load", "try"} /\ starving[g] => awoke[g]
        /\ pc[g] = "try" /\ awoke[g] => old[g].woken = 1
        /\ pc[g] = "trylock" => ~Held(old[g])
        /\ pc[g] = "handoff" => s[g] \in Goroutine

\* The queue holds distinct goroutines that are asleep in runtime_SemacquireMutex.
QueueInv ==
    /\ \A i \in DOMAIN waitq[mSema] : sudog[waitq[mSema][i]] = "queued"
    /\ \A i, j \in DOMAIN waitq[mSema] : waitq[mSema][i] = waitq[mSema][j] => i = j
    /\ \A g \in Goroutine : sudog[g] # "none" => pc[g] = "sleep"

\* What the word, the semaphore and the locals of lockSlow and unlockSlow say of
\* each other in every state, however Lock, TryLock and Unlock calls overlap.
MutexInv ==
    /\ TypeOK
    /\ NoThrow
    /\ OwnerInv
    /\ SingleWakeup
    /\ StarvationInv
    /\ LocalInv
    /\ QueueInv
=============================================================================
