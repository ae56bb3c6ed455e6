# Go synchronization primitives: a TLA+ development

This directory specifies, model-checks and proves properties of the code that
every concurrent Go program rests on: the locks, wait queues and pools of package
`sync`, channels and select, file descriptors and the network poller, and the
part of the runtime that puts goroutines to sleep and wakes them (Go 1.26,
`go1.26/src`). The modules are translated from the code, one action
per atomic operation or per stretch of code under a lock, so that the
interleavings explored are the ones that can happen.

## 1. Inventory

The repository is the whole Go distribution: compiler, linker, `cmd/go`, the
runtime and the standard library. Most of it is sequential code that tests and
fuzzing reach well, or protocol code that would be a project of its own. The
part where tests say least, because the errors are in the order of steps of
several goroutines, is synchronization. Its components:

| Component | State | Operations | Interacts with |
|---|---|---|---|
| runtime semaphores, `runtime/sema.go` | `*addr` (count), per root: `lock`, `nwait`, treap of waiters | `semacquire1(addr, lifo)`, `semrelease1(addr, handoff)` | scheduler (park, ready); called by all of `sync` |
| `notifyList`, `runtime/sema.go:547` | `wait`, `notify` (uint32, wrapping), `lock`, list of parked waiters | `notifyListAdd/Wait/NotifyAll/NotifyOne` | called by `Cond` |
| `Mutex`, `internal/sync/mutex.go` | word `state` = waiters, starving, woken, locked; `sema` | `Lock`, `TryLock`, `Unlock` | semaphores, spinning support of the scheduler |
| `RWMutex`, `sync/rwmutex.go` | `w` (a Mutex), `readerCount`, `readerWait`, `readerSem`, `writerSem` | `RLock`, `TryRLock`, `RUnlock`, `Lock`, `TryLock`, `Unlock` | Mutex, semaphores |
| `WaitGroup`, `sync/waitgroup.go` | 64-bit `state` = counter, wait count; `sema` | `Add`, `Done`, `Wait`, `Go` | semaphores |
| `Cond`, `sync/cond.go` | `notifyList`, the user's Locker `L` | `Wait`, `Signal`, `Broadcast` | `notifyList`, any Locker |
| `Once`, `OnceFunc` | `done` flag, a Mutex | `Do` | Mutex |
| `Pool`, `poolDequeue`, `poolChain` | per-P caches; chain of lock-free rings with head and tail indices | `Get`, `Put`; `pushHead`, `popHead`, `popTail` | GC, scheduler |
| `Map`, `HashTrieMap` | tree of atomic pointers, a lock per inner node | `Load`, `Store`, `Swap`, `CompareAndDelete`, `Range` | Mutex |
| channels, `select`, `runtime/chan.go`, `runtime/select.go` | ring buffer, `recvq`, `sendq`, `closed`, lock; per goroutine `selectDone`, `param` | send, receive, close, select | scheduler (park, ready) |
| `fdMutex`, `internal/poll/fd_mutex.go` | one word: closed, read and write lock, references, waiters | `incref`, `decref`, `increfAndClose`, `rwlock`, `rwunlock`; `FD.Close`, `destroy` | semaphores, network poller |
| network poller, `runtime/netpoll.go` | per descriptor `rg`, `wg`, `atomicInfo`, deadlines, timers with sequence numbers, `fdseq` | `pollOpen`, `pollReset`, `pollWait`, `pollSetDeadline`, `pollUnblock`, `pollClose`, timer callbacks, `netpoll` | timers, scheduler, epoll, `fdMutex` |
| timers, context, `io.Pipe`, singleflight | see `PROJECT.json` | | channels, Mutex |

`PROJECT.json` lists every component, the ones that are not modelled too, each
with the reason.

What is hard in this code, and what the properties are for (the hazards in
`PROJECT.json` give the lines):

* **Lost wakeups.** A waiter tests a condition and sleeps; the waker changes the
  condition and looks for sleepers; neither holds a lock over both
  (`sema.go:184`, `sema.go:592`, `waitgroup.go:131`).
* **Duties passed on.** `Mutex.Unlock` may return without waking anybody because
  somebody else will; that somebody has to exist (`mutex.go:215`).
* **Two counters read at different times.** `readerCount` and `readerWait` of
  RWMutex, `wait` and `notify` of the notify list.
* **Tests without the lock.** A non-blocking channel operation reads two words at
  different moments; the poller and the goroutines share only atomic words
  (`chan.go:213`, `netpoll.go:574`).
* **One goroutine, several wakers.** A select is queued on several channels; a
  parked reader is found by a close, a deadline and the poller at once.
* **Late messages.** A timer callback that waits for a lock while its deadline is
  moved, an epoll event for a file that has been closed and its descriptor reused.
* **Lifetimes.** Who destroys a descriptor, and when; a sudog that returns to the
  pool with a link in it; a ring that is dropped with a value in it.
* **Units without an address.** A unit of a semaphore is meant for one goroutine
  and may be taken by another.
* **Reuse and wraparound.** A WaitGroup used again while the last round is still
  leaving; ticket numbers that overflow.

What makes each component correct: the semaphore loses no wakeup and wakes each
sleeper once; Mutex excludes, never strands a waiter and always lets somebody
in; RWMutex excludes, accounts for every reader, admits writers against new
readers and readers against new writers; WaitGroup's Wait returns when, and only
when, all tasks are done, and its panics are for misuse only; Cond's Wait returns
only if notified, and a notification sent after the ticket was taken is never
lost; channels are FIFO queues that lose and duplicate nothing, one case of a
select takes effect, and close releases everybody; a descriptor is destroyed
once, after its last use, and Close waits for that; the poller loses no readiness
and no deadline; the treap is a list of waiters per address; the pool's chain
hands out each value once, from the right end.

## 2. Plan

Order of work, most important behaviour first; composition in brackets.

1. *Done.* `Semaphore`, `SemaphoreSpec`, `Sema`: the wait/wake primitive and its
   abstract specification.
2. *Done.* `Mutex` [over `Semaphore`], `Locker` (abstract), `MutexProofs`.
3. *Done.* `RWMutex` [over `Semaphore` and `Locker`], `WaitGroup` [over
   `Semaphore`], `Cond` with the notify list [over `Locker`].
4. *Done.* `Chan` [channels and select], `Channel` (abstract) and the refinement.
5. *Done.* `SemaTreap`: the tree of waiters, and that it stores the list per
   address that `Semaphore` assumes (`WaitLists`).
6. *Done.* `FdMutex` [over `Semaphore`], `Descriptor` (abstract); `Netpoll` [uses
   what `FdMutex` guarantees: pollClose after the last use]; `PoolChain`,
   `WorkDeque` (abstract).
7. *Done.* Proofs: `SemaProofs`, `RWMutexProofs`, `WaitGroupTreapProofs`,
   `FdMutexProofs`, `NetpollProofs`, `ChanProofs` and `CondPoolProofs`; the waiter count in `MutexProofs`.
8. Then more of the system: `Once` and `OnceFunc` [over `Locker`], the cache per P
   of `Pool`, timers, `context`, `io.Pipe` and singleflight, the work-stealing
   queue of the scheduler.

## 3. Modules and code

| Module | Code | Role |
|---|---|---|
| `Semaphore` | `runtime/sema.go` | action fragments: the semaphore as its callers see it |
| `SemaphoreSpec` | `runtime/sema.go` | abstract specification made of those fragments |
| `Sema` | `runtime/sema.go:146-301` | the code, with `root.lock` and `nwait`; implements `SemaphoreSpec` |
| `WaitLists` | `runtime/sema.go` | abstract: a list of waiters per address |
| `SemaTreap`, `MCSemaTreap` | `runtime/sema.go:304-542` | the treap; implements `WaitLists` |
| `Locker` | `sync/mutex.go`, `internal/sync/mutex.go` | abstract lock: an owner, those who are registered as waiting, and whether the lock is reserved for them |
| `Mutex` | `internal/sync/mutex.go` | implements `Locker` |
| `RWMutex` | `sync/rwmutex.go` | over `Semaphore` and `Locker` |
| `WaitGroup` | `sync/waitgroup.go` | over `Semaphore` |
| `Cond` | `sync/cond.go`, `runtime/sema.go:547-722` | over `Locker` |
| `Channel` | `runtime/chan.go` | abstract: a bounded FIFO queue that can be closed, calls with cases, when one may wait and when it may give up |
| `Chan`, `MCChan` | `runtime/chan.go`, `runtime/select.go` | implements `Channel` |
| `Descriptor` | `internal/poll` | abstract life cycle of a descriptor: open, closed, destroyed; users, lock owners |
| `FdMutex` | `internal/poll/fd_mutex.go`, `fd_unix.go:77-131` | over `Semaphore`; implements `Descriptor` |
| `Netpoll`, `MCNetpoll` | `runtime/netpoll.go`, `netpoll_epoll.go` | |
| `WorkDeque` | `sync/poolqueue.go` | abstract: one double-ended queue, and what a call may report as missing |
| `PoolChain`, `MCPoolChain` | `sync/poolqueue.go` | implements `WorkDeque` |
| `SemaProofs`, `MutexProofs`, `RWMutexProofs`, `WaitGroupTreapProofs`, `CondPoolProofs`, `ChanProofs`, `FdMutexProofs`, `NetpollProofs` | | the theorems about the module each is named after (`CondPoolProofs`: `Cond` and `PoolChain`, `WaitGroupTreapProofs`: `WaitGroup` and `SemaTreap`, each of the two independently of the other); each states the facts about cardinalities and queues that it needs |

Common conventions. `pc[g]` says where goroutine `g` is in its call; `"idle"` is
outside any call. Variables keep the names of the code's fields and locals.
A call that fails without changing anything (TryLock and TryRLock returning
false) is no step. Race detector calls, profiling, tracing and the synctest
bubbles are left out. Memory is sequentially consistent, which is what Go's
atomics guarantee; plain reads of atomically written words (`old := m.state`)
are single reads of an aligned word. `PoolChain` and `SemaTreap`, whose proofs share
a module with those of another component, prefix names like `Init` and `Spec` with
`Pool` and `Treap`; in `SemaTreap`, where one call at a time is in progress, `at` says
where it is.

**Sema.** The addresses in `Addr` hash to one root, the case in which different
semaphores interfere. The easy case of `semacquire1`, the announcement
(`nwait.Add(1)` under the lock), the second test, its undoing, queue and park,
and the test after the wakeup are separate actions; so are the `Xadd`, the
unlocked load of `nwait`, the dequeue under the lock and the handoff of
`semrelease1`. The treap is abstracted to the list of waiters per address, which
is what `SemaTreap` shows it to be.
`cansemacquire` is one step: its load/CAS loop either reads 0 or takes a unit at
the moment of a successful CAS.

**SemaphoreSpec and the refinement.** `Semaphore` forgets `nwait`, the root lock
and the second test. `Sema` implements it under the mapping in `Sema`: a waiter
is asleep from the second failed test on (the root lock keeps dequeuers out until
it is on the list), and a releaser without handoff is done once it has dequeued.
This is what justifies modelling the clients over `Semaphore`: they see the
same behaviours with far fewer states.

**Mutex.** `m.state` is a record of its four fields; an addition to the word is an
addition to the fields, and `TypeOK` (proved) says that no addition carries from
one into another. Each atomic operation is an action. The 1 ms threshold is a
choice at each wakeup; `runtime_canSpin` is a choice that is exhausted after
`ActiveSpin` turns. `Pass` models that the unlocking goroutine need not be the
locking one. Callers do not unlock an unlocked mutex.
`Locker` says more than exclusion. A goroutine that has added itself to the waiter
count is registered; an owner that unlocks in starvation mode keeps the lock for the
registered ones, and then neither a `Lock` that arrives, spins or was woken earlier nor
a `TryLock` gets it before one of them has. It may be any of them: the comment at
`mutex.go:42-46` names the one at the front of the queue, but a goroutine that has
registered and is still inside `runtime_SemacquireMutex` can take the unit between the
`Xadd` of `semrelease1` and its dequeue.

**RWMutex.** `rw.w` is a `Locker`, which `Mutex` implements. The two additions of
`Lock` (`Announce`, `Drain`) are separate steps, so readers leave in between.

**WaitGroup.** Counter and wait count are one variable each but always read and
written together, as the code's single 64-bit word. Callers keep to rules that are
stricter than the comment on `Add`: they add from a running task or while no Wait is
in progress. The comment (`waitgroup.go:69-71`) also allows a call that starts while the
counter is above zero; that is not enough (the counter can reach zero before the
addition, and with a sleeping Wait Add then panics at line 121). Such calls, and an Add
of the next round while a Wait of the last is on its way out, are outside the model, so
nothing is shown about them.

**Cond.** The counters are modulo `Width`. `less` is the code's signed comparison
of the difference. Readying the goroutines taken off the list happens outside the
list's lock, one by one. `waiting` and `before` are auxiliary: they say
who waits without looking at the counters, so that the counters can be compared
with them.

**SemaTreap.** The operations on one root run under `root.lock`, so one call at a
time is in progress; its loops are stepped through. The fields of the sudogs are
functions on a set of sudogs, `Nil` is the nil pointer, an address is a number,
and a ticket is any of a few odd numbers. `acquiretime` and what it is used for
(profiling) is left out. `waiters`, which only the mutex profile reads, is kept
with its clamp; the code leaves it at 1 for a head that has become the only one in
its list (`sema.go:446`), which its comment does not say.

**Chan.** A call has cases; `chansend` and `chanrecv` are calls with one. What
happens under a channel lock is one step, except where somebody who does not take
that lock can see it half done: `closechan` sets the flag, takes the waiters off
one by one and readies them after releasing the lock. The lock-free tests of a
non-blocking call are one step each. `selectgo` takes its locks one by one, polls
in any order (removing the stale sudogs it meets), queues one sudog per case in lock
order (pass 2, a step each) and parks; its locks are released one by one by
`selparkcommit` while it may already be running again; then it locks again and takes its
other sudogs off (pass 3, a step each). The two queues of a channel are
`waitq["recv"][c]` and `waitq["send"][c]`, sequences of sudogs; `dequeueSudoG` removes
one wherever it is. The lock order is stated by what the heap sort achieves: of the
channels still to be locked the one with the lowest address is next. Passes 2 and 3 take
cases of the same channel in any order, as `lockorder` does. Wakeups happen in steps
of their own: from dequeue to `goready` they are in `wake`. `missed` and `opened` are
auxiliary: whether a non-blocking call was blocked at some moment, and whether its
channels were open at some moment. `Channel` has the same history in `stuck` and `opened`,
and with it a condition on giving up: a call takes its default only if at some moment
since it began no case could proceed, or, for a send alone, if its channel was open then
and is closed now. `waiting` in `Channel` are those whom others can meet; a call joins
them only when none of its cases can proceed. `DefaultJustified` is the same condition in
the terms of the code. The second half of it is needed: `chan_close` shows that the
comment at `chan.go:202-206`, which claims a moment at which the channel was open and not
ready, is not right.

**FdMutex.** The word is its fields `closed`, `locked`, `ref`, `wait`, as every
operation is one compare-and-swap of the whole. The loop around it is the step in
which it succeeds. A count at `MaxCount` makes the call panic; the caller is
assumed to recover. `Evict` is the call of `pollUnblock` that makes I/O return.
`readWriteLock` exists in the model as a kind of call that only the run `fd_rwlock`
makes, because only Windows uses it. `overflowed` is auxiliary: it says that a call of
`rwlock` has panicked because the references were at their limit. A waiter that was
woken and panics there leaves a free lock and the next waiter asleep, so nobody is
claimed to be safe from being stranded after that; the attempt to prove `NobodyStranded`
without that condition showed it, with one goroutine more than the run has.

**Netpoll.** One `pollDesc`, through open, use, close, free and reuse. The setter,
the owner and the timer callbacks hold `pd.lock`; the goroutines and the poller
only use the atomic words. `netpollunblock` is a step per mode, and so is what
follows it: unlock, ready (`Goready`, one goroutine each) and the subtraction from
`netpollWaiters` (`Adjust`). The goroutine that parks is in its slot (`Commit`) before
`netpollAdjustWaiters(1)` (`AddWaiter`), which its M executes after another P may have
taken it, readied it and subtracted; the count is a uint32 and may pass below zero, so it
is kept modulo `WaiterRange`. `taken` is what an unblocker has still to subtract and
`adding` the number of Ms between the two steps of `netpollblockcommit`. `findRunnable`
keeps one goroutine of the poller's list for itself and subtracts before it runs it
(`proc.go:3498-3503`), so `Adjust` of the poller may come before its last `Goready`, against
the letter of the comment at `netpoll.go:588-590`. `WaitersExact` says by how much the count
is off in every state, and `WaitersSeen` what the scheduler needs: a parked goroutine is
not overlooked unless an M is still to count it in. The count is of this `pollDesc` alone,
where the code has one for all. A deadline is none, expired, or a time of which only
equality matters (equal deadlines share one timer); all negative deadlines are the one
value "expired", although the code takes two different ones for a change and moves on the
sequence number. A callback that has started (`Fire`, `runtime/time.go`) keeps its sequence
number until it gets the lock. The kernel is external: a file becomes ready, which is an
edge reported once, or has an error. There is one poller, although several Ms can be in
`netpoll` at once: each event is delivered to one of them. An event is
reported with the tag under which the file was registered, and may be processed
when the descriptor serves the next file. `pollClose` happens when the goroutines
and the setter have left, which is what `FdMutex` guarantees. A poller that has
passed the test of `fdseq` may still mark the reused descriptor ready; the code
tolerates it (a spurious return to the system call), although the comment in `free`
(`netpoll.go:301-303`) reads as if it could not happen.

**PoolChain.** Every load, store and compare-and-swap is a step of one producer or
of a consumer. Rings are numbered in the order of allocation. The indices are modulo
`IndexMod`, as `headTail` holds them modulo 2^32, and the rings double in size up to
`DequeueLimit`. The two words of a slot are cleared separately, as `popTail` does.
The specification is called `PoolSpec` and the program counter `at`, so that the module can
be extended along with `Cond` in the module of their proofs.
The `result` of the abstract deque is fixed when a compare-and-swap claims a value, its
`arg` when `pushHead` is called. `due` is auxiliary and the same in both modules: how many
of the values that were there when a consumer called `popTail` are still there. A consumer
may report nothing only when none is left: one that has loaded `next` as nil and then finds
its ring empty misses what the producer has put into a newer ring meanwhile, so it cannot be
said to have met an empty deque.

## 4. Runs

| Run | Instance | Shows |
|---|---|---|
| `sema` | 3 goroutines, 2 addresses, counts up to 2 | no lost wakeup, exact `nwait`, one wakeup per sleep, implements `SemaphoreSpec`; a unit and a sleeper do not stay together |
| `mutex` | 3 goroutines, 1 spin | exclusion, dead throws, one wakeup under way, nobody stranded, waiter count exact, the inductive invariant, implements `Locker` (no barging into a reserved mutex); somebody gets the mutex |
| `rwmutex` | 3 goroutines, `rwmutexMaxReaders` 5 | exclusion, dead fatals, both counters exact, units match waiters; writers and readers get in |
| `waitgroup` | 3 goroutines, counter up to 3 | no panic, Wait means done, sleepers counted; Wait returns |
| `cond` | 3 goroutines, tickets mod 8 | tickets exact, no spurious wakeup, nobody forgotten, no notification lost; a notified waiter runs |
| `chan` | 3 goroutines, an unbuffered channel and one with 2 slots, 10 different calls | ring exact, nobody waits in vain, woken once, no stale sudog, no lock cycle, dead throws, lock-free tests justified, park safe, implements `Channel` |
| `chan_close` | 3 goroutines, an unbuffered channel | *violated*: a send that gives up without the lock was blocked at some moment while the channel was open |
| `fdmutex` | 3 goroutines, counts up to 2 | word exact, waiters matched, destroyed once and in time, implements `Descriptor`; Close waits for destroy, calls return |
| `fd_rwlock` | 3 goroutines, counts up to 2 | *violated*: a closed descriptor is destroyed when its users are gone |
| `treap` | 4 sudogs, 4 addresses, 3 priorities | search tree, heap order, links, clean sudogs, loops end, implements `WaitLists` |
| `pool` | 1 producer, 2 consumers, up to 3 rings, indices mod 4 | slots have one owner, dropped rings are empty, implements `WorkDeque` (nothing due is missed) |
| `netpoll` | 1 reader, 2 deadlines, 2 changes, 2 files | no readiness or deadline lost, nobody stranded, woken once, dead throws, the count of waiters off only by what is under way, errors not misattributed |

**Bounds.** Three goroutines are an owner, a waiter and one that interferes: the
smallest number for barging, for the starvation handoff being intercepted and for a
releaser that races another one. For RWMutex they are two readers and a writer, or a
reader and two writers; both pairs at once are left to the proofs. `MaxSema` and `MaxTasks` bound how many units or
tasks are outstanding, not how many operations happen: goroutines go round for ever
and every state space is closed under that. `Width` is the smallest even number
above twice the goroutines, the relation that the comment on `notifyList` requires,
so that tickets wrap around all the time. `InWindow` bounds how far the tickets may
run ahead of a goroutine that has one and has not entered the list (beyond it, after
2^31 tickets, the comparison would be wrong). In `chan` the calls are chosen so that
every action and every branch of it happens and the paths that share a lock, a queue or
a word meet: selects name the channels in both orders, with and without a default, each
channel is closed by one goroutine, non-blocking sends and receives try the unbuffered
channel and a non-blocking receive the buffered one, and values differ per sender;
goroutines call for ever. Not every pair of calls occurs (no non-blocking send on the
buffered channel, for instance): the rest is covered by the proofs. `chan_close` has just
the calls of its counterexample. In `fdmutex` `MaxCount` 2 with three goroutines makes the
references reach their limit; the overflow of the wait count needs a fourth goroutine (an
owner, two waiters and one more) and is covered by the proof. In `treap` four sudogs are enough for every case of a rotation
with both children and a parent, and for a list of three. In `pool` rings have 1, 2
and 2 slots, so that the ring wraps, the indices wrap and a ring is dropped while
another is in use; `MaxPush` bounds the number of pushes, as every ring is new. In
`netpoll` `MaxSet` and `MaxOpen` bound deadline changes and files: a first deadline
and its change, and one reuse; `MaxAdding` 1 lets one M lag behind with its addition, and
`WaiterRange` 16 is more than can be parked or taken at once, so the count is as distinct
as in the code. Its `VIEW` identifies states that differ only in the numbers of timers and
callbacks that are stale for good. `CHECK_DEADLOCK FALSE` stands where a state without
successor is legitimate: all goroutines asleep on a semaphore, a condition variable,
a channel or a WaitGroup that nobody will signal; a pool at its bound; a closed
descriptor; a reader waiting for the network. Mutex and RWMutex are checked for
deadlock.

**Fairness.** A goroutine that is inside a call and not parked keeps taking steps
(the scheduler runs every runnable goroutine). An owner of a Mutex or RWMutex
unlocks: no lock progresses otherwise. No goroutine is obliged to call anything.
`Cond` has strong fairness for entering the list, because the runtime lock that it
takes is held for a few instructions and is not starved, and `RWMutex` for
unlocking, because a lock may be passed from goroutine to goroutine before one of
them unlocks it. All of it is weak fairness per goroutine otherwise, which allows
barging, so what is claimed is that *some* waiter proceeds where the code promises
no more. In `FdMutex` a user of the
descriptor leaves once it has been evicted, unless the file is in blocking mode: its
system calls do not block and its waits in the poller end, which is what `Netpoll`
shows. No liveness is claimed for the lock-free loops of `PoolChain`.

**What the violated runs say.** `fd_rwlock`: `readWriteLock` takes the read lock, then the write
lock. If the descriptor is closed in between, the second fails and the function
returns an error, but keeps the read lock and the reference that came with it: nobody
drops the last reference, `destroy` is not called and `Close` waits for ever. Only the
Windows implementation of `FD` uses it.

`chan_close`: a receiver waits on an unbuffered channel, so it is ready for sending. A
non-blocking send reads `c.closed` as 0; `closechan` then sets `c.closed` and takes the
receiver off `recvq`; the send finds nobody waiting and returns false. At no moment was
the channel open and not ready, contrary to the comment at `chan.go:202-206`: closing does
take a channel from ready to not ready. The result is harmless, since a send that overlaps
a close has no claim on either order, but it is not that of any one moment.
`DefaultJustified` states what does hold: the channel was open at some moment since the
call began, so that a send on a channel that was closed before never takes its default.

**Invariants made of parts.** Where several invariants describe one structure they
are checked as one, whose conjuncts keep their names and comments: `SemaInv`,
`MutexInv`, `CountersExact` and `UnitsExact` (RWMutex), `WaitGroupInv`, `CondInv`,
`ChanInv` and `LocksSafe` (`Chan`), `FdInv`, `TreapInv`, `PoolInv`, `NetpollInv`. Each
contains the module's `TypeOK` (`TreapTypes` in `SemaTreap`, `PoolTypeOK` in `PoolChain`),
except `UnitsExact` and `LocksSafe`. They are also
what an inductive invariant for a proof starts from. `MutualExclusion`, `NoThrow` and
`SingleWakeup` of Mutex are parts of `MutexInv`.

Each property of a passing run has a mutant next to the definition it changes: a
plausible error of that code, with which TLC finds the property violated.

## 5. Proofs

The theorems hold for every value of the constants that the named assumption of the
module allows. A theorem that states a property of a run names that property.

| Module | Theorem | States |
|---|---|---|
| `SemaProofs` | `SemaSafe` | `Spec => []SemaInv` |
| | `SemaIsSemaphore` | `Spec => ImplementsSemaphore` |
| `MutexProofs` | `MutexInvariant`, and `TypeCorrect`, `Exclusion`, `ThrowsAreDead`, `WakeupsDoNotPileUp` | `Spec => []MutexInv` and its conjuncts |
| | `NobodyIsStranded` | `Spec => []NoStrandedWaiter` |
| | `WaitersCounted` | `Spec => []WaiterCount`, for finitely many goroutines |
| | `MutexIsLocker` | `Spec => ImplementsLocker`, for finitely many goroutines |
| `RWMutexProofs` | `RWExclusion`, `RWCounters`, `RWUnits` | `Spec => []Exclusion`, `[]CountersExact`, `[]UnitsExact` |
| `WaitGroupTreapProofs` | `WaitGroupSound` | `Spec => []WaitGroupInv` |
| | `WaitReturnsDone` | `Spec => WaitMeansDone` |
| | `TreapSound` | `TreapSpec => []TreapInv` |
| | `TreapIsWaitLists` | `TreapSpec => ImplementsWaitLists` |
| | `TreapLoopsEnd` | `TreapSpec => LoopsEnd` |
| `CondPoolProofs` | `CondSafe` | `Spec => []CondInv` |
| | `NoNotificationLost` | `Spec => NotificationNotLost` |
| | `PoolSafe`, `PoolDropsEmpty` | `PoolSpec => []PoolInv`, `[]DroppedIsEmpty` |
| | `PoolIsDeque` | `PoolSpec => ImplementsDeque` |
| `ChanProofs` | `ChannelsConsistent`, `NoLostPartner`, `DefaultsJustified` | `Spec => []ChanInv`, `[]NobodyWaitsInVain`, `[]DefaultJustified` |
| | `SelectLocksSafe` | `Spec => []LocksSafe`, for channels with bounded addresses |
| | `ChanIsChannel` | `Spec => ImplementsChannel` |
| `FdMutexProofs` | `FdInvariant`, `FdDestroyed` | `Spec => []FdInv`, `[]ClosedIsDestroyed` |
| | `FdCloseWaits` | `Spec => CloseWaitsForDestroy` |
| | `FdIsDescriptor` | `Spec => ImplementsDescriptor` |
| `NetpollProofs` | `NetpollSound`, `NetpollReadiness`, `NetpollStranded`, `NetpollDeadline`, `NetpollEventErr` | `Spec => []NetpollInv`, `[]NoLostReadiness`, `[]NobodyStranded`, `[]DeadlineArmed`, `[]EventErrFresh` |

With `SemaIsSemaphore` and `MutexIsLocker` the chain of abstractions is proved that the
client models stand on: `Mutex`, `RWMutex`, `WaitGroup` and `FdMutex` are modelled over
`Semaphore`, which `Sema` implements, and `RWMutex` and `Cond` over the owner of a `Locker`,
which `Mutex` implements. `Sema` in turn keeps a list of waiters per address, and
`TreapIsWaitLists` shows that the treap is one.

**Assumptions.** `Nil` is no goroutine (no address, no actor) and the bounds are
numbers. Where something is counted the goroutines are finitely many, which those of a
program are. `RWMutex` has fewer goroutines than `rwmutexMaxReaders`, which the code
takes for granted, and `Cond` more than twice as many tickets as goroutines (2^32 in the
code): `less` compares by the sign of a difference, so the tickets that are still needed
must lie within half the range. For tickets of goroutines on their way to the list that is
the bound `InWindow` of the specification. `ChanAssumption` says what the compiler sees to: a call that is no
select has one case, only a send has a value; goroutines, channels, capacities and the
number of cases are arbitrary (nothing is counted, so they need not even be finite, but
for the absence of lock cycles addresses need a bound, as an infinite ascending chain of
waiting selects would be one). `FdMutexAssumption` asks nothing of the width of the counters
beyond being positive, so the theorems cover the behaviour at the limit of the 20 bits. In `Netpoll` the actors
are distinct, a reader and a writer at most block (the locks of `fdMutex` see to that),
and times are distinct from the two special deadlines. `PoolAssumption` says of the sizes of
the rings what the code says: they start at `initSize`, double, end at `dequeueLimit`, and
all of them and the range of the indices are powers of 2, so that the size of a ring divides
the range (`head & (len(vals)-1)` of an index that has wrapped is then the next slot); the
range is at least twice the largest ring. In the code they are 8, 2^30 and 2^32. `TreapAssumption` says that
the sudogs are finitely many and that addresses, tickets and the limit of `waiters` are
positive numbers (an address of a semaphore is not nil, a ticket is `cheaprand() | 1`).
In `PoolChain` the value
stored for a pushed nil is not one of the values pushed, and none of them is the nil of a
cleared slot.

**How the proofs are made.** Every module has an inductive invariant `IInv` (`MutexInv`
in `Mutex`) that was checked with TLC before it was proved, one lemma per action, and a
theorem that combines them. Cardinalities change by one when one goroutine moves
(`CountStep`); units that a loop has still to post are pairs of a goroutine and a number
(`Due` in `RWMutex` and `WaitGroup`), so that their number is a cardinality as well.

*Mutex.* Mutual exclusion alone is not inductive: in starvation mode the
mutex changes hands with `mutexLocked` clear, and `Grab` adds to the word without
testing it. What makes that safe is that there is one wakeup in the system at a
time. `SingleWakeup` says so and says where the word shows it: in normal mode a
wakeup is under way exactly when `mutexWoken` is set, in starvation mode exactly
when `mutexLocked` is clear. "Under way" is a unit in the semaphore or one
goroutine that carries it: the releaser about to post it, the goroutine that was
handed a ticket, the one just awake, or a running one with `awoke` set (a spinner
that set `mutexWoken` itself included). So whoever posts a wakeup has just made it
the only one, and whoever is in `Grab` is the only one there. `StarvationInv` adds
what starvation mode rules out, `LocalInv` what the locals still say of the word
they were read from, and `QueueInv` that the queue holds distinct sleepers, so that
a dequeue wakes somebody who carries nothing yet. For `NobodyIsStranded` the extra
invariant is that a free word with waiters, not woken and not starving, has an unlocker
that will still look at it: only `Unlock` creates such a word and leaves itself as the
witness, and `UnlockSlow` gives up only on a word that no longer matches, after which it
reads again. `WaitersCounted` uses that a posted wakeup is the only one: whoever enters
or leaves starvation mode carries it, so no unit of normal mode is left that the count
would have to allow for. For `MutexIsLocker` the holders of the mutex are mapped to its
owner (and to no state of a Locker if there were two), and the lock is reserved when the
word is starving and not locked. `Grab`, which tests nothing, enters when nobody is inside,
again because of `SingleWakeup`; that the mutex is then reserved for it, and that a waiter
that goes back to competing finds it unreserved, is the other half of that invariant. That
there is a waiter when it becomes reserved follows from `WaitersCounted`.

*Sema.* A unit may be posted between the second test of the count and the park, when the
list is still empty. `WakeupInv` therefore counts a goroutine as asleep from that test
on. A releaser that reads `nwait` = 0 is right to leave because the waiter was counted
before it tested (`NwaitExact`, and `LockInv`: the root lock is held from the
announcement to the park). `TargetInv` says that a dequeued waiter is off the lists and
has one releaser. The refinement maps each goroutine on its own; the lemmas `GoesOn` and
`Only` say that a step changes the image of one goroutine, and perhaps of the waiter it
readies.

*RWMutex.* A writer is let in by a counter that it only subtracts from, so exclusion is
not inductive. `DrainInv` counts the readers that are inside, are leaving, or have a
unit they have not taken yet, against `readerWait`; `QuietInv` says that without a
pending writer the blocked readers are exactly those with a unit posted or due; and
`OwnerInv` that `rw.w` keeps the next writer out until the last unit is posted.

*WaitGroup.* The counter is the number of running tasks and of tasks inside a call
(`CountInv`), so it is zero only when nobody but an outsider can add, and an outsider
meets no waiter (`OutsideInv`). Hence nothing moves the state from the addition that
found the counter at zero to `Store(0)` (`FinishInv`), nor while one unit of the round is
on its way (`RoundInv`). That is what lets `Store(0)` forget the wait count and a woken
waiter insist on a state of zero; `WaitMeansDone` follows from `CountInv` at zero.

*Cond.* Tickets wrap around, so the proof says nothing of their order. It measures a
ticket by its age, the number of tickets handed out from it on (`Diff`). The goroutines
that wait are as old as 1, 2 and so on up to the number of tickets not notified, one of
each age (`Tickets`), and a goroutine on its way to the list is at most half the range old
(`Window`): hence `less` is true of exactly those that are notified (`LessIsNotified`),
and a Signal that does not find its ticket in the list has notified a goroutine that is
still to come (`Advances`). `Calls` is for `NoNotificationLost`: a notifier that has loaded
`l.wait` is younger than whoever waited at its call, so if `l.notify`, read later, is equal
to what it loaded, they have all been notified. `Locked`, `Listed`, `Batches` and
`OneBatch` follow the goroutines from the list to the one that readies them.

*PoolChain.* `PoolInv` says who owns a slot but not what the owner may count on; the
inductive invariant `PoolIInv` adds it. Per ring (`SlotsOK`), a slot is in the range of
`headTail` and filled, or claimed by exactly one process and in the state that the process
left it in (`SlotState`: the value is gone before the type word is, which is what hands the
slot back to the producer), or free and cleared. Indices wrap, so the range is measured
from the tail (`Ahead`, `SlotsFrom`), and `RingPush`, `RingPopHead` and `RingPopTail` show
that an operation moves exactly one slot in or out of it, also across the wraparound; that
is where the sizes must divide the range. A compare-and-swap that succeeds sees the word it
loaded, however often it changed in between, so no claim is made of the past of `headTail`.
`RingStep` says that a step at one slot of one ring leaves the others in order. `Links` says
that the rings form one list from the oldest to the newest and that what is behind `c.tail`
is empty. `ConsumerKnows` is for `PoolDropsEmpty`: `popTail` loads `next` before it finds the
ring empty, so a ring found empty with a successor is not the last, and the producer pushes
only to the last (`ProducerKnows`).

For `PoolIsDeque` the deque is the contents of the rings of the chain one after the other,
which the model computes with a recursive function. The library's theorems on recursion and
induction take an operator as a parameter and are of no use to the provers, so induction is
done with sets: a set of numbers that is not empty has a least element (`Least`, from
`WFMin`), hence a set with 0 that is closed under successor is `Nat` (`Induction`), and a
function defined by its predecessor exists and is unique (`Iterate`). `FromIs` is the
recursion of `From`, `Content` says that the deque is the contents of a list of rings
(`IsChain`), and the lemmas about those say what happens to the whole when one ring changes
at its end. A step that changes the deque is the addition to `head` (a push) or the
compare-and-swap that succeeds (a pop at either end). A `popHead` that finds nothing must have
an empty deque at the load that decided it, although it has looked at the rings one after the
other while the consumers went on. The invariant `Order` is for that: `CutOff`, a ring is cut
off from the ones before it only when `c.tail` has passed them, and they are empty; `Passed`, the rings
that the producer has left behind in a `popHead` are empty, since only it could fill them, and
what it has written in a `pushHead` is its argument;
`Behind`, a consumer that searches is not ahead of `c.tail`. For a consumer the invariant is
`Due`: at most the whole deque is due to it; once it has loaded `next` as nil its ring is, or
was then, the only one with values (`DequeFirst`), so at most what that ring holds is due, and
nothing once `c.tail` has passed it. A push leaves this alone, a pop at either end takes one
from both sides. There is one lemma per action for `Order` and the effect on the deque and the
results, and one for `Due` and the step of `WorkDeque` or the stutter.

*SemaTreap.* The properties speak of the tree and the lists that `Below` and `Chain`
compute from the pointers by recursion, and no step says directly what they compute after
it. The proof therefore relates the pointers to any sets `D[n]` and lists `Q[a]` that fit
them one link at a time, `Rep(Q, D)`: a subtree is its node and the subtrees of its
children, keys are in order and parents are the way back (`TreapOf`), the lists follow
`waitlink` and their heads are the nodes of the tree (`ListsOf`), what waits is in a list
and the rest is clean (`CleanOf`). During a call the tree is a heap but for one node, on
its way up (links to it) or down (links from it as well; its parent would do in its place,
which is what a rotation needs) (`HeapOf`), and a search knows that the address, if it is
in the tree, is in the subtree that is left (`SearchOf`). Each step then changes `Q` and `D`
in a way that can be written down: `Rotated`, `Swapped`, `Grown` and `Cut` for the
subtrees, `Fronted`, `Appended` and `Shorter` for a list, and one lemma per step shows that
the new pointers fit the new sets. A left rotation is a right rotation in a tree with left
and right exchanged and keys negated (`Mirror`). What is left is that such sets are unique:
`Represents` shows by induction over the size of a subtree and the length of a list that
they are what `Below` and `Chain` compute, for which the recursion of both must be shown to
have a solution, with `Induction` and `Iterate` as in `PoolChain`. So the inductive
invariant is `TreapIInv`, `Rep` of `AbsList` and of the subtrees computed, and the effect
of a step on `Q` is the step of `WaitLists`. `TreapLoopsEnd` is what the steps do to `D[s]`:
it becomes a proper subset or superset of itself.

*Chan.* `ControlInv` says which call can be where, `LockInv` which locks a goroutine
holds in every pass and that those still to be taken are above them, `SudogInv` that
queues hold sudogs of pending cases, each once. `WakeInv` is the heart of it: a
wakeup in `wake` is the only one for its goroutine, which is parked, and `selectDone`
is set for a select exactly from the dequeue that chose it to the end of pass 3; so a
live sudog belongs to a call without an outcome, and the dequeuer may decide it.
`WaitInv` strengthens `NobodyWaitsInVain` to the states in which a lock is held: closing
leaves live waiters only while the closer has the lock, and a select between pass 1 and
its park keeps what it found (`Pass2Of`). `MissInv` says what each lock-free test has
established of a call with a default. The ring is a separate matter (`Ring`,
`RingPush`, `RingPop`, `RingSwap`). The refinement takes the values in the ring for the
queue (`ContentPush`, `ContentPop`, `ContentSwap`) and finds the outcome of a call where
it is at the time: nowhere, with the goroutine that will ready it, in `param`, `elem` and
`success`, or in `ret`. A default needs a witness in the history: `MissInv` has it from the
lock-free tests, or from the lock under which no case was ready, and a close between the two
reads of a send is what is left. Waiting needs that no case can proceed at the park, which is
what pass 1 or the test under the lock has found and the locks have kept. `SignalLearns` and `LearnsOne` say who learns of an outcome in a
step; every other step keeps all outcomes.

*FdMutex.* That the word is exact needs which operation can be where (`ControlInv`) and
that there is one closer, which keeps its reference until it evicts (`CloserInv`). Units
are owed only by the loop that posts them (`ReleaseInv`). `ChainInv` says that a free
lock with counted waiters is about to be taken or has a unit on its way; that nobody is
stranded follows. `LastInv` says that the duty to destroy arises once, with the last
reference, and stays with one goroutine; `ClosedIsDestroyed`, `CloseWaitsForDestroy` and
the refinement rest on it. The specification that is proved is that of Unix: calls of
`readWriteLock`, for which `fd_rwlock` shows the opposite, are no step of it.

*Netpoll.* `ControlInv` is who holds `pd.lock`, what an unblocker has still to do, which
uses of the file exclude each other and that the info word agrees with the fields.
`WakeInv` ties `rg` and `wg` to the goroutines and every woken goroutine to one waker,
and the count of waiters to the slots, the subtractions that wakers still owe (`CountedOut`)
and the additions under way, modulo its range; the sum of the first two is below the range,
so without an addition under way the count is that sum. `ReadinessInv` extends `NoLostReadiness` to the
whole way from EAGAIN to the park. `ErrInv` and `TagInv` say which tags the poller can
have in its hands. `TimerInv` says that of the timers and started callbacks of a mode at
most one is not stale, that it stands for the deadlines that are there, and that a
callback for both modes is alone with the second deadline between the two.

**Only model-checked.** Liveness (the properties of section 4 that need fairness): it is
out of the prover's reach. Every invariant, action property and refinement that a passing
run checks is stated by a theorem.

## 6. Not modelled

Weak memory and the race detector; profiling and tracing; synctest bubbles; nil and
timer channels; stack copying of parked goroutines; the poller on systems other than
Linux, and `netpollBreak`; the cache per P of `Pool`; misuse that the code answers
by ending the program (unlock of an unlocked lock, negative counter); more than
`rwmutexMaxReaders` readers; the scheduler beyond fairness; and the components
marked `not_modelled` in `PROJECT.json`, with the reasons there.
