------------------------------- MODULE Netpoll -------------------------------
(***************************************************************************)
(* runtime/netpoll.go and the epoll half of netpoll_epoll.go, as package    *)
(* internal/poll uses them: one pollDesc, from pollOpen to pollClose and    *)
(* through its reuse for the next file.  At the same time                   *)
(*   - a goroutine per mode reads ("r") or writes ("w") and parks,          *)
(*   - the setter changes deadlines,                                        *)
(*   - the owner opens the file, closes it and destroys it after its last   *)
(*     use (the references of module FdMutex),                              *)
(*   - timer callbacks run, and                                             *)
(*   - the poller delivers edge-triggered events, possibly late.            *)
(* pd.lock serialises the setter, the owner and the callbacks; goroutines   *)
(* and the poller see only the atomic words info, rg and wg.  A loop around *)
(* a compare-and-swap is the one step in which it succeeds.                 *)
(***************************************************************************)
EXTENDS Integers, FiniteSets

CONSTANTS Blocker,      \* the modes in which a goroutine does I/O
          Setter, Owner, Poller,
          Callback,     \* the Ps that may run timer callbacks at the same time
          Time,         \* deadlines in the future
          MaxSet,       \* bound on the number of deadline changes
          MaxOpen,      \* bound on the number of files: the last one stays open
          MaxAdding,    \* the number of Ms that may be in netpollblockcommit at once
          WaiterRange   \* the values of a uint32: 2^32 in the code

Mode == {"r", "w"}

Nil == 0
Unblocker == {Setter, Owner, Poller} \cup Callback

ASSUME NetpollAssumption ==
    /\ Blocker \subseteq Mode
    /\ {"none", "expired"} \cap Time = {}
    /\ {MaxSet, MaxOpen, MaxAdding} \subseteq Nat \ {0}
    /\ IsFiniteSet(Callback)
    /\ Setter # Owner /\ Setter # Poller /\ Owner # Poller
    /\ {Setter, Owner, Poller} \cap Callback = {}
    /\ Unblocker \cap Mode = {} /\ Nil \notin Unblocker
    /\ WaiterRange \in Nat /\ WaiterRange > Cardinality(Mode) + Cardinality(Unblocker \X Mode)

VARIABLES
    phase,      \* of the file: "none", "open", or "closed" once fdmu is closed
    fdseq, info,            \* info: what publishInfo and setEventErr have stored
    sem,                    \* sem["r"] = pd.rg, sem["w"] = pd.wg
    lock, closing,
    dl,                     \* dl["r"] = pd.rd, dl["w"] = pd.wd: "none" for 0,
                            \* "expired" for -1, or a time
    run, seq,               \* rrun and wrun; rseq and wseq
    timer,                  \* rt and wt: the modes whose deadline it is, and its seq
    waiters,                \* netpollWaiters, a uint32
    adding,                 \* the Ms between the CAS of netpollblockcommit and its addition
    pc,                     \* of the goroutines and the unblockers
    todo,                   \* modes an unblocker has still to unblock
    woken,                  \* modes whose goroutine it has to make ready
    taken,                  \* modes whose goroutine it has to count out: its delta
    arg,                    \* of a callback: its timer; of the poller: the event, with
                            \* its tag n
    kernel,                 \* external: the file and its registration
    sets                    \* deadline changes so far

desc == <<closing, dl, run, seq, timer>>
count == <<waiters, adding>>
local == <<todo, woken, taken, arg>>
vars == <<phase, fdseq, info, sem, lock, desc, count, pc, local, kernel, sets>>

IoPC == {"idle", "reset", "store", "io", "check", "block", "recheck", "commit",
         "parked", "swap", "failed"}
UnblockerPC == {"idle", "unblock", "unlock", "ready",
                "register", "evict", "decref", "free", "publish",      \* owner
                "lock", "write",                                       \* callbacks
                "tag", "err"}                                          \* poller

Unarmed == [modes |-> {}, n |-> 0]
NoArg == [modes |-> {}, n |-> 0, err |-> FALSE]
NoFile == [reg |-> 0, avail |-> {}, edge |-> {}, err |-> FALSE]

TypeOK ==
    /\ phase \in {"none", "open", "closed"}
    /\ fdseq \in 0..(MaxOpen + 1)
    /\ info \in [closing : BOOLEAN, expired : SUBSET Mode, err : BOOLEAN, seq : 0..(MaxOpen + 1)]
    /\ sem \in [Mode -> {"nil", "ready", "wait", "G"}]
    /\ lock \in Unblocker \cup {Nil}
    /\ closing \in BOOLEAN
    /\ dl \in [Mode -> Time \cup {"none", "expired"}]
    /\ run \in [Mode -> BOOLEAN]
    /\ seq \in [Mode -> Nat]
    /\ \A m \in Mode : timer[m].modes \subseteq Mode /\ timer[m].n \in Nat
    /\ waiters \in 0..(WaiterRange - 1) /\ adding \in 0..MaxAdding
    /\ \A m \in Blocker : pc[m] \in IoPC
    /\ \A p \in Unblocker : pc[p] \in UnblockerPC
    /\ {todo, woken, taken} \subseteq [Unblocker -> SUBSET Mode]
    /\ \A p \in Unblocker : arg[p].modes \subseteq Mode /\ arg[p].n \in Nat
    /\ kernel \in [reg : 0..(MaxOpen + 1), avail : SUBSET Mode, edge : SUBSET Mode, err : BOOLEAN]
    /\ sets \in 0..MaxSet

Init ==
    /\ phase = "none"
    /\ fdseq = 0
    /\ info = [closing |-> FALSE, expired |-> {}, err |-> FALSE, seq |-> 0]
    /\ sem = [m \in Mode |-> "nil"]
    /\ lock = Nil
    /\ closing = FALSE
    /\ dl = [m \in Mode |-> "none"]
    /\ run = [m \in Mode |-> FALSE]
    /\ seq = [m \in Mode |-> 0]
    /\ timer = [m \in Mode |-> Unarmed]
    /\ waiters = 0 /\ adding = 0
    /\ pc = [p \in Blocker \cup Unblocker |-> "idle"]
    /\ todo = [p \in Unblocker |-> {}]
    /\ woken = [p \in Unblocker |-> {}]
    /\ taken = [p \in Unblocker |-> {}]
    /\ arg = [p \in Unblocker |-> NoArg]
    /\ kernel = NoFile
    /\ sets = 0

Goto(p, l) == pc' = [pc EXCEPT ![p] = l]

-----------------------------------------------------------------------------
(* The atomic info word *)

\* publishInfo, from the fields as the step leaves them: all but the error bit.
Published(c, deadline, s) ==
    [info EXCEPT !.closing = c, !.expired = {m \in Mode : deadline[m] = "expired"}, !.seq = s]

\* netpollcheckerr: is there a reason not to wait?
netpollcheckerr(m) == info.closing \/ m \in info.expired \/ (m = "r" /\ info.err)

-----------------------------------------------------------------------------
(* I/O in mode m: FD.Read or FD.Write with pollReset, pollWait and netpollblock *)

IoVars == <<phase, fdseq, info, lock, desc, local, sets>>

\* readLock succeeds: the file is not closed.
Start(m) ==
    /\ pc[m] = "idle"
    /\ phase = "open"
    /\ Goto(m, "reset")
    /\ UNCHANGED <<IoVars, sem, count, kernel>>

Reset(m) ==
    /\ pc[m] = "reset"
    /\ Goto(m, IF netpollcheckerr(m) THEN "idle" ELSE "store")
    /\ UNCHANGED <<IoVars, sem, count, kernel>>

ResetStore(m) ==
    /\ pc[m] = "store"
    /\ sem' = [sem EXCEPT ![m] = "nil"]
    /\ Goto(m, "io")
    /\ UNCHANGED <<IoVars, count, kernel>>

\* The system call takes what is there, or fails with EAGAIN.
Io(m) ==
    /\ pc[m] = "io"
    /\ Goto(m, IF m \in kernel.avail THEN "idle" ELSE "check")
    /\ kernel' = [kernel EXCEPT !.avail = @ \ {m}]
    /\ UNCHANGED <<IoVars, sem, count>>

Check(m) ==
    /\ pc[m] = "check"
    /\ Goto(m, IF netpollcheckerr(m) THEN "idle" ELSE "block")
    /\ UNCHANGED <<IoVars, sem, count, kernel>>

\* Consume a notification, or announce the wait.
Block(m) ==
    /\ pc[m] = "block"
    /\ \/ sem[m] = "ready" /\ sem' = [sem EXCEPT ![m] = "nil"] /\ Goto(m, "io")
       \/ sem[m] = "nil" /\ sem' = [sem EXCEPT ![m] = "wait"] /\ Goto(m, "recheck")
    /\ UNCHANGED <<IoVars, count, kernel>>

\* Mutant: the error states are not checked again.
StillFineAlways(m) == TRUE

StillFine(m) == ~netpollcheckerr(m)

Recheck(m) ==
    /\ pc[m] = "recheck"
    /\ Goto(m, IF StillFine(m) THEN "commit" ELSE "swap")
    /\ UNCHANGED <<IoVars, sem, count, kernel>>

CanPark(m) == sem[m] = "wait"

\* netpollblockcommit, run on the M of the goroutine once this can be readied: it
\* parks, unless somebody has changed the state.  From here on others may ready
\* it, and it may even park again, before the M comes to count it.
Commit(m) ==
    /\ pc[m] = "commit"
    /\ \/ /\ CanPark(m)
          /\ adding < MaxAdding
          /\ sem' = [sem EXCEPT ![m] = "G"]
          /\ adding' = adding + 1
          /\ Goto(m, "parked")
       \/ /\ ~CanPark(m)
          /\ Goto(m, "swap")
          /\ UNCHANGED <<sem, adding>>
    /\ UNCHANGED <<IoVars, waiters, kernel>>

\* Mutant: the count saturates at zero.
PlusSaturating(w, d) == IF w + d < 0 THEN 0 ELSE (w + d) % WaiterRange

\* netpollWaiters.Add.
Plus(w, d) == (w + d) % WaiterRange

\* netpollAdjustWaiters(1), by an M that has parked its goroutine.
AddWaiter ==
    /\ adding > 0
    /\ waiters' = Plus(waiters, 1)
    /\ adding' = adding - 1
    /\ UNCHANGED <<IoVars, sem, pc, kernel>>

Notified(m) == sem[m] = "ready"

\* old := gpp.Swap(pdNil), after the park or instead of it.
SwapNil(m) ==
    /\ pc[m] = "swap"
    /\ sem' = [sem EXCEPT ![m] = "nil"]
    /\ Goto(m, IF Notified(m) THEN "io" ELSE "failed")
    /\ UNCHANGED <<IoVars, count, kernel>>

\* A deadline that expired and was moved is as if it had not expired.
Failed(m) ==
    /\ pc[m] = "failed"
    /\ Goto(m, IF netpollcheckerr(m) THEN "idle" ELSE "block")
    /\ UNCHANGED <<IoVars, sem, count, kernel>>

IoStep(m) ==
    \/ Reset(m) \/ ResetStore(m) \/ Io(m) \/ Check(m) \/ Block(m) \/ Recheck(m)
    \/ Commit(m) \/ SwapNil(m) \/ Failed(m)

-----------------------------------------------------------------------------
(* netpollunblock and what follows it, for whoever calls it *)

\* Mutant: a timeout or close overwrites a notification.
LeavesNever(old, ioready) == old = "nil" /\ ~ioready

\* The states that netpollunblock leaves as they are.
Leaves(old, ioready) == old = "ready" \/ (old = "nil" /\ ~ioready)

\* Is there a goroutine to make ready?
ToReady(old) == old = "G"

\* Where p goes once it has unblocked m and nothing is left to do.
AfterUnblock(p, m) ==
    IF p = Poller THEN IF woken'[p] = {} THEN "idle" ELSE "ready"
    ELSE IF p \in Callback /\ m = "r" /\ "w" \in arg[p].modes THEN "write" ELSE "unlock"

netpollunblock(p) ==
    LET m == IF "r" \in todo[p] THEN "r" ELSE "w"
        ioready == p = Poller
    IN
    /\ pc[p] = "unblock"
    /\ sem' = [sem EXCEPT ![m] = IF Leaves(@, ioready) THEN @
                                 ELSE IF ioready THEN "ready" ELSE "nil"]
    /\ woken' = [woken EXCEPT ![p] = IF ToReady(sem[m]) THEN @ \cup {m} ELSE @]
    /\ taken' = [taken EXCEPT ![p] = IF ToReady(sem[m]) THEN @ \cup {m} ELSE @]
    /\ todo' = [todo EXCEPT ![p] = @ \ {m}]
    /\ Goto(p, IF todo[p] = {m} THEN AfterUnblock(p, m) ELSE "unblock")
    /\ arg' = IF todo[p] = {m} /\ AfterUnblock(p, m) # "write" THEN [arg EXCEPT ![p] = NoArg]
                                                            ELSE arg
    /\ UNCHANGED <<phase, fdseq, info, lock, desc, count, kernel, sets>>

\* Where p goes at the end.
Done(p) == IF p = Owner THEN "decref" ELSE "idle"

\* unlock(&pd.lock); pollUnblock first stops the timers.
Unlock(p) ==
    /\ pc[p] = "unlock"
    /\ lock' = Nil
    /\ IF p = Owner
       THEN timer' = [m \in Mode |-> Unarmed] /\ run' = [m \in Mode |-> FALSE]
       ELSE UNCHANGED <<timer, run>>
    /\ Goto(p, IF woken[p] = {} THEN Done(p) ELSE "ready")
    /\ UNCHANGED <<phase, fdseq, info, sem, closing, dl, seq, count, local,
                   kernel, sets>>

\* The goroutines that p may make ready next: the reader before the writer, but
\* for the poller, which puts them on a list.
ReadyNext(p) == IF p # Poller /\ "r" \in woken[p] THEN {"r"} ELSE woken[p]

\* netpollgoready or, for the poller, injectglist.
Goready(p, m) ==
    /\ pc[p] = "ready"
    /\ m \in ReadyNext(p)
    /\ woken' = [woken EXCEPT ![p] = @ \ {m}]
    /\ pc' = [pc EXCEPT ![m] = "swap",
                        ![p] = IF woken[p] = {m} /\ taken[p] = {} THEN Done(p) ELSE "ready"]
    /\ UNCHANGED <<phase, fdseq, info, sem, lock, desc, count, todo, taken, arg, kernel, sets>>

Delta(t) == Cardinality(t)

\* All are ready, or all but the one goroutine that findRunnable is going to run.
MayAdjust(p) == woken[p] = {} \/ (p = Poller /\ Cardinality(woken[p]) = 1)

\* netpollAdjustWaiters(delta): the goroutines made ready may be running, and
\* may have parked again.
Adjust(p) ==
    /\ pc[p] = "ready"
    /\ taken[p] # {}
    /\ MayAdjust(p)
    /\ waiters' = Plus(waiters, -Delta(taken[p]))
    /\ taken' = [taken EXCEPT ![p] = {}]
    /\ Goto(p, IF woken[p] = {} THEN Done(p) ELSE "ready")
    /\ UNCHANGED <<phase, fdseq, info, sem, lock, desc, adding, todo, woken, arg, kernel, sets>>

-----------------------------------------------------------------------------
(* pollSetDeadline *)

\* incref succeeds.
SetDeadline ==
    /\ pc[Setter] = "idle"
    /\ phase = "open"
    /\ sets < MaxSet
    /\ sets' = sets + 1
    /\ Goto(Setter, "lock")
    /\ UNCHANGED <<phase, fdseq, info, sem, lock, desc, count, local, kernel>>

Combo(deadline) == deadline["r"] \in Time /\ deadline["r"] = deadline["w"]

\* Mutant: a timer is left alone if only its companion changes.
MustChangeLess(m, old, new) == run[m] /\ new[m] # old[m]

\* A running timer is invalidated if its deadline, or what it stands for, changes.
MustChange(m, old, new) == run[m] /\ (new[m] # old[m] \/ Combo(new) # Combo(old))

\* The write timer does not run beside a read timer for the same deadline.
NeedsTimer(m, new) == new[m] \in Time /\ (m = "w" => ~Combo(new))

SetClosing ==
    /\ pc[Setter] = "lock"
    /\ lock = Nil
    /\ closing
    /\ Goto(Setter, "idle")
    /\ UNCHANGED <<phase, fdseq, info, sem, lock, desc, count, local, kernel, sets>>

\* The deadline d for the modes ms: fields, info, timers; then unblock what
\* has expired.
SetTimers(d, ms) ==
    LET new == [m \in Mode |-> IF m \in ms THEN d ELSE dl[m]]
        expired == {m \in Mode : new[m] = "expired"}
    IN
    /\ pc[Setter] = "lock"
    /\ lock = Nil
    /\ ~closing
    /\ lock' = Setter
    /\ dl' = new
    /\ info' = Published(closing, new, fdseq)
    /\ seq' = [m \in Mode |-> IF MustChange(m, dl, new) THEN seq[m] + 1 ELSE seq[m]]
    /\ run' = [m \in Mode |-> IF run[m] /\ ~MustChange(m, dl, new) THEN TRUE
                              ELSE NeedsTimer(m, new)]
    /\ timer' = [m \in Mode |->
                    IF run[m] /\ ~MustChange(m, dl, new) THEN timer[m]
                    ELSE IF NeedsTimer(m, new)
                    THEN [modes |-> IF m = "r" /\ Combo(new) THEN Mode ELSE {m}, n |-> seq'[m]]
                    ELSE Unarmed]
    /\ todo' = [todo EXCEPT ![Setter] = expired]
    /\ Goto(Setter, IF expired = {} THEN "unlock" ELSE "unblock")
    /\ UNCHANGED <<phase, fdseq, sem, closing, count, woken, taken, arg, kernel, sets>>

-----------------------------------------------------------------------------
(* Timer callbacks: netpollReadDeadline, netpollWriteDeadline, netpollDeadline *)

\* timer.unlockAndRun: the timer of m expires, and its function starts on a P with
\* the arg and seq it had then.  It does not run again.
Fire(p, m) ==
    /\ pc[p] = "idle"
    /\ timer[m].modes # {}
    /\ arg' = [arg EXCEPT ![p] = [modes |-> timer[m].modes, n |-> timer[m].n, err |-> FALSE]]
    /\ timer' = [timer EXCEPT ![m] = Unarmed]
    /\ Goto(p, "lock")
    /\ UNCHANGED <<phase, fdseq, info, sem, lock, closing, dl, run, seq, count,
                   todo, woken, taken, kernel, sets>>

\* The mode whose seq and deadline the callback tests first.
First(p) == IF "r" \in arg[p].modes THEN "r" ELSE "w"

IsStale(p) == arg[p].n # seq[First(p)]

DeadlineStale(p) ==
    /\ pc[p] = "lock"
    /\ lock = Nil
    /\ IsStale(p)
    /\ arg' = [arg EXCEPT ![p] = NoArg]
    /\ Goto(p, "idle")
    /\ UNCHANGED <<phase, fdseq, info, sem, lock, desc, count, todo, woken, taken,
                   kernel, sets>>

\* The deadline of m expires.
Expire(p, m) ==
    /\ dl' = [dl EXCEPT ![m] = "expired"]
    /\ info' = Published(closing, dl', fdseq)
    /\ todo' = [todo EXCEPT ![p] = {m}]
    /\ Goto(p, "unblock")
    /\ UNCHANGED <<phase, fdseq, sem, closing, run, seq, timer, count, woken, taken, arg,
                   kernel, sets>>

DeadlineFirst(p) ==
    /\ pc[p] = "lock"
    /\ lock = Nil
    /\ ~IsStale(p)
    /\ lock' = p
    /\ Expire(p, First(p))

\* The timer stood for both deadlines.
DeadlineWrite(p) ==
    /\ pc[p] = "write"
    /\ Expire(p, "w")
    /\ UNCHANGED lock

-----------------------------------------------------------------------------
(* The owner: pollOpen, pollUnblock, pollClose *)

\* alloc and the part of pollOpen under the lock.
Open ==
    /\ pc[Owner] = "idle"
    /\ phase = "none"
    /\ lock = Nil
    /\ fdseq <= MaxOpen
    /\ dl' = [m \in Mode |-> "none"]
    /\ LET s == IF fdseq = 0 THEN 1 ELSE fdseq
       IN  /\ fdseq' = s
           /\ info' = [Published(FALSE, dl', s) EXCEPT !.err = FALSE]
    /\ closing' = FALSE
    /\ seq' = [m \in Mode |-> seq[m] + 1]
    /\ sem' = [m \in Mode |-> "nil"]
    /\ Goto(Owner, "register")
    /\ UNCHANGED <<phase, lock, run, timer, count, local, kernel, sets>>

\* netpollopen: the kernel knows the descriptor under this tag, or refuses it.
Register ==
    /\ pc[Owner] = "register"
    /\ \/ /\ kernel' = [kernel EXCEPT !.reg = fdseq]
          /\ phase' = "open"
          /\ Goto(Owner, "idle")
       \/ /\ Goto(Owner, "free")
          /\ UNCHANGED <<kernel, phase>>
    /\ UNCHANGED <<fdseq, info, sem, lock, desc, count, local, sets>>

\* FD.Close: increfAndClose, then evict.
Close ==
    /\ pc[Owner] = "idle"
    /\ phase = "open"
    /\ fdseq < MaxOpen
    /\ phase' = "closed"
    /\ Goto(Owner, "evict")
    /\ UNCHANGED <<fdseq, info, sem, lock, desc, count, local, kernel, sets>>

\* Mutant: the timers are not invalidated.
InvalidatedNever(s) == s

Invalidated(s) == [m \in Mode |-> s[m] + 1]

pollUnblock ==
    /\ pc[Owner] = "evict"
    /\ lock = Nil
    /\ lock' = Owner
    /\ closing' = TRUE
    /\ seq' = Invalidated(seq)
    /\ info' = Published(TRUE, dl, fdseq)
    /\ todo' = [todo EXCEPT ![Owner] = Mode]
    /\ Goto(Owner, "unblock")
    /\ UNCHANGED <<phase, fdseq, sem, dl, run, timer, count, woken, taken, arg, kernel, sets>>

\* The last reference is dropped: pollClose and netpollclose.
pollClose ==
    /\ pc[Owner] = "decref"
    /\ \A p \in Blocker \cup {Setter} : pc[p] = "idle"
    /\ kernel' = NoFile
    /\ Goto(Owner, "free")
    /\ UNCHANGED <<phase, fdseq, info, sem, lock, desc, count, local, sets>>

\* pollCache.free: first the seq, then what setEventErr sees of it.
FreeSeq ==
    /\ pc[Owner] = "free"
    /\ lock = Nil
    /\ lock' = Owner
    /\ fdseq' = fdseq + 1
    /\ Goto(Owner, "publish")
    /\ UNCHANGED <<phase, info, sem, desc, count, local, kernel, sets>>

FreePublish ==
    /\ pc[Owner] = "publish"
    /\ info' = Published(closing, dl, fdseq)
    /\ lock' = Nil
    /\ phase' = "none"
    /\ Goto(Owner, "idle")
    /\ UNCHANGED <<fdseq, sem, desc, count, local, kernel, sets>>

-----------------------------------------------------------------------------
(* The kernel (external) and netpoll *)

\* The file becomes ready in mode m: an edge, if the file is registered.
Arrive(m) ==
    /\ kernel.reg # 0
    /\ m \notin kernel.avail
    /\ kernel' = [kernel EXCEPT !.avail = @ \cup {m}, !.edge = @ \cup {m}]
    /\ UNCHANGED <<phase, fdseq, info, sem, lock, desc, count, pc, local, sets>>

\* EPOLLERR, at first on its own.
Fail ==
    /\ kernel.reg # 0
    /\ ~kernel.err /\ kernel.avail = {} /\ kernel.edge = {}
    /\ kernel' = [kernel EXCEPT !.err = TRUE, !.edge = Mode]
    /\ UNCHANGED <<phase, fdseq, info, sem, lock, desc, count, pc, local, sets>>

\* epoll_wait returns an event with the tag of the registration.
Poll ==
    /\ pc[Poller] = "idle"
    /\ kernel.edge # {}
    /\ arg' = [arg EXCEPT ![Poller] =
                  [modes |-> IF kernel.err THEN Mode ELSE kernel.edge, n |-> kernel.reg,
                   err |-> kernel.err /\ kernel.avail = {}]]
    /\ kernel' = [kernel EXCEPT !.edge = {}]
    /\ Goto(Poller, "tag")
    /\ UNCHANGED <<phase, fdseq, info, sem, lock, desc, count, todo, woken, taken, sets>>

PollTag ==
    /\ pc[Poller] = "tag"
    /\ \/ fdseq = arg[Poller].n /\ Goto(Poller, "err") /\ UNCHANGED arg
       \/ /\ fdseq # arg[Poller].n
          /\ Goto(Poller, "idle")
          /\ arg' = [arg EXCEPT ![Poller] = NoArg]
    /\ UNCHANGED <<phase, fdseq, info, sem, lock, desc, count, todo, woken, taken,
                   kernel, sets>>

\* Mutant: the error bit is set whatever file the descriptor is used for.
MatchesAlways(tag) == TRUE

Matches(tag) == info.seq = tag

setEventErr ==
    /\ pc[Poller] = "err"
    /\ info' = IF Matches(arg[Poller].n) THEN [info EXCEPT !.err = arg[Poller].err] ELSE info
    /\ todo' = [todo EXCEPT ![Poller] = arg[Poller].modes]
    /\ Goto(Poller, "unblock")
    /\ UNCHANGED <<phase, fdseq, sem, lock, desc, count, woken, taken, arg, kernel, sets>>

-----------------------------------------------------------------------------
UnblockerStep(p) == netpollunblock(p) \/ Unlock(p) \/ (\E m \in Mode : Goready(p, m)) \/ Adjust(p)
SetterStep ==
    \/ SetClosing
    \/ \E d \in Time \cup {"none", "expired"}, ms \in {{"r"}, {"w"}, Mode} : SetTimers(d, ms)
    \/ UnblockerStep(Setter)
CallbackStep(p) == DeadlineStale(p) \/ DeadlineFirst(p) \/ DeadlineWrite(p) \/ UnblockerStep(p)
OwnerStep == Register \/ pollUnblock \/ pollClose \/ FreeSeq \/ FreePublish \/ UnblockerStep(Owner)
PollerStep == Poll \/ PollTag \/ setEventErr \/ UnblockerStep(Poller)

Next ==
    \/ \E m \in Blocker : Start(m) \/ IoStep(m)
    \/ AddWaiter
    \/ SetDeadline \/ SetterStep
    \/ \E p \in Callback : CallbackStep(p) \/ \E m \in Mode : Fire(p, m)
    \/ Open \/ Close \/ OwnerStep
    \/ Fail \/ \E m \in Blocker : Arrive(m)
    \/ PollerStep

Spec == Init /\ [][Next]_vars

-----------------------------------------------------------------------------
(* Properties *)

\* A goroutine that is parked, or about to park and not to test again.
Sleeping(m) == (pc[m] = "parked" /\ sem[m] = "G") \/ (pc[m] = "commit" /\ sem[m] = "wait")

\* No readiness is lost: if the file is ready while a goroutine sleeps for it,
\* the event is still in the kernel or in the hands of the poller.  Events are
\* edges, so that there is no second chance, and rg and wg hold at most one of
\* them, which timeouts and resets share.
NoLostReadiness ==
    \A m \in Blocker : Sleeping(m) /\ m \in kernel.avail =>
        \/ m \in kernel.edge
        \/ m \in todo[Poller]
        \/ pc[Poller] \in {"tag", "err"} /\ m \in arg[Poller].modes /\ arg[Poller].n = fdseq

\* Nobody sleeps past a deadline that has expired or a close: whoever recorded
\* it is going to unblock the goroutine (netpoll.go:571-573, "do the opposite").
NobodyStranded ==
    \A m \in Blocker : Sleeping(m) /\ (closing \/ dl[m] = "expired") => lock # Nil /\ m \in todo[lock]

\* A goroutine is handed to goready exactly once for each time it parks: a
\* second one would find it running.
WokenOnce ==
    \A m \in Blocker :
        LET wakers == {p \in Unblocker : pc[p] \in {"unblock", "write", "unlock", "ready"}
                                         /\ m \in woken[p]}
        IN  IF pc[m] = "parked" /\ sem[m] # "G" THEN Cardinality(wakers) = 1 ELSE wakers = {}

\* The callback of timer m for the current deadline of mode k is on its way.
Live(m, k) ==
    \/ k \in timer[m].modes /\ timer[m].n = seq[m]
    \/ \E p \in Callback : pc[p] = "lock" /\ k \in arg[p].modes
                           /\ First(p) = m /\ arg[p].n = seq[m]

\* No deadline is lost: while a file has a deadline in the future, a timer that
\* will not be taken for a stale one stands for it, its own or the one shared
\* by both modes.
DeadlineArmed ==
    lock = Nil /\ ~closing =>
        \A k \in Mode : dl[k] \in Time => \E m \in Mode : Live(m, k)

\* The conditions of the throws: a second waiter ("double wait"), a goroutine
\* that wakes up in its own slot ("corrupted polldesc"), a timer for a deadline
\* that is not there ("inconsistent read deadline", "... write deadline"), a
\* descriptor that is closed or opened under a waiter.
NoThrow ==
    /\ \A m \in Blocker : /\ pc[m] = "block" => sem[m] \in {"nil", "ready"}
                          /\ pc[m] = "swap" => sem[m] # "G"
    /\ \A p \in Callback :
          /\ pc[p] = "lock" /\ lock = Nil /\ ~IsStale(p) =>
                dl[First(p)] \in Time /\ run[First(p)]
          /\ pc[p] = "write" => dl["w"] \in Time
    /\ pc[Owner] = "free" \/ phase = "none" => \A m \in Mode : sem[m] \in {"nil", "ready"}

\* Who is to be counted out, and by whom.
CountedOut == {pm \in Unblocker \X Mode : pm[2] \in taken[pm[1]]}

\* netpollWaiters is the goroutines in the slots, and those whose waker has not
\* counted them out, without those whose M has not counted them in: it can be
\* short, and even pass below zero, but no addition or subtraction is lost.
WaitersExact ==
    waiters = Plus(Cardinality({m \in Mode : sem[m] = "G"}) + Cardinality(CountedOut), -adding)

\* An idle scheduler blocks in netpoll only if there are waiters (proc.go:3732):
\* a goroutine in a slot is not overlooked, unless an M is still to count one in,
\* which then looks for work itself.
WaitersSeen == adding = 0 /\ (\E m \in Mode : sem[m] = "G") => waiters > 0

\* Whoever finds a goroutine in rg or wg, be it a close, a deadline or the poller,
\* is the only one to ready it and to count it out, although both may come before
\* it is counted in; and the throws are dead.
NetpollInv ==
    /\ TypeOK
    /\ NoThrow
    /\ WokenOnce
    /\ WaitersExact
    /\ WaitersSeen

\* The error of an event is reported only for the file that had it, although
\* the poller may deliver it when the descriptor is used for the next file
\* (netpoll.go:175-176, issue 59545).
EventErrFresh == phase = "open" /\ info.err => kernel.err
=============================================================================
