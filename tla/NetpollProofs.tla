---------------------------- MODULE NetpollProofs ----------------------------
(***************************************************************************)
(* What holds of Netpoll for any set of callbacks and of times and any      *)
(* number of deadline changes and files: NetpollInv, NoLostReadiness,       *)
(* NobodyStranded, DeadlineArmed and EventErrFresh.                         *)
(*                                                                         *)
(* Each of them needs more than it says.  ControlInv is who holds pd.lock,  *)
(* what an unblocker has still to do, which uses of the file exclude each   *)
(* other, and that the info word agrees with the fields it was made from.   *)
(* WakeInv ties the slots rg and wg to the goroutines and every woken       *)
(* goroutine to one waker.  CountInv is what netpollWaiters stands for at    *)
(* every moment, modulo its range: additions and subtractions lag behind.    *)
(* ReadinessInv extends NoLostReadiness to the whole way from EAGAIN to the *)
(* park, ErrInv says which tags the poller can have in its hands, and       *)
(* TimerInv that of the timers and callbacks of a mode at most one is not   *)
(* stale, that it stands for the deadlines that are there, and that a       *)
(* callback for both modes keeps the lock between them.                     *)
(***************************************************************************)
EXTENDS Netpoll, FiniteSetTheorems, TLAPS

-----------------------------------------------------------------------------
(* How a count changes when one element joins or leaves *)

\* A part of a finite set has a number of elements, zero only if it is empty.
LEMMA CountNat ==
    ASSUME NEW G, IsFiniteSet(G), NEW S \in SUBSET G
    PROVE  IsFiniteSet(S) /\ Cardinality(S) \in Nat /\ (Cardinality(S) = 0 <=> S = {})
  BY FS_Subset, FS_CardinalityType, FS_EmptySet

\* One element joins.
LEMMA CountJoin ==
    ASSUME NEW S, IsFiniteSet(S), NEW x, x \notin S, NEW T, T = S \cup {x}
    PROVE  IsFiniteSet(T) /\ Cardinality(T) = Cardinality(S) + 1
  BY FS_AddElement

\* Disjoint sets add up.
LEMMA CountDisjoint ==
    ASSUME NEW S, IsFiniteSet(S), NEW T, IsFiniteSet(T), S \cap T = {}
    PROVE  IsFiniteSet(S \cup T) /\ Cardinality(S \cup T) = Cardinality(S) + Cardinality(T)
  BY FS_Union, FS_EmptySet, FS_CardinalityType

-----------------------------------------------------------------------------
(* The inductive invariant *)

\* What each of the unblockers does.
RolePC(p) ==
    CASE p = Setter -> {"idle", "lock", "unblock", "unlock", "ready"}
      [] p = Owner -> {"idle", "register", "evict", "unblock", "unlock", "ready", "decref",
                       "free", "publish"}
      [] p = Poller -> {"idle", "tag", "err", "unblock", "ready"}
      [] OTHER -> {"idle", "lock", "write", "unblock", "unlock", "ready"}

Timer == [modes : SUBSET Mode, n : Nat]
Arg == [modes : SUBSET Mode, n : Nat, err : BOOLEAN]

\* The variables as functions and records.
ShapeInv ==
    /\ pc \in [Blocker \cup Unblocker -> IoPC \cup UnblockerPC]
    /\ \A m \in Blocker : pc[m] \in IoPC
    /\ \A p \in Unblocker : pc[p] \in RolePC(p)
    /\ todo \in [Unblocker -> SUBSET Mode] /\ woken \in [Unblocker -> SUBSET Mode]
    /\ arg \in [Unblocker -> Arg]
    /\ dl \in [Mode -> Time \cup {"none", "expired"}] /\ closing \in BOOLEAN
    /\ run \in [Mode -> BOOLEAN] /\ seq \in [Mode -> Nat] /\ timer \in [Mode -> Timer]
    /\ sem \in [Mode -> {"nil", "ready", "wait", "G"}]
    /\ lock \in Unblocker \cup {Nil}
    /\ phase \in {"none", "open", "closed"} /\ fdseq \in 0..(MaxOpen + 1)
    /\ info \in [closing : BOOLEAN, expired : SUBSET Mode, err : BOOLEAN, seq : 0..(MaxOpen + 1)]
    /\ kernel \in [reg : 0..(MaxOpen + 1), avail : SUBSET Mode, edge : SUBSET Mode, err : BOOLEAN]
    /\ sets \in 0..MaxSet

\* pd.lock is held where the code holds it; the poller never does.
LockInv ==
    \A p \in Unblocker :
        lock = p <=> p # Poller /\ pc[p] \in {"unblock", "write", "unlock", "publish"}

\* There is something to unblock exactly in netpollunblock.
TodoInv == \A p \in Unblocker : pc[p] = "unblock" <=> todo[p] # {}

\* The life of the file: nobody uses it before it is open or after its last reference.
LifeInv ==
    /\ phase = "open" => pc[Owner] = "idle"
    /\ pc[Owner] \in {"evict", "unblock", "unlock", "ready", "decref"} => phase = "closed"
    /\ pc[Owner] = "register" => phase = "none"
    /\ phase = "closed" => pc[Owner] # "idle"
    /\ phase = "none" \/ pc[Owner] \in {"free", "publish"} =>
           /\ \A p \in Blocker \cup {Setter} : pc[p] = "idle"
           /\ kernel = NoFile
    /\ phase # "none" \/ pc[Owner] \in {"register", "free"} => fdseq \in 1..(MaxOpen + 1)
    /\ pc[Owner] # "publish" /\ (phase # "none" \/ pc[Owner] \in {"register", "free"}) => fdseq <= MaxOpen
    /\ phase # "none" /\ pc[Owner] \notin {"free", "publish"} => kernel.reg = fdseq

\* The info word agrees with the fields; the seq of a freed descriptor follows a step later.
InfoInv ==
    /\ info.closing = closing
    /\ info.expired = {m \in Mode : dl[m] = "expired"}
    /\ pc[Owner] # "publish" => info.seq = fdseq
    /\ pc[Owner] = "publish" => info.seq + 1 = fdseq

ControlInv == ShapeInv /\ LockInv /\ TodoInv /\ LifeInv /\ InfoInv

\* What rg and wg hold says where the goroutine is.
SemInv ==
    \A m \in Mode :
        /\ sem[m] = "G" => m \in Blocker /\ pc[m] = "parked"
        /\ sem[m] = "wait" => m \in Blocker /\ pc[m] \in {"recheck", "commit", "swap"}

\* A parked goroutine whose slot was taken is in the hands of one unblocker.
WokenInv ==
    /\ \A p \in Unblocker :
          /\ woken[p] # {} => pc[p] \in {"unblock", "write", "unlock", "ready"}
          /\ \A m \in woken[p] : m \in Blocker /\ pc[m] = "parked" /\ sem[m] # "G"
    /\ \A m \in Blocker : pc[m] = "parked" /\ sem[m] # "G" => \E p \in Unblocker : m \in woken[p]
    /\ \A p, q \in Unblocker : p # q => woken[p] \cap woken[q] = {}

WakeInv == SemInv /\ WokenInv

\* An unblocker counts out whom it readies, once for each slot it takes: both in the
\* order of the modes, "r" first.
TakenInv ==
    \A p \in Unblocker :
        /\ pc[p] # "ready" => taken[p] = woken[p]
        /\ "r" \in todo[p] => woken[p] = {}
        /\ pc[p] \in {"unblock", "write"} => "w" \notin woken[p]

CountInv ==
    /\ taken \in [Unblocker -> SUBSET Mode] /\ adding \in 0..MaxAdding
    /\ TakenInv
    /\ WaitersExact

\* The event for m is in the kernel or in the hands of the poller.
Coming(m) ==
    \/ m \in kernel.edge
    \/ m \in todo[Poller]
    \/ pc[Poller] \in {"tag", "err"} /\ m \in arg[Poller].modes /\ arg[Poller].n = fdseq

\* From the EAGAIN on, a file that is ready has its event coming or recorded.
ReadinessInv ==
    \A m \in Blocker :
        pc[m] \in {"check", "block", "recheck", "commit", "parked", "swap", "failed"}
        /\ m \in kernel.avail => Coming(m) \/ sem[m] = "ready"

\* A tag is not newer than the descriptor, and equal to it only for the current file.
TagInv ==
    pc[Poller] \in {"tag", "err"} =>
        /\ arg[Poller].modes # {} /\ arg[Poller].n >= 1 /\ arg[Poller].n <= fdseq
        /\ arg[Poller].n = fdseq => kernel.reg = fdseq \/ pc[Owner] = "free"
        /\ arg[Poller].n = fdseq /\ kernel.reg = fdseq /\ arg[Poller].err => kernel.err

ErrInv ==
    /\ TagInv
    /\ pc[Owner] = "register" => ~info.err
    /\ EventErrFresh

\* A timer, or the callback it became, that is not stale: what it stands for.
Good(m, ms) ==
    /\ run[m] /\ dl[m] \in Time
    /\ ms = IF m = "r" /\ Combo(dl) THEN Mode ELSE {m}
    /\ m = "w" => ~Combo(dl)

\* A callback for both modes has recorded the first.
Halfway(p) ==
    \/ pc[p] = "write"
    \/ pc[p] = "unblock" /\ todo[p] = {"r"} /\ "w" \in arg[p].modes

Armed(m) == timer[m].modes # {} /\ timer[m].n = seq[m]
Running(p, m) == pc[p] = "lock" /\ First(p) = m /\ arg[p].n = seq[m]

\* A timer is for its own mode, or that of reads for both, and never newer than seq.
TimerShape ==
    /\ \A m \in Mode : timer[m].modes # {} =>
          /\ timer[m].modes = {m} \/ (m = "r" /\ timer[m].modes = Mode)
          /\ timer[m].n <= seq[m]
    /\ \A p \in Callback : /\ pc[p] = "lock" => arg[p].n <= seq[First(p)]
                           /\ pc[p] = "unblock" => todo[p] \in {{"r"}, {"w"}}

\* What is not stale stands for the deadlines that are there, and is the only one.
ValidInv ==
    /\ \A m \in Mode : Armed(m) => Good(m, timer[m].modes) /\ ~closing
    /\ \A m \in Mode, p \in Callback : Running(p, m) => Good(m, arg[p].modes) /\ ~closing /\ ~Armed(m)
    /\ \A m \in Mode, p, q \in Callback : Running(p, m) /\ Running(q, m) => p = q

\* Between its two modes a callback is alone with the write deadline.
HalfwayInv ==
    \A p \in Callback : Halfway(p) =>
        /\ dl["r"] = "expired" /\ dl["w"] \in Time
        /\ ~Armed("w") /\ \A q \in Callback : ~Running(q, "w")

\* Every deadline in the future has what will make it expire.
DeadlineInv ==
    ~closing => \A k \in Mode : dl[k] \in Time =>
        \/ \E m \in Mode : Live(m, k)
        \/ k = "w" /\ \E p \in Callback : Halfway(p)

EvictInv == pc[Owner] \in {"unblock", "unlock"} => closing

TimerInv == TimerShape /\ ValidInv /\ HalfwayInv /\ DeadlineInv /\ EvictInv

IInv == ControlInv /\ WakeInv /\ CountInv /\ NobodyStranded /\ ReadinessInv /\ ErrInv /\ TimerInv

-----------------------------------------------------------------------------
(* Control *)

\* The unblockers are different from each other and from the goroutines.
LEMMA Roles ==
    /\ Setter \in Unblocker /\ Owner \in Unblocker /\ Poller \in Unblocker
    /\ Callback \subseteq Unblocker
    /\ Setter # Owner /\ Setter # Poller /\ Owner # Poller
    /\ Setter \notin Callback /\ Owner \notin Callback /\ Poller \notin Callback
    /\ \A p \in Unblocker : p \notin Blocker /\ p # Nil
    /\ \A m \in Blocker : m \notin Unblocker /\ m \in Mode
    /\ MaxOpen \in Nat /\ MaxOpen >= 1 /\ MaxSet \in Nat
  BY NetpollAssumption DEF Unblocker

\* The places of each.
LEMMA RolePCs ==
    /\ RolePC(Setter) = {"idle", "lock", "unblock", "unlock", "ready"}
    /\ RolePC(Owner) = {"idle", "register", "evict", "unblock", "unlock", "ready", "decref",
                        "free", "publish"}
    /\ RolePC(Poller) = {"idle", "tag", "err", "unblock", "ready"}
    /\ \A p \in Callback :
          RolePC(p) = {"idle", "lock", "write", "unblock", "unlock", "ready"}
    /\ \A p \in Unblocker : RolePC(p) \subseteq UnblockerPC
<1>1. RolePC(Setter) = {"idle", "lock", "unblock", "unlock", "ready"}
  BY Roles DEF RolePC
<1>2. RolePC(Owner) = {"idle", "register", "evict", "unblock", "unlock", "ready", "decref",
                       "free", "publish"}
  BY Roles DEF RolePC
<1>3. RolePC(Poller) = {"idle", "tag", "err", "unblock", "ready"}
  BY Roles DEF RolePC
<1>4. \A p \in Callback : RolePC(p) = {"idle", "lock", "write", "unblock", "unlock", "ready"}
  BY Roles DEF RolePC
<1>5. \A p \in Unblocker : p \in {Setter, Owner, Poller} \/ p \in Callback
  BY DEF Unblocker
<1> QED BY <1>1, <1>2, <1>3, <1>4, <1>5 DEF UnblockerPC

\* A step that moves q to l.
LEMMA Moves ==
    ASSUME ShapeInv, NEW q \in Blocker \cup Unblocker, NEW CONSTANT l, Goto(q, l),
           IF q \in Blocker THEN l \in IoPC ELSE l \in RolePC(q)
    PROVE  /\ pc'[q] = l
           /\ \A p \in Blocker \cup Unblocker : p # q => pc'[p] = pc[p]
           /\ pc' \in [Blocker \cup Unblocker -> IoPC \cup UnblockerPC]
           /\ \A m \in Blocker : pc'[m] \in IoPC
           /\ \A p \in Unblocker : pc'[p] \in RolePC(p)
<1>1. /\ pc \in [Blocker \cup Unblocker -> IoPC \cup UnblockerPC]
      /\ pc' = [pc EXCEPT ![q] = l]
      /\ \A m \in Blocker : pc[m] \in IoPC
      /\ \A p \in Unblocker : pc[p] \in RolePC(p)
  BY DEF ShapeInv, Goto
<1>2. l \in IoPC \cup UnblockerPC
  BY RolePCs, Roles
<1>3. pc'[q] = l /\ \A p \in Blocker \cup Unblocker : p # q => pc'[p] = pc[p]
  BY <1>1
<1> QED BY <1>1, <1>2, <1>3, Roles

\* The steps of I/O touch pc, sem, adding and the kernel's avail only.
LEMMA IoControl ==
    ASSUME ControlInv, NEW m \in Blocker, Start(m) \/ IoStep(m)
    PROVE  ControlInv'
<1> USE DEF ControlInv
<1>1. PICK l \in IoPC : Goto(m, l)
  BY DEF IoPC, Start, IoStep, Reset, ResetStore, Io, Check, Block, Recheck, Commit, SwapNil, Failed
<1>2. /\ pc'[m] = l
      /\ \A p \in Blocker \cup Unblocker : p # m => pc'[p] = pc[p]
      /\ pc' \in [Blocker \cup Unblocker -> IoPC \cup UnblockerPC]
      /\ \A k \in Blocker : pc'[k] \in IoPC
      /\ \A p \in Unblocker : pc'[p] \in RolePC(p)
  BY <1>1, Moves
<1>3. \A p \in Unblocker : pc'[p] = pc[p]
  BY <1>2, Roles
<1>4. UNCHANGED <<phase, fdseq, info, lock, closing, dl, run, seq, timer, todo, woken, arg, sets>>
  BY DEF Start, IoStep, Reset, ResetStore, Io, Check, Block, Recheck, Commit, SwapNil, Failed,
         IoVars, desc, local
<1>5. sem' = sem \/ \E v \in {"nil", "ready", "wait", "G"} : sem' = [sem EXCEPT ![m] = v]
  BY DEF Start, IoStep, Reset, ResetStore, Io, Check, Block, Recheck, Commit, SwapNil, Failed
<1>6. sem' \in [Mode -> {"nil", "ready", "wait", "G"}]
  BY <1>5 DEF ShapeInv
<1>7. kernel' = kernel \/ kernel' = [kernel EXCEPT !.avail = @ \ {m}]
  BY DEF Start, IoStep, Reset, ResetStore, Io, Check, Block, Recheck, Commit, SwapNil, Failed
<1>8. ShapeInv'
  BY <1>2, <1>4, <1>6, <1>7 DEF ShapeInv
<1>9. LockInv' /\ TodoInv' /\ InfoInv'
  BY <1>3, <1>4, Roles DEF LockInv, TodoInv, InfoInv
<1>10. LifeInv'
  <2>1. phase # "none" /\ pc[Owner] \notin {"free", "publish"}
    <3>1. pc[m] # "idle" \/ phase = "open"
      BY DEF Start, IoStep, Reset, ResetStore, Io, Check, Block, Recheck, Commit, SwapNil, Failed
    <3> QED BY <3>1, Roles DEF LifeInv
  <2>2. kernel'.reg = kernel.reg
    BY <1>7 DEF ShapeInv
  <2> QED BY <1>3, <1>4, <2>1, <2>2, Roles DEF LifeInv
<1> QED BY <1>8, <1>9, <1>10

\* netpollunblock for mode m, after which p is at l.
UnblockStep(p, m, l) ==
    /\ pc[p] = "unblock" /\ m \in todo[p] /\ m \in Mode /\ ("r" \in todo[p] => m = "r")
    /\ sem' = [sem EXCEPT ![m] = IF sem[m] = "ready" \/ (sem[m] = "nil" /\ p # Poller) THEN sem[m]
                                 ELSE IF p = Poller THEN "ready" ELSE "nil"]
    /\ woken' = [woken EXCEPT ![p] = IF sem[m] = "G" THEN woken[p] \cup {m} ELSE woken[p]]
    /\ taken' = [taken EXCEPT ![p] = IF sem[m] = "G" THEN taken[p] \cup {m} ELSE taken[p]]
    /\ todo' = [todo EXCEPT ![p] = todo[p] \ {m}]
    /\ Goto(p, l)
    /\ \/ todo[p] # {m} /\ l = "unblock" /\ arg' = arg
       \/ /\ todo[p] = {m} /\ l = "write" /\ arg' = arg
          /\ p \in Callback /\ m = "r" /\ "w" \in arg[p].modes
       \/ /\ todo[p] = {m} /\ l = "unlock" /\ arg' = [arg EXCEPT ![p] = NoArg]
          /\ p # Poller /\ ~(p \in Callback /\ m = "r" /\ "w" \in arg[p].modes)
       \/ /\ todo[p] = {m} /\ p = Poller /\ arg' = [arg EXCEPT ![p] = NoArg]
          /\ l = IF woken'[p] = {} THEN "idle" ELSE "ready"
    /\ UNCHANGED <<phase, fdseq, info, lock, closing, dl, run, seq, timer, count, kernel, sets>>

\* netpollunblock is such a step.
LEMMA UnblockIs ==
    ASSUME ControlInv, NEW p \in Unblocker, netpollunblock(p)
    PROVE  \E m \in Mode, l \in RolePC(p) : UnblockStep(p, m, l)
<1> USE DEF ControlInv
<1>1. PICK m : m = IF "r" \in todo[p] THEN "r" ELSE "w"
  OBVIOUS
<1>2. pc[p] = "unblock" /\ todo[p] # {} /\ todo[p] \subseteq Mode
  BY DEF netpollunblock, TodoInv, ShapeInv
<1>3. m \in todo[p] /\ m \in Mode /\ ("r" \in todo[p] => m = "r")
  BY <1>1, <1>2 DEF Mode
<1>4. PICK l : l = IF todo[p] = {m} THEN AfterUnblock(p, m) ELSE "unblock"
  OBVIOUS
<1>5. /\ sem' = [sem EXCEPT ![m] = IF sem[m] = "ready" \/ (sem[m] = "nil" /\ p # Poller) THEN sem[m]
                                   ELSE IF p = Poller THEN "ready" ELSE "nil"]
      /\ woken' = [woken EXCEPT ![p] = IF sem[m] = "G" THEN woken[p] \cup {m} ELSE woken[p]]
      /\ taken' = [taken EXCEPT ![p] = IF sem[m] = "G" THEN taken[p] \cup {m} ELSE taken[p]]
      /\ todo' = [todo EXCEPT ![p] = todo[p] \ {m}]
      /\ UNCHANGED <<phase, fdseq, info, lock, closing, dl, run, seq, timer, count, kernel, sets>>
  BY <1>1 DEF netpollunblock, Leaves, ToReady, desc
<1>6. /\ Goto(p, l)
      /\ arg' = IF todo[p] = {m} /\ AfterUnblock(p, m) # "write" THEN [arg EXCEPT ![p] = NoArg] ELSE arg
  BY <1>1, <1>4 DEF netpollunblock
<1>7. /\ \/ todo[p] # {m} /\ l = "unblock" /\ arg' = arg
         \/ /\ todo[p] = {m} /\ l = "write" /\ arg' = arg
            /\ p \in Callback /\ m = "r" /\ "w" \in arg[p].modes
         \/ /\ todo[p] = {m} /\ l = "unlock" /\ arg' = [arg EXCEPT ![p] = NoArg]
            /\ p # Poller /\ ~(p \in Callback /\ m = "r" /\ "w" \in arg[p].modes)
         \/ /\ todo[p] = {m} /\ p = Poller /\ arg' = [arg EXCEPT ![p] = NoArg]
            /\ l = IF woken'[p] = {} THEN "idle" ELSE "ready"
  BY <1>4, <1>6, Roles DEF AfterUnblock
<1>8. l \in RolePC(p)
  BY <1>7, Roles, RolePCs DEF Unblocker
<1> QED BY <1>2, <1>3, <1>5, <1>6, <1>7, <1>8 DEF UnblockStep

\* netpollunblock keeps the control.
LEMMA UnblockControl ==
    ASSUME ControlInv, NEW p \in Unblocker, NEW m \in Mode, NEW CONSTANT l \in RolePC(p),
           UnblockStep(p, m, l)
    PROVE  ControlInv'
<1> USE DEF ControlInv
<1>1. /\ pc'[p] = l
      /\ \A x \in Blocker \cup Unblocker : x # p => pc'[x] = pc[x]
      /\ pc' \in [Blocker \cup Unblocker -> IoPC \cup UnblockerPC]
      /\ \A k \in Blocker : pc'[k] \in IoPC
      /\ \A x \in Unblocker : pc'[x] \in RolePC(x)
  BY Moves, Roles DEF UnblockStep
<1>2. /\ UNCHANGED <<phase, fdseq, info, lock, closing, dl, run, seq, timer, kernel, sets>>
      /\ pc[p] = "unblock" /\ m \in todo[p] /\ m \in Mode
  BY DEF UnblockStep
<1>3. sem' \in [Mode -> {"nil", "ready", "wait", "G"}]
  BY DEF UnblockStep, ShapeInv
<1>4. todo' \in [Unblocker -> SUBSET Mode] /\ woken' \in [Unblocker -> SUBSET Mode]
  BY DEF UnblockStep, ShapeInv
<1>5. arg' \in [Unblocker -> Arg]
  <2>1. NoArg \in Arg
    BY DEF NoArg, Arg
  <2>2. arg' = arg \/ arg' = [arg EXCEPT ![p] = NoArg]
    BY DEF UnblockStep
  <2> QED BY <2>1, <2>2 DEF ShapeInv
<1>6. ShapeInv'
  BY <1>1, <1>2, <1>3, <1>4, <1>5 DEF ShapeInv
<1>7. TodoInv'
  <2>1. \A x \in Unblocker : todo'[x] = IF x = p THEN todo[p] \ {m} ELSE todo[x]
    BY DEF UnblockStep, ShapeInv
  <2>2. l = "unblock" <=> todo[p] \ {m} # {}
    <3>1. m \in todo[p] /\ ((todo[p] # {m} /\ l = "unblock") \/ (todo[p] = {m} /\ l # "unblock"))
      BY DEF UnblockStep
    <3> QED BY <3>1
  <2> QED BY <1>1, <2>1, <2>2, Roles DEF TodoInv
<1>8. LockInv'
  <2>1. p # Poller => l \in {"unblock", "write", "unlock"}
    BY DEF UnblockStep
  <2> QED BY <1>1, <1>2, <2>1, Roles DEF LockInv
<1>9. InfoInv'
  <2>1. pc'[Owner] = "publish" <=> pc[Owner] = "publish"
    <3>1. l # "publish"
      BY DEF UnblockStep
    <3> QED BY <1>1, <1>2, <3>1, Roles
  <2> QED BY <1>2, <2>1 DEF InfoInv
<1>10. LifeInv'
  <2>1. CASE p = Owner
    <3>1. l \in {"unblock", "unlock"}
      BY <2>1, Roles DEF UnblockStep
    <3> QED BY <1>1, <1>2, <2>1, <3>1, Roles DEF LifeInv
  <2>2. CASE p # Owner
    <3>1. pc'[Owner] = pc[Owner]
      BY <1>1, <2>2, Roles
    <3>2. \A x \in Blocker \cup {Setter} : pc[x] = "idle" => pc'[x] = "idle"
      BY <1>1, <1>2, Roles
    <3> QED BY <1>2, <3>1, <3>2 DEF LifeInv
  <2> QED BY <2>1, <2>2
<1> QED BY <1>6, <1>7, <1>8, <1>9, <1>10

\* Releasing pd.lock, then readying the goroutines.
LEMMA UnlockControl ==
    ASSUME ControlInv, NEW p \in Unblocker, Unlock(p)
    PROVE  ControlInv'
<1> USE DEF ControlInv
<1>1. PICK l : l = IF woken[p] = {} THEN Done(p) ELSE "ready"
  OBVIOUS
<1>2. /\ pc[p] = "unlock" /\ lock' = Nil /\ Goto(p, l)
      /\ UNCHANGED <<phase, fdseq, info, sem, closing, dl, seq, todo, woken, arg, kernel, sets>>
  BY <1>1 DEF Unlock, local
<1>3. l \in RolePC(p) /\ l \notin {"unblock", "unlock", "write", "publish"}
  BY <1>1, <1>2, Roles, RolePCs DEF Done, Unblocker, ShapeInv
<1>4. /\ pc'[p] = l
      /\ \A x \in Blocker \cup Unblocker : x # p => pc'[x] = pc[x]
      /\ pc' \in [Blocker \cup Unblocker -> IoPC \cup UnblockerPC]
      /\ \A k \in Blocker : pc'[k] \in IoPC
      /\ \A x \in Unblocker : pc'[x] \in RolePC(x)
  BY <1>2, <1>3, Moves, Roles
<1>5. run' \in [Mode -> BOOLEAN] /\ timer' \in [Mode -> Timer]
  <2>1. Unarmed \in Timer
    BY DEF Unarmed, Timer
  <2>2. CASE p = Owner
    <3>1. timer' = [m \in Mode |-> Unarmed] /\ run' = [m \in Mode |-> FALSE]
      BY <2>2 DEF Unlock
    <3> QED BY <2>1, <3>1
  <2>3. CASE p # Owner
    <3>1. timer' = timer /\ run' = run
      BY <2>3 DEF Unlock
    <3> QED BY <3>1 DEF ShapeInv
  <2> QED BY <2>2, <2>3
<1>6. ShapeInv'
  BY <1>2, <1>4, <1>5 DEF ShapeInv
<1>7. TodoInv'
  BY <1>2, <1>3, <1>4, Roles DEF TodoInv
<1>8. LockInv'
  <2>1. lock = p /\ p # Poller
    BY <1>2, Roles, RolePCs DEF LockInv, ShapeInv
  <2> QED BY <1>2, <1>3, <1>4, <2>1, Roles DEF LockInv
<1>9. InfoInv'
  BY <1>2, <1>3, <1>4, Roles DEF InfoInv
<1>10. LifeInv'
  <2>1. CASE p = Owner
    <3>1. l \in {"decref", "ready"}
      BY <1>1, <2>1 DEF Done
    <3> QED BY <1>2, <1>4, <2>1, <3>1, Roles DEF LifeInv
  <2>2. CASE p # Owner
    <3>1. pc'[Owner] = pc[Owner] /\ pc[p] # "idle"
      BY <1>2, <1>4, <2>2, Roles
    <3>2. \A x \in Blocker \cup {Setter} : pc[x] = "idle" => pc'[x] = "idle"
      BY <1>2, <1>4, Roles
    <3> QED BY <1>2, <3>1, <3>2 DEF LifeInv
  <2> QED BY <2>1, <2>2
<1> QED BY <1>6, <1>7, <1>8, <1>9, <1>10

\* p readies the goroutines S, possibly none, and goes to l.
ReadyStep(p, S, l) ==
    /\ pc[p] = "ready" /\ S \in SUBSET woken[p]
    /\ l = "ready" \/ (l = Done(p) /\ S = woken[p])
    /\ pc' = [x \in Blocker \cup Unblocker |-> IF x \in S THEN "swap" ELSE IF x = p THEN l ELSE pc[x]]
    /\ woken' = [woken EXCEPT ![p] = woken[p] \ S]
    /\ UNCHANGED <<phase, fdseq, info, sem, lock, closing, dl, run, seq, timer, todo, arg, kernel, sets>>

\* Goready and Adjust are such steps.
LEMMA ReadyIs ==
    ASSUME ControlInv, WakeInv, NEW p \in Unblocker, (\E m \in Mode : Goready(p, m)) \/ Adjust(p)
    PROVE  \E S, l : ReadyStep(p, S, l)
<1>1. /\ pc \in [Blocker \cup Unblocker -> IoPC \cup UnblockerPC]
      /\ woken \in [Unblocker -> SUBSET Mode]
      /\ \A m \in woken[p] : m \in Blocker
  BY DEF ControlInv, ShapeInv, WakeInv, WokenInv
<1>2. ASSUME NEW m \in Mode, Goready(p, m) PROVE \E S, l : ReadyStep(p, S, l)
  <2>1. PICK l : l = IF woken[p] = {m} /\ taken[p] = {} THEN Done(p) ELSE "ready"
    OBVIOUS
  <2>2. m \in woken[p] /\ m \in Blocker /\ m # p /\ p \notin Blocker
    BY <1>1, <1>2, Roles DEF Goready, ReadyNext
  <2>3. pc' = [pc EXCEPT ![m] = "swap", ![p] = l]
    BY <1>2, <2>1 DEF Goready
  <2>4. pc' = [x \in Blocker \cup Unblocker |-> IF x \in {m} THEN "swap" ELSE IF x = p THEN l ELSE pc[x]]
    BY <1>1, <2>2, <2>3
  <2>5. /\ pc[p] = "ready" /\ woken' = [woken EXCEPT ![p] = woken[p] \ {m}]
        /\ UNCHANGED <<phase, fdseq, info, sem, lock, closing, dl, run, seq, timer, todo, arg, kernel, sets>>
    BY <1>2 DEF Goready, desc
  <2>6. {m} \in SUBSET woken[p] /\ (l = "ready" \/ (l = Done(p) /\ {m} = woken[p]))
    BY <2>1, <2>2
  <2>7. ReadyStep(p, {m}, l)
    BY <2>4, <2>5, <2>6 DEF ReadyStep
  <2> QED BY <2>7
<1>3. CASE Adjust(p)
  <2>1. PICK l : l = IF woken[p] = {} THEN Done(p) ELSE "ready"
    OBVIOUS
  <2>2. pc' = [x \in Blocker \cup Unblocker |-> IF x \in {} THEN "swap" ELSE IF x = p THEN l ELSE pc[x]]
    BY <1>1, <1>3, <2>1 DEF Adjust, Goto
  <2>3. /\ pc[p] = "ready" /\ woken' = woken
        /\ UNCHANGED <<phase, fdseq, info, sem, lock, closing, dl, run, seq, timer, todo, arg, kernel, sets>>
    BY <1>3 DEF Adjust, desc
  <2>4. woken' = [woken EXCEPT ![p] = woken[p] \ {}]
    BY <1>1, <2>3
  <2>5. {} \in SUBSET woken[p] /\ (l = "ready" \/ (l = Done(p) /\ {} = woken[p]))
    BY <2>1
  <2>6. ReadyStep(p, {}, l)
    BY <2>2, <2>3, <2>4, <2>5 DEF ReadyStep
  <2> QED BY <2>6
<1> QED BY <1>2, <1>3

\* What such a step does to the program counters.
LEMMA ReadyMoves ==
    ASSUME ControlInv, WakeInv, NEW p \in Unblocker, NEW CONSTANT S, NEW CONSTANT l, ReadyStep(p, S, l)
    PROVE  /\ \A x \in Blocker \cup Unblocker : pc'[x] = IF x \in S THEN "swap"
                                                         ELSE IF x = p THEN l ELSE pc[x]
           /\ pc' \in [Blocker \cup Unblocker -> IoPC \cup UnblockerPC]
           /\ \A m \in Blocker : pc'[m] \in IoPC
           /\ \A x \in Unblocker : pc'[x] \in RolePC(x) /\ pc'[x] = IF x = p THEN l ELSE pc[x]
           /\ l \in RolePC(p) /\ (l = "ready" \/ (l = Done(p) /\ l \in {"idle", "decref"}))
           /\ \A m \in S : m \in Blocker /\ pc[m] = "parked"
<1>1. /\ pc \in [Blocker \cup Unblocker -> IoPC \cup UnblockerPC]
      /\ \A m \in Blocker : pc[m] \in IoPC
      /\ \A x \in Unblocker : pc[x] \in RolePC(x)
      /\ \A m \in S : m \in Blocker /\ pc[m] = "parked"
  BY DEF ControlInv, ShapeInv, WakeInv, WokenInv, ReadyStep
<1>2. pc' = [x \in Blocker \cup Unblocker |-> IF x \in S THEN "swap" ELSE IF x = p THEN l ELSE pc[x]]
  BY DEF ReadyStep
<1>3. /\ l \in RolePC(p) /\ l \in UnblockerPC
      /\ l = "ready" \/ (l = Done(p) /\ l \in {"idle", "decref"})
  <2>1. Done(p) \in RolePC(p) /\ Done(p) \in {"idle", "decref"} /\ "ready" \in RolePC(p)
    BY Roles, RolePCs DEF Done, Unblocker
  <2> QED BY <2>1, RolePCs DEF ReadyStep
<1>4. "swap" \in IoPC
  BY DEF IoPC
<1>5. \A x \in Blocker \cup Unblocker : pc'[x] = IF x \in S THEN "swap"
                                                 ELSE IF x = p THEN l ELSE pc[x]
  BY <1>2
<1>6. \A m \in Blocker : pc'[m] \in IoPC
  BY <1>1, <1>4, <1>5, Roles
<1>7. \A x \in Unblocker : pc'[x] \in RolePC(x) /\ pc'[x] = IF x = p THEN l ELSE pc[x]
  BY <1>1, <1>3, <1>5, Roles
<1>8. pc' \in [Blocker \cup Unblocker -> IoPC \cup UnblockerPC]
  <2>1. \A x \in Blocker \cup Unblocker : pc'[x] \in IoPC \cup UnblockerPC
    BY <1>6, <1>7, RolePCs
  <2> QED BY <1>2, <2>1
<1> QED BY <1>1, <1>3, <1>5, <1>6, <1>7, <1>8

\* Readying goroutines keeps the control.
LEMMA ReadyControl ==
    ASSUME ControlInv, WakeInv, NEW p \in Unblocker, NEW CONSTANT S, NEW CONSTANT l, ReadyStep(p, S, l)
    PROVE  ControlInv'
<1> USE DEF ControlInv
<1>1. /\ pc[p] = "ready" /\ woken' = [woken EXCEPT ![p] = woken[p] \ S]
      /\ UNCHANGED <<phase, fdseq, info, sem, lock, closing, dl, run, seq, timer, todo, arg, kernel, sets>>
  BY DEF ReadyStep
<1>2. ShapeInv'
  BY <1>1, ReadyMoves DEF ShapeInv
<1>3. LockInv' /\ TodoInv' /\ InfoInv'
  BY <1>1, ReadyMoves, Roles DEF LockInv, TodoInv, InfoInv
<1>4. LifeInv'
  <2>1. pc'[Owner] = pc[Owner] \/ (pc[Owner] = "ready" /\ pc'[Owner] = "decref")
    BY <1>1, ReadyMoves, Roles DEF Done
  <2>2. \A x \in Blocker \cup {Setter} : pc[x] = "idle" => pc'[x] = "idle"
    BY <1>1, ReadyMoves, Roles
  <2> QED BY <1>1, <2>1, <2>2 DEF LifeInv
<1> QED BY <1>2, <1>3, <1>4

\* pd.lock stays, is taken or is released by p, which goes to l.
LEMMA LockStep ==
    ASSUME ControlInv, NEW p \in Unblocker, NEW CONSTANT l,
           pc'[p] = l, \A x \in Unblocker : x # p => pc'[x] = pc[x],
           \/ /\ lock' = lock
              /\ l \in {"unblock", "write", "unlock", "publish"} <=>
                     pc[p] \in {"unblock", "write", "unlock", "publish"}
           \/ p = Poller /\ lock' = lock
           \/ /\ p # Poller /\ lock = Nil /\ lock' = p
              /\ l \in {"unblock", "write", "unlock", "publish"}
           \/ /\ lock = p /\ lock' = Nil
              /\ l \notin {"unblock", "write", "unlock", "publish"}
    PROVE  LockInv'
  BY Roles DEF ControlInv, LockInv

\* p goes to l with the modes t to unblock.
LEMMA TodoStep ==
    ASSUME ControlInv, NEW p \in Unblocker, NEW CONSTANT l, NEW CONSTANT t \in SUBSET Mode,
           pc'[p] = l, \A x \in Unblocker : x # p => pc'[x] = pc[x],
           todo' = [todo EXCEPT ![p] = t], l = "unblock" <=> t # {}
    PROVE  TodoInv' /\ todo' \in [Unblocker -> SUBSET Mode]
<1>1. todo \in [Unblocker -> SUBSET Mode]
  BY DEF ControlInv, ShapeInv
<1>2. \A x \in Unblocker : todo'[x] = IF x = p THEN t ELSE todo[x]
  BY <1>1
<1> QED BY <1>1, <1>2 DEF ControlInv, TodoInv

\* p, which is not the owner, moves: the life of the file goes on.
LEMMA LifeStep ==
    ASSUME ControlInv, NEW p \in Unblocker, p # Owner,
           \A x \in Blocker \cup Unblocker : x # p => pc'[x] = pc[x],
           UNCHANGED <<phase, fdseq, kernel>>,
           p = Setter => pc[p] # "idle" \/ phase = "open"
    PROVE  LifeInv'
<1>1. pc'[Owner] = pc[Owner]
  BY Roles
<1>2. phase = "none" \/ pc[Owner] \in {"free", "publish"} =>
          \A x \in Blocker \cup {Setter} : pc'[x] = "idle"
  BY Roles DEF ControlInv, LifeInv
<1> QED BY <1>1, <1>2 DEF ControlInv, LifeInv

\* The beginning of pollSetDeadline, and its early return.
LEMMA SetControl ==
    ASSUME ControlInv, SetDeadline \/ SetClosing
    PROVE  ControlInv'
<1>0. ShapeInv
  BY DEF ControlInv
<1>1. PICK l \in {"lock", "idle"} : Goto(Setter, l)
  BY DEF SetDeadline, SetClosing
<1>2. l \in RolePC(Setter)
  BY <1>1, RolePCs
<1>3. /\ pc'[Setter] = l
      /\ \A x \in Blocker \cup Unblocker : x # Setter => pc'[x] = pc[x]
      /\ pc' \in [Blocker \cup Unblocker -> IoPC \cup UnblockerPC]
      /\ \A k \in Blocker : pc'[k] \in IoPC
      /\ \A x \in Unblocker : pc'[x] \in RolePC(x)
  BY <1>0, <1>1, <1>2, Moves, Roles
<1>4. /\ pc[Setter] \in {"lock", "idle"}
      /\ UNCHANGED <<phase, fdseq, info, sem, lock, closing, dl, run, seq, timer, todo, woken, arg, kernel>>
      /\ pc[Setter] # "idle" \/ phase = "open"
  BY DEF SetDeadline, SetClosing, desc, local
<1>5. sets' \in 0..MaxSet
  BY <1>0, Roles DEF SetDeadline, SetClosing, ShapeInv
<1>6. ShapeInv'
  BY <1>0, <1>3, <1>4, <1>5 DEF ShapeInv
<1>7. LockInv'
  BY <1>3, <1>4, Roles, LockStep
<1>8. TodoInv'
  BY <1>1, <1>3, <1>4, Roles DEF ControlInv, TodoInv
<1>9. LifeInv'
  BY <1>3, <1>4, Roles, LifeStep
<1>10. InfoInv'
  BY <1>3, <1>4, Roles DEF ControlInv, InfoInv
<1> QED BY <1>6, <1>7, <1>8, <1>9, <1>10 DEF ControlInv

\* What SetTimers does, with the deadlines it sets by name.
SetStep(new, ex) ==
    /\ new \in [Mode -> Time \cup {"none", "expired"}]
    /\ ex = {m \in Mode : new[m] = "expired"}
    /\ pc[Setter] = "lock" /\ lock = Nil /\ ~closing
    /\ lock' = Setter
    /\ dl' = new
    /\ info' = Published(closing, new, fdseq)
    /\ seq' = [m \in Mode |-> IF MustChange(m, dl, new) THEN seq[m] + 1 ELSE seq[m]]
    /\ run' = [m \in Mode |-> IF run[m] /\ ~MustChange(m, dl, new) THEN TRUE
                              ELSE NeedsTimer(m, new)]
    /\ timer' = [m \in Mode |->
                    IF run[m] /\ ~MustChange(m, dl, new) THEN timer[m]
                    ELSE IF NeedsTimer(m, new)
                    THEN [modes |-> IF m = "r" /\ Combo(new) THEN Mode ELSE {m}, n |-> seq'[m]]
                    ELSE Unarmed]
    /\ todo' = [todo EXCEPT ![Setter] = ex]
    /\ Goto(Setter, IF ex = {} THEN "unlock" ELSE "unblock")
    /\ UNCHANGED <<phase, fdseq, sem, closing, count, woken, taken, arg, kernel, sets>>

\* SetTimers is such a step.
LEMMA SetIs ==
    ASSUME ControlInv, NEW d \in Time \cup {"none", "expired"}, NEW ms \in {{"r"}, {"w"}, Mode},
           SetTimers(d, ms)
    PROVE  \E new, ex : SetStep(new, ex)
<1>1. dl \in [Mode -> Time \cup {"none", "expired"}]
  BY DEF ControlInv, ShapeInv
<1>2. PICK new : new = [m \in Mode |-> IF m \in ms THEN d ELSE dl[m]]
  OBVIOUS
<1>3. new \in [Mode -> Time \cup {"none", "expired"}]
  BY <1>1, <1>2
<1>4. PICK ex : ex = {m \in Mode : new[m] = "expired"}
  OBVIOUS
<1>5. SetStep(new, ex)
  BY <1>2, <1>3, <1>4 DEF SetTimers, SetStep
<1> QED BY <1>5

\* What publishInfo stores.
LEMMA PublishedIs ==
    ASSUME ShapeInv, NEW c \in BOOLEAN, NEW deadline, NEW s \in 0..(MaxOpen + 1)
    PROVE  /\ Published(c, deadline, s) \in
                [closing : BOOLEAN, expired : SUBSET Mode, err : BOOLEAN, seq : 0..(MaxOpen + 1)]
           /\ Published(c, deadline, s).closing = c
           /\ Published(c, deadline, s).expired = {m \in Mode : deadline[m] = "expired"}
           /\ Published(c, deadline, s).seq = s
           /\ Published(c, deadline, s).err = info.err
<1>1. PICK e : e = {m \in Mode : deadline[m] = "expired"}
  OBVIOUS
<1>2. e \in SUBSET Mode
  BY <1>1
<1>3. Published(c, deadline, s) = [info EXCEPT !.closing = c, !.expired = e, !.seq = s]
  BY <1>1 DEF Published
<1>4. info \in [closing : BOOLEAN, expired : SUBSET Mode, err : BOOLEAN, seq : 0..(MaxOpen + 1)]
  BY DEF ShapeInv
<1>5. Published(c, deadline, s) = [closing |-> c, expired |-> e, err |-> info.err, seq |-> s]
  BY <1>3, <1>4
<1>6. Published(c, deadline, s) \in
          [closing : BOOLEAN, expired : SUBSET Mode, err : BOOLEAN, seq : 0..(MaxOpen + 1)]
  BY <1>2, <1>4, <1>5
<1> QED BY <1>1, <1>5, <1>6

\* pollSetDeadline under the lock.
LEMMA SetTimersControl ==
    ASSUME ControlInv, NEW CONSTANT new, NEW CONSTANT ex, SetStep(new, ex)
    PROVE  ControlInv'
<1>0. ShapeInv
  BY DEF ControlInv
<1>1. PICK l : l = IF ex = {} THEN "unlock" ELSE "unblock"
  OBVIOUS
<1>2. l \in RolePC(Setter) /\ Goto(Setter, l) /\ ex \in SUBSET Mode
  BY <1>1, RolePCs DEF SetStep
<1>3. /\ pc'[Setter] = l
      /\ \A x \in Blocker \cup Unblocker : x # Setter => pc'[x] = pc[x]
      /\ pc' \in [Blocker \cup Unblocker -> IoPC \cup UnblockerPC]
      /\ \A k \in Blocker : pc'[k] \in IoPC
      /\ \A x \in Unblocker : pc'[x] \in RolePC(x)
  BY <1>0, <1>2, Moves, Roles
<1>4. /\ pc[Setter] = "lock" /\ lock = Nil /\ lock' = Setter /\ dl' = new
      /\ new \in [Mode -> Time \cup {"none", "expired"}]
      /\ UNCHANGED <<phase, fdseq, sem, closing, woken, arg, kernel, sets>>
      /\ todo' = [todo EXCEPT ![Setter] = ex]
      /\ info' = Published(closing, new, fdseq)
  BY DEF SetStep
<1>5. TodoInv' /\ todo' \in [Unblocker -> SUBSET Mode]
  BY <1>1, <1>2, <1>3, <1>4, Roles, TodoStep
<1>6. LockInv'
  BY <1>1, <1>3, <1>4, Roles, LockStep
<1>7. LifeInv'
  BY <1>3, <1>4, Roles, LifeStep
<1>8. /\ info' \in [closing : BOOLEAN, expired : SUBSET Mode, err : BOOLEAN, seq : 0..(MaxOpen + 1)]
      /\ info'.closing = closing /\ info'.expired = {m \in Mode : new[m] = "expired"}
      /\ info'.seq = fdseq
  BY <1>0, <1>4, PublishedIs DEF ShapeInv
<1>9. InfoInv'
  <2>1. pc[Owner] # "publish"
    BY <1>4, Roles DEF ControlInv, LockInv
  <2> QED BY <1>3, <1>4, <1>8, <2>1, Roles DEF InfoInv
<1>10. seq' \in [Mode -> Nat]
  BY <1>0 DEF SetStep, ShapeInv
<1>11. run' \in [Mode -> BOOLEAN]
  BY DEF SetStep, NeedsTimer
<1>12. timer' \in [Mode -> Timer]
  <2>1. \A m \in Mode : timer'[m] = timer[m] \/ timer'[m] = Unarmed
          \/ \E ms \in SUBSET Mode : timer'[m] = [modes |-> ms, n |-> seq'[m]]
    <3>1. \A m \in Mode : Mode \in SUBSET Mode /\ {m} \in SUBSET Mode
      OBVIOUS
    <3> QED BY <3>1 DEF SetStep
  <2>2. Unarmed \in Timer
    BY DEF Unarmed, Timer
  <2>3. ASSUME NEW m \in Mode PROVE timer'[m] \in Timer
    <3>1. CASE timer'[m] = timer[m]
      BY <1>0, <3>1 DEF ShapeInv
    <3>2. CASE timer'[m] = Unarmed
      BY <2>2, <3>2
    <3>3. CASE \E ms \in SUBSET Mode : timer'[m] = [modes |-> ms, n |-> seq'[m]]
      <4>1. seq'[m] \in Nat
        BY <1>10
      <4> QED BY <3>3, <4>1 DEF Timer
    <3> QED BY <2>1, <3>1, <3>2, <3>3
  <2>4. timer' = [m \in Mode |-> timer'[m]]
    BY DEF SetStep
  <2> QED BY <2>3, <2>4
<1>13. ShapeInv'
  BY <1>0, <1>3, <1>4, <1>5, <1>6, <1>8, <1>10, <1>11, <1>12, Roles DEF ShapeInv
<1> QED BY <1>5, <1>6, <1>7, <1>9, <1>13 DEF ControlInv

\* A timer fires.
LEMMA FireControl ==
    ASSUME ControlInv, NEW p \in Callback, NEW m \in Mode, Fire(p, m)
    PROVE  ControlInv'
<1>0. ShapeInv /\ p \in Unblocker
  BY Roles DEF ControlInv
<1>1. "lock" \in RolePC(p) /\ Goto(p, "lock")
  BY RolePCs DEF Fire
<1>2. /\ pc'[p] = "lock"
      /\ \A x \in Blocker \cup Unblocker : x # p => pc'[x] = pc[x]
      /\ pc' \in [Blocker \cup Unblocker -> IoPC \cup UnblockerPC]
      /\ \A k \in Blocker : pc'[k] \in IoPC
      /\ \A x \in Unblocker : pc'[x] \in RolePC(x)
  BY <1>0, <1>1, Moves, Roles
<1>3. /\ pc[p] = "idle"
      /\ arg' = [arg EXCEPT ![p] = [modes |-> timer[m].modes, n |-> timer[m].n, err |-> FALSE]]
      /\ timer' = [timer EXCEPT ![m] = Unarmed]
      /\ UNCHANGED <<phase, fdseq, info, sem, lock, closing, dl, run, seq, todo, woken, kernel, sets>>
  BY DEF Fire
<1>4. arg' \in [Unblocker -> Arg]
  <2>1. [modes |-> timer[m].modes, n |-> timer[m].n, err |-> FALSE] \in Arg
    BY <1>0 DEF ShapeInv, Timer, Arg
  <2> QED BY <1>0, <1>3, <2>1 DEF ShapeInv
<1>5. timer' \in [Mode -> Timer]
  <2>1. Unarmed \in Timer
    BY DEF Unarmed, Timer
  <2> QED BY <1>0, <1>3, <2>1 DEF ShapeInv
<1>6. ShapeInv'
  BY <1>0, <1>2, <1>3, <1>4, <1>5 DEF ShapeInv
<1>7. LockInv'
  BY <1>0, <1>2, <1>3, LockStep
<1>8. TodoInv' /\ InfoInv'
  BY <1>0, <1>2, <1>3, Roles DEF ControlInv, TodoInv, InfoInv
<1>9. LifeInv'
  BY <1>0, <1>2, <1>3, Roles, LifeStep
<1> QED BY <1>6, <1>7, <1>8, <1>9 DEF ControlInv

\* A stale callback returns.
LEMMA StaleControl ==
    ASSUME ControlInv, NEW p \in Callback, DeadlineStale(p)
    PROVE  ControlInv'
<1>0. ShapeInv /\ p \in Unblocker
  BY Roles DEF ControlInv
<1>1. "idle" \in RolePC(p) /\ Goto(p, "idle")
  BY RolePCs DEF DeadlineStale
<1>2. /\ pc'[p] = "idle"
      /\ \A x \in Blocker \cup Unblocker : x # p => pc'[x] = pc[x]
      /\ pc' \in [Blocker \cup Unblocker -> IoPC \cup UnblockerPC]
      /\ \A k \in Blocker : pc'[k] \in IoPC
      /\ \A x \in Unblocker : pc'[x] \in RolePC(x)
  BY <1>0, <1>1, Moves, Roles
<1>3. /\ pc[p] = "lock" /\ arg' = [arg EXCEPT ![p] = NoArg]
      /\ UNCHANGED <<phase, fdseq, info, sem, lock, closing, dl, run, seq, timer, todo, woken,
                     kernel, sets>>
  BY DEF DeadlineStale, desc
<1>4. arg' \in [Unblocker -> Arg]
  <2>1. NoArg \in Arg
    BY DEF NoArg, Arg
  <2> QED BY <1>0, <1>3, <2>1 DEF ShapeInv
<1>6. ShapeInv'
  BY <1>0, <1>2, <1>3, <1>4 DEF ShapeInv
<1>7. LockInv'
  BY <1>0, <1>2, <1>3, LockStep
<1>8. TodoInv' /\ InfoInv'
  BY <1>0, <1>2, <1>3, Roles DEF ControlInv, TodoInv, InfoInv
<1>9. LifeInv'
  BY <1>0, <1>2, <1>3, Roles, LifeStep
<1> QED BY <1>6, <1>7, <1>8, <1>9 DEF ControlInv

\* A callback for its first mode or for both records that the deadline of m has expired.
ExpireStep(p, m) ==
    /\ \/ pc[p] = "lock" /\ lock = Nil /\ lock' = p /\ ~IsStale(p) /\ m = First(p)
       \/ pc[p] = "write" /\ lock' = lock /\ m = "w"
    /\ dl' = [dl EXCEPT ![m] = "expired"]
    /\ info' = Published(closing, dl', fdseq)
    /\ todo' = [todo EXCEPT ![p] = {m}]
    /\ Goto(p, "unblock")
    /\ UNCHANGED <<phase, fdseq, sem, closing, run, seq, timer, count, woken, taken, arg, kernel, sets>>

\* DeadlineFirst and DeadlineWrite are such steps.
LEMMA ExpireIs ==
    ASSUME NEW p \in Callback, DeadlineFirst(p) \/ DeadlineWrite(p)
    PROVE  \E m \in Mode : ExpireStep(p, m)
<1>1. CASE DeadlineFirst(p)
  <2>1. PICK m \in Mode : m = First(p)
    BY DEF First, Mode
  <2>2. ExpireStep(p, m)
    BY <1>1, <2>1 DEF DeadlineFirst, Expire, ExpireStep
  <2> QED BY <2>2
<1>2. CASE DeadlineWrite(p)
  <2>1. ExpireStep(p, "w") /\ "w" \in Mode
    BY <1>2 DEF DeadlineWrite, Expire, ExpireStep, Mode
  <2> QED BY <2>1
<1> QED BY <1>1, <1>2

\* A deadline expires.
LEMMA ExpireControl ==
    ASSUME ControlInv, NEW p \in Callback, NEW CONSTANT m \in Mode, ExpireStep(p, m)
    PROVE  ControlInv'
<1>0. ShapeInv /\ p \in Unblocker
  BY Roles DEF ControlInv
<1>1. "unblock" \in RolePC(p) /\ Goto(p, "unblock")
  BY RolePCs DEF ExpireStep
<1>2. /\ pc'[p] = "unblock"
      /\ \A x \in Blocker \cup Unblocker : x # p => pc'[x] = pc[x]
      /\ pc' \in [Blocker \cup Unblocker -> IoPC \cup UnblockerPC]
      /\ \A k \in Blocker : pc'[k] \in IoPC
      /\ \A x \in Unblocker : pc'[x] \in RolePC(x)
  BY <1>0, <1>1, Moves, Roles
<1>3. /\ dl' = [dl EXCEPT ![m] = "expired"] /\ info' = Published(closing, dl', fdseq)
      /\ todo' = [todo EXCEPT ![p] = {m}] /\ {m} \in SUBSET Mode
      /\ UNCHANGED <<phase, fdseq, sem, closing, run, seq, timer, woken, arg, kernel, sets>>
      /\ \/ pc[p] = "lock" /\ lock = Nil /\ lock' = p
         \/ pc[p] = "write" /\ lock' = lock
  BY DEF ExpireStep
<1>4. dl' \in [Mode -> Time \cup {"none", "expired"}]
  BY <1>0, <1>3 DEF ShapeInv
<1>5. TodoInv' /\ todo' \in [Unblocker -> SUBSET Mode]
  BY <1>0, <1>2, <1>3, TodoStep
<1>6. LockInv'
  BY <1>0, <1>2, <1>3, Roles, LockStep
<1>7. LifeInv'
  BY <1>0, <1>2, <1>3, Roles, LifeStep
<1>8. /\ info' \in [closing : BOOLEAN, expired : SUBSET Mode, err : BOOLEAN, seq : 0..(MaxOpen + 1)]
      /\ info'.closing = closing /\ info'.expired = {k \in Mode : dl'[k] = "expired"}
      /\ info'.seq = fdseq
  <2>1. PICK new : new = dl'
    OBVIOUS
  <2>2. info' = Published(closing, new, fdseq) /\ closing \in BOOLEAN /\ fdseq \in 0..(MaxOpen + 1)
    BY <1>0, <1>3, <2>1 DEF ShapeInv
  <2>3. {k \in Mode : dl'[k] = "expired"} = {k \in Mode : new[k] = "expired"}
    BY <2>1
  <2> QED BY <1>0, <2>2, <2>3, PublishedIs
<1>9. InfoInv'
  <2>1. pc[Owner] # "publish"
    BY <1>0, <1>3, Roles DEF ControlInv, LockInv
  <2> QED BY <1>2, <1>3, <1>8, <2>1, Roles DEF InfoInv
<1>10. lock' \in Unblocker \cup {Nil}
  BY <1>0, <1>3 DEF ShapeInv
<1>11. ShapeInv'
  BY <1>0, <1>2, <1>3, <1>4, <1>5, <1>8, <1>10 DEF ShapeInv
<1> QED BY <1>5, <1>6, <1>7, <1>9, <1>11 DEF ControlInv

\* A descriptor is taken into use.
LEMMA OpenControl ==
    ASSUME ControlInv, Open
    PROVE  ControlInv'
<1>0. ShapeInv
  BY DEF ControlInv
<1>1. "register" \in RolePC(Owner) /\ Goto(Owner, "register")
  BY RolePCs DEF Open
<1>2. /\ pc'[Owner] = "register"
      /\ \A x \in Blocker \cup Unblocker : x # Owner => pc'[x] = pc[x]
      /\ pc' \in [Blocker \cup Unblocker -> IoPC \cup UnblockerPC]
      /\ \A k \in Blocker : pc'[k] \in IoPC
      /\ \A x \in Unblocker : pc'[x] \in RolePC(x)
  BY <1>0, <1>1, Moves, Roles
<1>3. PICK new, s : /\ new = [m \in Mode |-> "none"] /\ dl' = new
                    /\ s = IF fdseq = 0 THEN 1 ELSE fdseq
                    /\ fdseq' = s
                    /\ info' = [Published(FALSE, new, s) EXCEPT !.err = FALSE]
  BY DEF Open
<1>4. /\ pc[Owner] = "idle" /\ phase = "none" /\ lock = Nil /\ fdseq <= MaxOpen
      /\ closing' = FALSE /\ seq' = [m \in Mode |-> seq[m] + 1] /\ sem' = [m \in Mode |-> "nil"]
      /\ UNCHANGED <<phase, lock, run, timer, todo, woken, arg, kernel, sets>>
  BY DEF Open, local
<1>5. s \in 1..(MaxOpen + 1) /\ s <= MaxOpen /\ s \in 0..(MaxOpen + 1)
  BY <1>0, <1>3, <1>4, Roles DEF ShapeInv
<1>6. /\ info' \in [closing : BOOLEAN, expired : SUBSET Mode, err : BOOLEAN, seq : 0..(MaxOpen + 1)]
      /\ info'.closing = FALSE /\ info'.expired = {k \in Mode : new[k] = "expired"}
      /\ info'.seq = s /\ info'.err = FALSE
  <2>0. PICK c \in BOOLEAN : c = FALSE
    OBVIOUS
  <2>1. PICK i : i = Published(c, new, s)
    OBVIOUS
  <2>2. /\ i \in [closing : BOOLEAN, expired : SUBSET Mode, err : BOOLEAN, seq : 0..(MaxOpen + 1)]
        /\ i.closing = FALSE /\ i.expired = {k \in Mode : new[k] = "expired"} /\ i.seq = s
    BY <1>0, <1>5, <2>0, <2>1, PublishedIs
  <2>3. info' = [i EXCEPT !.err = FALSE]
    BY <1>3, <2>0, <2>1
  <2> QED BY <2>2, <2>3
<1>7. ShapeInv'
  <2>1. dl' \in [Mode -> Time \cup {"none", "expired"}] /\ seq' \in [Mode -> Nat]
        /\ sem' \in [Mode -> {"nil", "ready", "wait", "G"}]
    BY <1>0, <1>3, <1>4 DEF ShapeInv
  <2> QED BY <1>0, <1>2, <1>3, <1>4, <1>5, <1>6, <2>1 DEF ShapeInv
<1>8. LockInv'
  BY <1>2, <1>4, Roles, LockStep
<1>9. TodoInv'
  BY <1>2, <1>4, Roles DEF ControlInv, TodoInv
<1>10. InfoInv'
  BY <1>2, <1>3, <1>4, <1>6 DEF InfoInv
<1>11. LifeInv'
  <2>1. /\ \A x \in Blocker \cup {Setter} : pc[x] = "idle"
        /\ kernel = NoFile
    BY <1>4 DEF ControlInv, LifeInv
  <2>2. \A x \in Blocker \cup {Setter} : pc'[x] = "idle"
    BY <1>2, <2>1, Roles
  <2> QED BY <1>2, <1>3, <1>4, <1>5, <2>1, <2>2 DEF LifeInv
<1> QED BY <1>7, <1>8, <1>9, <1>10, <1>11 DEF ControlInv

\* The descriptor is registered, or the kernel refuses it; the file is closed.
LEMMA RegisterControl ==
    ASSUME ControlInv, Register \/ Close
    PROVE  ControlInv'
<1>0. ShapeInv
  BY DEF ControlInv
<1>1. PICK l \in {"idle", "free", "evict"} : Goto(Owner, l)
  BY DEF Register, Close
<1>2. /\ pc'[Owner] = l
      /\ \A x \in Blocker \cup Unblocker : x # Owner => pc'[x] = pc[x]
      /\ pc' \in [Blocker \cup Unblocker -> IoPC \cup UnblockerPC]
      /\ \A k \in Blocker : pc'[k] \in IoPC
      /\ \A x \in Unblocker : pc'[x] \in RolePC(x)
  <2>1. l \in RolePC(Owner)
    BY <1>1, RolePCs
  <2> QED BY <1>0, <1>1, <2>1, Moves, Roles
<1>3. UNCHANGED <<fdseq, info, sem, lock, closing, dl, run, seq, timer, todo, woken, arg, sets>>
  BY DEF Register, Close, desc, local
<1>4. \/ /\ pc[Owner] = "register" /\ kernel' = [kernel EXCEPT !.reg = fdseq] /\ phase' = "open"
         /\ pc'[Owner] = "idle"
      \/ pc[Owner] = "register" /\ kernel' = kernel /\ phase' = phase /\ pc'[Owner] = "free"
      \/ /\ pc[Owner] = "idle" /\ phase = "open" /\ fdseq < MaxOpen
         /\ kernel' = kernel /\ phase' = "closed" /\ pc'[Owner] = "evict"
  <2>1. \A k : Goto(Owner, k) => pc'[Owner] = k
    BY <1>0, Roles DEF Goto, ShapeInv
  <2> QED BY <2>1 DEF Register, Close
<1>5. /\ kernel' \in [reg : 0..(MaxOpen + 1), avail : SUBSET Mode, edge : SUBSET Mode, err : BOOLEAN]
      /\ phase' = "open" => kernel'.reg = fdseq
  <2>1. /\ kernel \in [reg : 0..(MaxOpen + 1), avail : SUBSET Mode, edge : SUBSET Mode, err : BOOLEAN]
        /\ fdseq \in 0..(MaxOpen + 1)
    BY <1>0 DEF ShapeInv
  <2>2. kernel' = kernel \/ kernel' = [kernel EXCEPT !.reg = fdseq]
    BY <1>4
  <2>3. kernel' \in [reg : 0..(MaxOpen + 1), avail : SUBSET Mode, edge : SUBSET Mode, err : BOOLEAN]
    BY <2>1, <2>2
  <2>4. CASE kernel' = [kernel EXCEPT !.reg = fdseq]
    BY <2>1, <2>3, <2>4
  <2>5. CASE phase' # "open" \/ kernel' # [kernel EXCEPT !.reg = fdseq]
    <3>1. phase' # "open"
      BY <1>4, <2>5 DEF ControlInv, LifeInv
    <3> QED BY <2>3, <3>1
  <2> QED BY <2>4, <2>5
<1>6. ShapeInv'
  BY <1>0, <1>2, <1>3, <1>4, <1>5 DEF ShapeInv
<1>7. LockInv'
  BY <1>1, <1>2, <1>3, <1>4, Roles, LockStep
<1>8. TodoInv' /\ InfoInv'
  BY <1>1, <1>2, <1>3, <1>4, Roles DEF ControlInv, TodoInv, InfoInv
<1>9. LifeInv'
  <2>1. \A x \in Blocker \cup {Setter} : pc'[x] = pc[x]
    BY <1>2, Roles
  <2>2. CASE pc[Owner] = "register"
    BY <1>3, <1>4, <1>5, <2>1, <2>2 DEF ControlInv, LifeInv
  <2>3. CASE pc[Owner] = "idle"
    BY <1>3, <1>4, <1>5, <2>1, <2>3 DEF ControlInv, LifeInv
  <2> QED BY <1>4, <2>2, <2>3
<1> QED BY <1>6, <1>7, <1>8, <1>9 DEF ControlInv

\* Close evicts the waiters.
LEMMA EvictControl ==
    ASSUME ControlInv, pollUnblock
    PROVE  ControlInv'
<1>0. ShapeInv
  BY DEF ControlInv
<1>1. "unblock" \in RolePC(Owner) /\ Goto(Owner, "unblock")
  BY RolePCs DEF pollUnblock
<1>2. /\ pc'[Owner] = "unblock"
      /\ \A x \in Blocker \cup Unblocker : x # Owner => pc'[x] = pc[x]
      /\ pc' \in [Blocker \cup Unblocker -> IoPC \cup UnblockerPC]
      /\ \A k \in Blocker : pc'[k] \in IoPC
      /\ \A x \in Unblocker : pc'[x] \in RolePC(x)
  BY <1>0, <1>1, Moves, Roles
<1>3. /\ pc[Owner] = "evict" /\ lock = Nil /\ lock' = Owner /\ closing' = TRUE
      /\ seq' = [m \in Mode |-> seq[m] + 1] /\ info' = Published(TRUE, dl, fdseq)
      /\ todo' = [todo EXCEPT ![Owner] = Mode] /\ Mode \in SUBSET Mode /\ Mode # {}
      /\ UNCHANGED <<phase, fdseq, sem, dl, run, timer, woken, arg, kernel, sets>>
  BY DEF pollUnblock, Invalidated, Mode
<1>4. /\ info' \in [closing : BOOLEAN, expired : SUBSET Mode, err : BOOLEAN, seq : 0..(MaxOpen + 1)]
      /\ info'.closing = TRUE /\ info'.expired = {k \in Mode : dl[k] = "expired"}
      /\ info'.seq = fdseq
  <2>0. PICK c \in BOOLEAN : c = TRUE
    OBVIOUS
  <2>1. PICK new : new = dl
    OBVIOUS
  <2>2. info' = Published(c, new, fdseq) /\ fdseq \in 0..(MaxOpen + 1)
    BY <1>0, <1>3, <2>0, <2>1 DEF ShapeInv
  <2>3. {k \in Mode : dl[k] = "expired"} = {k \in Mode : new[k] = "expired"}
    BY <2>1
  <2>4. /\ info' \in [closing : BOOLEAN, expired : SUBSET Mode, err : BOOLEAN, seq : 0..(MaxOpen + 1)]
        /\ info'.closing = c /\ info'.expired = {k \in Mode : new[k] = "expired"}
        /\ info'.seq = fdseq
    BY <1>0, <2>2, PublishedIs
  <2> QED BY <2>0, <2>3, <2>4
<1>5. TodoInv' /\ todo' \in [Unblocker -> SUBSET Mode]
  BY <1>2, <1>3, Roles, TodoStep
<1>6. ShapeInv'
  <2>1. seq' \in [Mode -> Nat]
    BY <1>0, <1>3 DEF ShapeInv
  <2> QED BY <1>0, <1>2, <1>3, <1>4, <1>5, <2>1, Roles DEF ShapeInv
<1>7. LockInv'
  BY <1>2, <1>3, Roles, LockStep
<1>8. InfoInv'
  BY <1>2, <1>3, <1>4 DEF InfoInv
<1>9. LifeInv'
  <2>1. \A x \in Blocker \cup {Setter} : pc'[x] = pc[x]
    BY <1>2, Roles
  <2> QED BY <1>2, <1>3, <2>1 DEF ControlInv, LifeInv
<1> QED BY <1>5, <1>6, <1>7, <1>8, <1>9 DEF ControlInv

\* The last reference is dropped.
LEMMA CloseControl ==
    ASSUME ControlInv, pollClose
    PROVE  ControlInv'
<1>0. ShapeInv
  BY DEF ControlInv
<1>1. "free" \in RolePC(Owner) /\ Goto(Owner, "free")
  BY RolePCs DEF pollClose
<1>2. /\ pc'[Owner] = "free"
      /\ \A x \in Blocker \cup Unblocker : x # Owner => pc'[x] = pc[x]
      /\ pc' \in [Blocker \cup Unblocker -> IoPC \cup UnblockerPC]
      /\ \A k \in Blocker : pc'[k] \in IoPC
      /\ \A x \in Unblocker : pc'[x] \in RolePC(x)
  BY <1>0, <1>1, Moves, Roles
<1>3. /\ pc[Owner] = "decref" /\ \A x \in Blocker \cup {Setter} : pc[x] = "idle"
      /\ kernel' = NoFile
      /\ UNCHANGED <<phase, fdseq, info, sem, lock, closing, dl, run, seq, timer, todo, woken, arg, sets>>
  BY DEF pollClose, desc, local
<1>4. kernel' \in [reg : 0..(MaxOpen + 1), avail : SUBSET Mode, edge : SUBSET Mode, err : BOOLEAN]
  BY <1>3, Roles DEF NoFile
<1>5. ShapeInv'
  BY <1>0, <1>2, <1>3, <1>4 DEF ShapeInv
<1>6. LockInv'
  BY <1>2, <1>3, Roles, LockStep
<1>7. TodoInv' /\ InfoInv'
  BY <1>2, <1>3, Roles DEF ControlInv, TodoInv, InfoInv
<1>8. LifeInv'
  <2>1. \A x \in Blocker \cup {Setter} : pc'[x] = "idle"
    BY <1>2, <1>3, Roles
  <2> QED BY <1>2, <1>3, <2>1 DEF ControlInv, LifeInv
<1> QED BY <1>5, <1>6, <1>7, <1>8 DEF ControlInv

\* pollCache.free, in two steps.
LEMMA FreeControl ==
    ASSUME ControlInv, FreeSeq \/ FreePublish
    PROVE  ControlInv'
<1>0. ShapeInv
  BY DEF ControlInv
<1>1. PICK l \in {"publish", "idle"} : Goto(Owner, l)
  BY DEF FreeSeq, FreePublish
<1>2. /\ pc'[Owner] = l
      /\ \A x \in Blocker \cup Unblocker : x # Owner => pc'[x] = pc[x]
      /\ pc' \in [Blocker \cup Unblocker -> IoPC \cup UnblockerPC]
      /\ \A k \in Blocker : pc'[k] \in IoPC
      /\ \A x \in Unblocker : pc'[x] \in RolePC(x)
  <2>1. l \in RolePC(Owner)
    BY <1>1, RolePCs
  <2> QED BY <1>0, <1>1, <2>1, Moves, Roles
<1>3. UNCHANGED <<sem, closing, dl, run, seq, timer, todo, woken, arg, kernel, sets>>
  BY DEF FreeSeq, FreePublish, desc, local
<1>4. \A k : Goto(Owner, k) => pc'[Owner] = k
  BY <1>0, Roles DEF Goto, ShapeInv
<1>5. \A x \in Blocker \cup {Setter} : pc'[x] = pc[x]
  BY <1>2, Roles
<1>6. TodoInv'
  <2>1. pc[Owner] # "unblock" /\ pc'[Owner] # "unblock"
    BY <1>1, <1>2 DEF FreeSeq, FreePublish
  <2> QED BY <1>2, <1>3, <2>1, Roles DEF ControlInv, TodoInv
<1>7. CASE FreeSeq
  <2>1. /\ pc[Owner] = "free" /\ lock = Nil /\ lock' = Owner /\ fdseq' = fdseq + 1
        /\ pc'[Owner] = "publish" /\ UNCHANGED <<phase, info>>
    BY <1>4, <1>7 DEF FreeSeq
  <2>2. fdseq \in 1..(MaxOpen + 1) /\ fdseq <= MaxOpen
    BY <2>1 DEF ControlInv, LifeInv
  <2>3. fdseq' \in 0..(MaxOpen + 1) /\ fdseq' \in 1..(MaxOpen + 1)
    BY <2>1, <2>2, Roles
  <2>4. ShapeInv'
    BY <1>0, <1>2, <1>3, <2>1, <2>3, Roles DEF ShapeInv
  <2>5. LockInv'
    BY <1>2, <2>1, Roles, LockStep
  <2>6. InfoInv'
    BY <1>3, <2>1 DEF ControlInv, InfoInv
  <2>7. LifeInv'
    BY <1>3, <1>5, <2>1, <2>3 DEF ControlInv, LifeInv
  <2> QED BY <1>6, <2>4, <2>5, <2>6, <2>7 DEF ControlInv
<1>8. CASE FreePublish
  <2>1. /\ pc[Owner] = "publish" /\ lock' = Nil /\ info' = Published(closing, dl, fdseq)
        /\ phase' = "none" /\ pc'[Owner] = "idle" /\ UNCHANGED fdseq
    BY <1>4, <1>8 DEF FreePublish
  <2>2. lock = Owner
    BY <2>1, Roles DEF ControlInv, LockInv
  <2>3. /\ info' \in [closing : BOOLEAN, expired : SUBSET Mode, err : BOOLEAN, seq : 0..(MaxOpen + 1)]
        /\ info'.closing = closing /\ info'.expired = {k \in Mode : dl[k] = "expired"}
        /\ info'.seq = fdseq
    <3>1. PICK new : new = dl
      OBVIOUS
    <3>2. info' = Published(closing, new, fdseq) /\ closing \in BOOLEAN /\ fdseq \in 0..(MaxOpen + 1)
      BY <1>0, <2>1, <3>1 DEF ShapeInv
    <3>3. {k \in Mode : dl[k] = "expired"} = {k \in Mode : new[k] = "expired"}
      BY <3>1
    <3> QED BY <1>0, <3>2, <3>3, PublishedIs
  <2>4. ShapeInv'
    BY <1>0, <1>2, <1>3, <2>1, <2>3 DEF ShapeInv
  <2>5. LockInv'
    BY <1>2, <2>1, <2>2, Roles, LockStep
  <2>6. InfoInv'
    BY <1>3, <2>1, <2>3 DEF InfoInv
  <2>7. LifeInv'
    BY <1>3, <1>5, <2>1 DEF ControlInv, LifeInv
  <2> QED BY <1>6, <2>4, <2>5, <2>6, <2>7 DEF ControlInv
<1> QED BY <1>7, <1>8

\* The kernel: a file becomes ready or fails.
LEMMA KernelControl ==
    ASSUME ControlInv, Fail \/ \E m \in Blocker : Arrive(m)
    PROVE  ControlInv'
<1>1. /\ UNCHANGED <<phase, fdseq, info, sem, lock, closing, dl, run, seq, timer, pc, todo, woken, arg, sets>>
      /\ kernel.reg # 0
      /\ \/ kernel' = [kernel EXCEPT !.err = TRUE, !.edge = Mode]
         \/ \E m \in Blocker : kernel' = [kernel EXCEPT !.avail = @ \cup {m}, !.edge = @ \cup {m}]
  BY DEF Fail, Arrive, desc, local
<1>2. /\ kernel' \in [reg : 0..(MaxOpen + 1), avail : SUBSET Mode, edge : SUBSET Mode, err : BOOLEAN]
      /\ kernel'.reg = kernel.reg
  <2>1. kernel \in [reg : 0..(MaxOpen + 1), avail : SUBSET Mode, edge : SUBSET Mode, err : BOOLEAN]
    BY DEF ControlInv, ShapeInv
  <2>2. CASE kernel' = [kernel EXCEPT !.err = TRUE, !.edge = Mode]
    BY <2>1, <2>2
  <2>3. ASSUME NEW m \in Blocker, kernel' = [kernel EXCEPT !.avail = @ \cup {m}, !.edge = @ \cup {m}]
        PROVE  /\ kernel' \in [reg : 0..(MaxOpen + 1), avail : SUBSET Mode, edge : SUBSET Mode, err : BOOLEAN]
               /\ kernel'.reg = kernel.reg
    BY <2>1, <2>3, Roles
  <2> QED BY <1>1, <2>2, <2>3
<1>3. kernel # NoFile
  <2>1. NoFile.reg = 0 /\ kernel.reg # 0
    BY <1>1 DEF NoFile
  <2> QED BY <2>1
<1>4. ShapeInv'
  BY <1>1, <1>2 DEF ControlInv, ShapeInv
<1>5. LockInv' /\ TodoInv' /\ InfoInv'
  BY <1>1 DEF ControlInv, LockInv, TodoInv, InfoInv
<1>6. LifeInv'
  BY <1>1, <1>2, <1>3 DEF ControlInv, LifeInv
<1> QED BY <1>4, <1>5, <1>6 DEF ControlInv

\* epoll_wait returns an event; the poller compares its tag.
LEMMA PollControl ==
    ASSUME ControlInv, Poll \/ PollTag
    PROVE  ControlInv'
<1>0. ShapeInv
  BY DEF ControlInv
<1>1. PICK l \in {"tag", "err", "idle"} : Goto(Poller, l)
  BY DEF Poll, PollTag
<1>2. /\ pc'[Poller] = l
      /\ \A x \in Blocker \cup Unblocker : x # Poller => pc'[x] = pc[x]
      /\ pc' \in [Blocker \cup Unblocker -> IoPC \cup UnblockerPC]
      /\ \A k \in Blocker : pc'[k] \in IoPC
      /\ \A x \in Unblocker : pc'[x] \in RolePC(x)
  <2>1. l \in RolePC(Poller)
    BY <1>1, RolePCs
  <2> QED BY <1>0, <1>1, <2>1, Moves, Roles
<1>3. /\ UNCHANGED <<phase, fdseq, info, sem, lock, closing, dl, run, seq, timer, todo, woken, sets>>
      /\ pc[Poller] \in {"idle", "tag"}
  BY DEF Poll, PollTag, desc
<1>4. /\ kernel' \in [reg : 0..(MaxOpen + 1), avail : SUBSET Mode, edge : SUBSET Mode, err : BOOLEAN]
      /\ kernel'.reg = kernel.reg /\ (kernel = NoFile => kernel' = NoFile)
  <2>1. \/ kernel' = kernel
        \/ kernel' = [kernel EXCEPT !.edge = {}] /\ kernel.edge # {}
    BY DEF Poll, PollTag
  <2>2. CASE kernel' = kernel
    BY <1>0, <2>2 DEF ShapeInv
  <2>3. CASE kernel' = [kernel EXCEPT !.edge = {}] /\ kernel.edge # {}
    BY <1>0, <2>3 DEF ShapeInv, NoFile
  <2> QED BY <2>1, <2>2, <2>3
<1>5. arg' \in [Unblocker -> Arg]
  <2>1. NoArg \in Arg
    BY DEF NoArg, Arg
  <2>2. [modes |-> IF kernel.err THEN Mode ELSE kernel.edge, n |-> kernel.reg,
         err |-> kernel.err /\ kernel.avail = {}] \in Arg
    BY <1>0, Roles DEF ShapeInv, Arg
  <2>3. arg' = arg \/ \E a \in Arg : arg' = [arg EXCEPT ![Poller] = a]
    BY <2>1, <2>2 DEF Poll, PollTag
  <2> QED BY <1>0, <2>3 DEF ShapeInv
<1>6. ShapeInv'
  BY <1>0, <1>2, <1>3, <1>4, <1>5 DEF ShapeInv
<1>7. LockInv'
  BY <1>2, <1>3, Roles, LockStep
<1>8. TodoInv' /\ InfoInv'
  BY <1>1, <1>2, <1>3, Roles DEF ControlInv, TodoInv, InfoInv
<1>9. LifeInv'
  <2>1. \A x \in Blocker \cup {Setter, Owner} : pc'[x] = pc[x]
    BY <1>2, Roles
  <2> QED BY <1>3, <1>4, <2>1 DEF ControlInv, LifeInv
<1> QED BY <1>6, <1>7, <1>8, <1>9 DEF ControlInv

\* The modes of an event.
LEMMA EventModes ==
    ASSUME ShapeInv
    PROVE  /\ arg[Poller].modes \in SUBSET Mode /\ arg[Poller].n \in Nat /\ arg[Poller].err \in BOOLEAN
           /\ \A p \in Callback : arg[p].modes \in SUBSET Mode /\ arg[p].n \in Nat
  BY Roles DEF ShapeInv, Arg

\* The poller sets the error bit and goes on to unblock.
LEMMA SetErrControl ==
    ASSUME ControlInv, arg[Poller].modes # {}, setEventErr
    PROVE  ControlInv'
<1>0. ShapeInv
  BY DEF ControlInv
<1>1. "unblock" \in RolePC(Poller) /\ Goto(Poller, "unblock")
  BY RolePCs DEF setEventErr
<1>2. /\ pc'[Poller] = "unblock"
      /\ \A x \in Blocker \cup Unblocker : x # Poller => pc'[x] = pc[x]
      /\ pc' \in [Blocker \cup Unblocker -> IoPC \cup UnblockerPC]
      /\ \A k \in Blocker : pc'[k] \in IoPC
      /\ \A x \in Unblocker : pc'[x] \in RolePC(x)
  BY <1>0, <1>1, Moves, Roles
<1>3. /\ pc[Poller] = "err" /\ todo' = [todo EXCEPT ![Poller] = arg[Poller].modes]
      /\ info' = info \/ info' = [info EXCEPT !.err = arg[Poller].err]
      /\ UNCHANGED <<phase, fdseq, sem, lock, closing, dl, run, seq, timer, woken, arg, kernel, sets>>
  BY DEF setEventErr, desc
<1>4. /\ info' \in [closing : BOOLEAN, expired : SUBSET Mode, err : BOOLEAN, seq : 0..(MaxOpen + 1)]
      /\ info'.closing = info.closing /\ info'.expired = info.expired /\ info'.seq = info.seq
  BY <1>0, <1>3, EventModes DEF ShapeInv
<1>5. TodoInv' /\ todo' \in [Unblocker -> SUBSET Mode]
  <2>1. PICK t : t = arg[Poller].modes
    OBVIOUS
  <2>2. t \in SUBSET Mode /\ t # {} /\ todo' = [todo EXCEPT ![Poller] = t]
    BY <1>0, <1>3, <2>1, EventModes
  <2> QED BY <1>2, <2>2, Roles, TodoStep
<1>6. ShapeInv'
  BY <1>0, <1>2, <1>3, <1>4, <1>5 DEF ShapeInv
<1>7. LockInv'
  BY <1>2, <1>3, Roles, LockStep
<1>8. InfoInv'
  BY <1>2, <1>3, <1>4, Roles DEF ControlInv, InfoInv
<1>9. LifeInv'
  BY <1>2, <1>3, Roles, LifeStep
<1> QED BY <1>5, <1>6, <1>7, <1>8, <1>9 DEF ControlInv

-----------------------------------------------------------------------------
(* Parking and waking *)

\* There are finitely many modes.
LEMMA ModeFinite ==
    /\ IsFiniteSet(Mode)
    /\ \A S \in SUBSET Blocker : IsFiniteSet(S) /\ Cardinality(S) \in Nat
    /\ \A S \in SUBSET Mode : IsFiniteSet(S) /\ Cardinality(S) \in Nat
<1>1. IsFiniteSet({"r"}) /\ IsFiniteSet({"w"})
  BY FS_Singleton
<1>2. IsFiniteSet(Mode)
  <2>1. Mode = {"r"} \cup {"w"}
    BY DEF Mode
  <2> QED BY <1>1, <2>1, FS_Union
<1>3. \A S \in SUBSET Mode : IsFiniteSet(S) /\ Cardinality(S) \in Nat
  BY <1>2, CountNat
<1>4. \A S \in SUBSET Blocker : S \in SUBSET Mode
  BY Roles
<1> QED BY <1>2, <1>3, <1>4

\* Where an unblocker may have goroutines to ready.
Waking == {"unblock", "write", "unlock", "ready"}

\* An unblocker moves and leaves the slots alone.
LEMMA WakeQuiet ==
    ASSUME ControlInv, WakeInv, NEW p \in Unblocker, NEW CONSTANT l, Goto(p, l),
           UNCHANGED <<sem, woken>>, l \notin Waking => woken[p] = {}
    PROVE  WakeInv'
<1>1. pc \in [Blocker \cup Unblocker -> IoPC \cup UnblockerPC] /\ pc' = [pc EXCEPT ![p] = l]
  BY DEF ControlInv, ShapeInv, Goto
<1>2. /\ \A m \in Blocker : pc'[m] = pc[m]
      /\ \A q \in Unblocker : pc'[q] = IF q = p THEN l ELSE pc[q]
  BY <1>1, Roles
<1>4. SemInv'
  BY <1>2 DEF WakeInv, SemInv
<1>5. WokenInv'
  BY <1>2 DEF WakeInv, WokenInv, Waking
<1> QED BY <1>4, <1>5 DEF WakeInv

\* Outside of netpollunblock there is nobody to ready.
LEMMA NoneWoken ==
    ASSUME WakeInv, NEW p \in Unblocker, pc[p] \notin Waking
    PROVE  woken[p] = {}
  BY DEF WakeInv, WokenInv, Waking

\* The actions that leave the slots alone.
LEMMA QuietWake ==
    ASSUME ControlInv, WakeInv,
           \/ SetDeadline \/ SetClosing \/ Register \/ Close \/ pollUnblock \/ pollClose
           \/ FreeSeq \/ FreePublish \/ Poll \/ PollTag \/ setEventErr
           \/ (\E d \in Time \cup {"none", "expired"}, ms \in {{"r"}, {"w"}, Mode} : SetTimers(d, ms))
           \/ \E p \in Callback : \/ DeadlineStale(p) \/ DeadlineFirst(p) \/ DeadlineWrite(p)
                                  \/ \E m \in Mode : Fire(p, m)
    PROVE  WakeInv'
<1>1. UNCHANGED <<sem, woken>>
  BY DEF SetDeadline, SetClosing, Register, Close, pollUnblock, pollClose, FreeSeq, FreePublish, Poll,
         PollTag, setEventErr, SetTimers, DeadlineStale, DeadlineFirst, DeadlineWrite, Expire, Fire,
         local
<1>2. CASE SetDeadline \/ SetClosing
  <2>1. PICK l : Goto(Setter, l) /\ pc[Setter] \notin Waking
    BY <1>2 DEF SetDeadline, SetClosing, Waking
  <2> QED BY <1>1, <2>1, Roles, NoneWoken, WakeQuiet
<1>3. CASE \E d \in Time \cup {"none", "expired"}, ms \in {{"r"}, {"w"}, Mode} : SetTimers(d, ms)
  <2>1. PICK l : Goto(Setter, l) /\ pc[Setter] \notin Waking
    BY <1>3 DEF SetTimers, Waking
  <2> QED BY <1>1, <2>1, Roles, NoneWoken, WakeQuiet
<1>4. CASE Register \/ Close \/ pollUnblock \/ pollClose \/ FreeSeq \/ FreePublish
  <2>1. PICK l : Goto(Owner, l) /\ pc[Owner] \notin Waking
    BY <1>4 DEF Register, Close, pollUnblock, pollClose, FreeSeq, FreePublish, Waking
  <2> QED BY <1>1, <2>1, Roles, NoneWoken, WakeQuiet
<1>5. CASE Poll \/ PollTag \/ setEventErr
  <2>1. PICK l : Goto(Poller, l) /\ pc[Poller] \notin Waking
    BY <1>5 DEF Poll, PollTag, setEventErr, Waking
  <2> QED BY <1>1, <2>1, Roles, NoneWoken, WakeQuiet
<1>6. ASSUME NEW p \in Callback,
             \/ DeadlineStale(p) \/ DeadlineFirst(p) \/ DeadlineWrite(p)
             \/ \E m \in Mode : Fire(p, m)
      PROVE  WakeInv'
  <2>1. PICK l : Goto(p, l) /\ (l \in Waking \/ pc[p] \notin Waking)
    BY <1>6 DEF DeadlineStale, DeadlineFirst, DeadlineWrite, Expire, Fire, Waking
  <2> QED BY <1>1, <2>1, Roles, NoneWoken, WakeQuiet
<1> QED BY <1>2, <1>3, <1>4, <1>5, <1>6

\* The kernel does not touch the slots.
LEMMA KernelWake ==
    ASSUME WakeInv, Fail \/ \E m \in Blocker : Arrive(m)
    PROVE  WakeInv'
<1>1. UNCHANGED <<sem, woken, pc>>
  BY DEF Fail, Arrive, local
<1> QED BY <1>1 DEF WakeInv, SemInv, WokenInv

\* A goroutine parks in its slot, or gives it up.
LEMMA IoWake ==
    ASSUME ControlInv, WakeInv, NEW m \in Blocker, Start(m) \/ IoStep(m)
    PROVE  WakeInv'
<1>1. /\ pc \in [Blocker \cup Unblocker -> IoPC \cup UnblockerPC] /\ m \in Mode
      /\ sem \in [Mode -> {"nil", "ready", "wait", "G"}]
  BY Roles DEF ControlInv, ShapeInv
<1>2. PICK l : Goto(m, l)
  BY DEF Start, IoStep, Reset, ResetStore, Io, Check, Block, Recheck, Commit, SwapNil, Failed
<1>3. \A x \in Blocker \cup Unblocker : pc'[x] = IF x = m THEN l ELSE pc[x]
  BY <1>1, <1>2 DEF Goto
<1>4. \A x \in Unblocker : pc'[x] = pc[x]
  BY <1>3, Roles
<1>5. \A k \in Mode : k # m => sem'[k] = sem[k]
  BY <1>1 DEF Start, IoStep, Reset, ResetStore, Io, Check, Block, Recheck, Commit, SwapNil, Failed
<1>6. woken' = woken
  BY DEF Start, IoStep, Reset, ResetStore, Io, Check, Block, Recheck, Commit, SwapNil, Failed, IoVars,
         local
<1>7. pc[m] # "parked" /\ sem[m] # "G"
  <2>1. pc[m] # "parked"
    BY DEF Start, IoStep, Reset, ResetStore, Io, Check, Block, Recheck, Commit, SwapNil, Failed
  <2> QED BY <1>1, <2>1 DEF WakeInv, SemInv
<1>8. \/ l = "parked" /\ sem'[m] = "G"
      \/ /\ l # "parked" /\ sem'[m] # "G"
         /\ sem'[m] = "wait" => l \in {"recheck", "commit", "swap"}
  <2>1. \A k : Goto(m, k) => l = k
    BY <1>1, <1>2 DEF Goto
  <2>2. sem[m] = "wait" => pc[m] \in {"recheck", "commit", "swap"}
    BY <1>1 DEF WakeInv, SemInv
  <2>3. CASE Start(m) \/ Reset(m) \/ Io(m) \/ Check(m) \/ Failed(m)
    BY <1>7, <2>1, <2>2, <2>3 DEF Start, Reset, Io, Check, Failed
  <2>4. CASE ResetStore(m) \/ Block(m)
    BY <1>1, <2>1, <2>4 DEF ResetStore, Block
  <2>5. CASE Recheck(m) \/ Commit(m)
    BY <1>1, <1>7, <2>1, <2>5 DEF Recheck, Commit, CanPark
  <2>6. CASE SwapNil(m)
    BY <1>1, <2>1, <2>6 DEF SwapNil
  <2> QED BY <2>3, <2>4, <2>5, <2>6 DEF IoStep
<1>9. SemInv'
  BY <1>1, <1>3, <1>5, <1>8, Roles DEF WakeInv, SemInv
<1>10. WokenInv'
  <2>1. \A k \in Blocker : k # m => pc'[k] = pc[k] /\ sem'[k] = sem[k]
    BY <1>3, <1>5, Roles
  <2>2. \A p \in Unblocker : m \notin woken[p]
    BY <1>7 DEF WakeInv, WokenInv
  <2>3. pc'[m] = "parked" => sem'[m] = "G"
    BY <1>3, <1>8
  <2> QED BY <1>4, <1>6, <2>1, <2>2, <2>3 DEF WakeInv, WokenInv
<1> QED BY <1>9, <1>10 DEF WakeInv

\* netpollunblock takes the goroutine out of the slot, and has it to ready.
LEMMA UnblockWake ==
    ASSUME ControlInv, WakeInv, NEW p \in Unblocker, NEW m \in Mode, NEW CONSTANT l,
           UnblockStep(p, m, l)
    PROVE  WakeInv'
<1>1. /\ pc \in [Blocker \cup Unblocker -> IoPC \cup UnblockerPC]
      /\ sem \in [Mode -> {"nil", "ready", "wait", "G"}] /\ woken \in [Unblocker -> SUBSET Mode]
  BY DEF ControlInv, ShapeInv
<1>2. /\ \A x \in Blocker : pc'[x] = pc[x]
      /\ \A x \in Unblocker : pc'[x] = IF x = p THEN l ELSE pc[x]
      /\ pc[p] = "unblock"
  BY <1>1, Roles DEF UnblockStep, Goto
<1>3. \A k \in Mode : k # m => sem'[k] = sem[k]
  BY <1>1 DEF UnblockStep
<1>4. sem'[m] \in {"nil", "ready"}
  BY <1>1 DEF UnblockStep
<1>5. \A x \in Unblocker : woken'[x] = IF x = p /\ sem[m] = "G" THEN woken[p] \cup {m} ELSE woken[x]
  BY <1>1 DEF UnblockStep
<1>6. l \in Waking \/ woken'[p] = {}
  BY DEF UnblockStep, Waking
<1>7. SemInv'
  BY <1>2, <1>3, <1>4 DEF WakeInv, SemInv
<1>8. WokenInv'
  <2>1. \A x \in Unblocker : woken'[x] # {} => pc'[x] \in {"unblock", "write", "unlock", "ready"}
    BY <1>2, <1>5, <1>6 DEF WakeInv, WokenInv, Waking
  <2>2. sem[m] = "G" => m \in Blocker /\ pc[m] = "parked" /\ \A x \in Unblocker : m \notin woken[x]
    BY DEF WakeInv, SemInv, WokenInv
  <2>3. \A x \in Unblocker : \A k \in woken'[x] : k \in Blocker /\ pc'[k] = "parked" /\ sem'[k] # "G"
    <3>1. \A x \in Unblocker : \A k \in woken'[x] : (sem[m] = "G" /\ k = m) \/ k \in woken[x]
      BY <1>5
    <3>2. \A x \in Unblocker : \A k \in woken[x] : k \in Mode /\ k \in Blocker /\ pc[k] = "parked" /\ sem[k] # "G"
      BY <1>1 DEF WakeInv, WokenInv
    <3> QED BY <1>2, <1>3, <1>4, <2>2, <3>1, <3>2
  <2>4. \A k \in Blocker : pc'[k] = "parked" /\ sem'[k] # "G" => \E x \in Unblocker : k \in woken'[x]
    <3>1. ASSUME NEW k \in Blocker, pc'[k] = "parked", sem'[k] # "G"
          PROVE  \E x \in Unblocker : k \in woken'[x]
      <4>1. CASE k = m /\ sem[m] = "G"
        BY <1>5, <4>1
      <4>2. CASE ~(k = m /\ sem[m] = "G")
        <5>1. sem[k] # "G" /\ pc[k] = "parked"
          BY <1>2, <1>3, <3>1, <4>2, Roles
        <5>2. PICK x \in Unblocker : k \in woken[x]
          BY <5>1 DEF WakeInv, WokenInv
        <5> QED BY <1>5, <5>2
      <4> QED BY <4>1, <4>2
    <3> QED BY <3>1
  <2>5. \A x, y \in Unblocker : x # y => woken'[x] \cap woken'[y] = {}
    BY <1>5, <2>2 DEF WakeInv, WokenInv
  <2> QED BY <2>1, <2>3, <2>4, <2>5 DEF WokenInv
<1> QED BY <1>7, <1>8 DEF WakeInv

\* Releasing pd.lock.
LEMMA UnlockWake ==
    ASSUME ControlInv, WakeInv, NEW p \in Unblocker, Unlock(p)
    PROVE  WakeInv'
<1>1. PICK l : l = IF woken[p] = {} THEN Done(p) ELSE "ready"
  OBVIOUS
<1>2. Goto(p, l) /\ UNCHANGED <<sem, woken>>
  BY <1>1 DEF Unlock, local
<1> QED BY <1>1, <1>2, WakeQuiet DEF Waking

\* Goroutines are made ready.
LEMMA ReadyWake ==
    ASSUME ControlInv, WakeInv, NEW p \in Unblocker, NEW CONSTANT S, NEW CONSTANT l, ReadyStep(p, S, l)
    PROVE  WakeInv'
<1>1. /\ sem' = sem /\ woken' = [woken EXCEPT ![p] = woken[p] \ S] /\ S \in SUBSET woken[p]
      /\ l = "ready" \/ S = woken[p]
  BY DEF ReadyStep
<1>2. \A x \in Unblocker : woken'[x] = IF x = p THEN woken[p] \ S ELSE woken[x]
  BY <1>1 DEF ControlInv, ShapeInv
<1>3. \A k \in Blocker : pc'[k] = IF k \in S THEN "swap" ELSE pc[k]
  BY ReadyMoves, Roles
<1>4. \A x \in Unblocker : pc'[x] = IF x = p THEN l ELSE pc[x]
  BY ReadyMoves
<1>5. \A x \in Unblocker : \A k \in woken[x] : k \in Blocker /\ pc[k] = "parked" /\ sem[k] # "G"
  BY DEF WakeInv, WokenInv
<1>6. SemInv'
  BY <1>1, <1>3, <1>5 DEF WakeInv, SemInv
<1>7. WokenInv'
  <2>1. \A x \in Unblocker : woken'[x] # {} => pc'[x] \in {"unblock", "write", "unlock", "ready"}
    BY <1>1, <1>2, <1>4 DEF WakeInv, WokenInv
  <2>2. \A x, y \in Unblocker : x # y => woken[x] \cap woken[y] = {}
    BY DEF WakeInv, WokenInv
  <2>3. \A x \in Unblocker : \A k \in woken'[x] : k \in woken[x] /\ k \notin S
    BY <1>1, <1>2, <2>2
  <2>4. \A x \in Unblocker : \A k \in woken'[x] : k \in Blocker /\ pc'[k] = "parked" /\ sem'[k] # "G"
    BY <1>1, <1>3, <1>5, <2>3
  <2>5. \A k \in Blocker : pc'[k] = "parked" /\ sem'[k] # "G" => \E x \in Unblocker : k \in woken'[x]
    BY <1>1, <1>2, <1>3 DEF WakeInv, WokenInv
  <2>6. \A x, y \in Unblocker : x # y => woken'[x] \cap woken'[y] = {}
    BY <2>2, <2>3
  <2> QED BY <2>1, <2>4, <2>5, <2>6 DEF WokenInv
<1> QED BY <1>6, <1>7 DEF WakeInv

\* A descriptor is opened only when nobody uses it.
LEMMA OpenWake ==
    ASSUME ControlInv, WakeInv, Open
    PROVE  WakeInv'
<1>1. /\ phase = "none" /\ Goto(Owner, "register") /\ sem' = [m \in Mode |-> "nil"]
      /\ woken' = woken /\ pc[Owner] = "idle"
  BY DEF Open, local
<1>2. /\ \A m \in Blocker : pc[m] = "idle"
      /\ pc \in [Blocker \cup Unblocker -> IoPC \cup UnblockerPC]
  BY <1>1 DEF ControlInv, LifeInv, ShapeInv
<1>3. /\ \A m \in Blocker : pc'[m] = pc[m]
      /\ \A q \in Unblocker : q # Owner => pc'[q] = pc[q]
  BY <1>1, <1>2, Roles DEF Goto
<1>4. \A p \in Unblocker : woken[p] = {}
  BY <1>2 DEF WakeInv, WokenInv
<1>5. SemInv'
  BY <1>1 DEF SemInv
<1>6. WokenInv'
  BY <1>1, <1>2, <1>3, <1>4 DEF WokenInv
<1> QED BY <1>5, <1>6 DEF WakeInv

-----------------------------------------------------------------------------
(* The count of waiters *)

\* Those that are in the slots.
Slots == {m \in Mode : sem[m] = "G"}

\* Modes, and pairs with an unblocker, are finitely many and below the range of the count.
LEMMA FewerThanRange ==
    ASSUME NEW S \in SUBSET Mode, NEW T \in SUBSET (Unblocker \X Mode)
    PROVE  /\ IsFiniteSet(S) /\ Cardinality(S) \in Nat
           /\ IsFiniteSet(T) /\ Cardinality(T) \in Nat
           /\ Cardinality(S) + Cardinality(T) < WaiterRange
           /\ WaiterRange \in Nat \ {0} /\ MaxAdding \in Nat
<1>1. IsFiniteSet(Unblocker)
  <2>1. IsFiniteSet({Setter, Owner, Poller})
    <3>1. IsFiniteSet({Setter}) /\ IsFiniteSet({Owner}) /\ IsFiniteSet({Poller})
      BY FS_Singleton
    <3>2. {Setter, Owner, Poller} = ({Setter} \cup {Owner}) \cup {Poller}
      OBVIOUS
    <3>3. IsFiniteSet({Setter} \cup {Owner})
      BY <3>1, FS_Union
    <3>4. IsFiniteSet(({Setter} \cup {Owner}) \cup {Poller})
      BY <3>1, <3>3, FS_Union
    <3> QED BY <3>2, <3>4
  <2> QED BY <2>1, FS_Union, NetpollAssumption DEF Unblocker
<1>2. IsFiniteSet(Unblocker \X Mode) /\ IsFiniteSet(Mode)
  BY <1>1, ModeFinite, FS_Product
<1>3. /\ IsFiniteSet(S) /\ Cardinality(S) <= Cardinality(Mode)
      /\ IsFiniteSet(T) /\ Cardinality(T) <= Cardinality(Unblocker \X Mode)
  BY <1>2, FS_Subset
<1>4. /\ Cardinality(S) \in Nat /\ Cardinality(Mode) \in Nat
      /\ Cardinality(T) \in Nat /\ Cardinality(Unblocker \X Mode) \in Nat
  BY <1>2, <1>3, FS_CardinalityType
<1>5. /\ WaiterRange \in Nat /\ WaiterRange > Cardinality(Mode) + Cardinality(Unblocker \X Mode)
      /\ MaxAdding \in Nat
  BY NetpollAssumption
<1> QED BY <1>3, <1>4, <1>5

\* The sums that WaitersExact is about.
LEMMA CountFinite ==
    /\ IsFiniteSet(Slots) /\ Cardinality(Slots) \in Nat
    /\ IsFiniteSet(CountedOut) /\ Cardinality(CountedOut) \in Nat
    /\ Cardinality(Slots) + Cardinality(CountedOut) < WaiterRange
    /\ WaiterRange \in Nat \ {0} /\ MaxAdding \in Nat
<1>1. Slots \in SUBSET Mode /\ CountedOut \in SUBSET (Unblocker \X Mode)
  BY DEF Slots, CountedOut
<1> QED BY <1>1, FewerThanRange

\* And after a step.
LEMMA CountFiniteNext ==
    /\ IsFiniteSet(Slots') /\ Cardinality(Slots') \in Nat
    /\ IsFiniteSet(CountedOut') /\ Cardinality(CountedOut') \in Nat
<1>1. Slots' \in SUBSET Mode /\ CountedOut' \in SUBSET (Unblocker \X Mode)
  BY DEF Slots, CountedOut
<1> QED BY <1>1, FewerThanRange

\* Division with remainder.
LEMMA DivMod ==
    ASSUME NEW n \in Nat \ {0}, NEW a \in Int
    PROVE  \E b \in Int, s \in 0..(n - 1) : a = n * b + s /\ a % n = s
<1> DEFINE b == a \div n
<1> DEFINE s == a % n
<1>1. b \in Int /\ s \in 0..(n - 1) /\ a = n * b + s
  OBVIOUS
<1>2. a % n = s
  OBVIOUS
<1> HIDE DEF b, s
<1> QED BY <1>1, <1>2

\* The remainder is unique.
LEMMA ModUnique ==
    ASSUME NEW n \in Nat \ {0}, NEW a \in Int, NEW q \in Int, NEW r \in 0..(n - 1), a = n * q + r
    PROVE  a % n = r
<1>1. PICK b \in Int, s \in 0..(n - 1) : a = n * b + s /\ a % n = s
  BY DivMod
<1>2. n * (b - q) = r - s
  <2>1. n * (b - q) = n * b - n * q
    OBVIOUS
  <2>2. PICK x \in Int : x = n * b
    OBVIOUS
  <2>3. PICK y \in Int : y = n * q
    OBVIOUS
  <2>4. a = x + s /\ a = y + r /\ n * (b - q) = x - y
    BY <1>1, <2>1, <2>2, <2>3
  <2> QED BY <2>4
<1>3. b - q = 0
  <2>1. CASE b - q >= 1
    <3>1. n * (b - q) >= n
      BY <2>1
    <3> QED BY <1>2, <3>1
  <2>2. CASE b - q <= -1
    <3>1. n * (b - q) <= -n
      BY <2>2
    <3> QED BY <1>2, <3>1
  <2> QED BY <2>1, <2>2
<1>4. n * (b - q) = 0
  BY <1>3
<1> QED BY <1>1, <1>2, <1>4

\* The remainder of a sum from that of its first part.
LEMMA ModShift ==
    ASSUME NEW n \in Nat \ {0}, NEW a \in Int, NEW d \in Int
    PROVE  ((a % n) + d) % n = (a + d) % n
<1>1. PICK b \in Int, s \in 0..(n - 1) : a = n * b + s /\ a % n = s
  BY DivMod
<1>2. PICK c \in Int, t \in 0..(n - 1) : s + d = n * c + t /\ (s + d) % n = t
  BY DivMod
<1>3. n * (b + c) = n * b + n * c
  OBVIOUS
<1>4. a + d = n * (b + c) + t
  <2>1. PICK x \in Int : x = n * b
    OBVIOUS
  <2>2. PICK y \in Int : y = n * c
    OBVIOUS
  <2>3. a = x + s /\ s + d = y + t /\ n * (b + c) = x + y
    BY <1>1, <1>2, <1>3, <2>1, <2>2
  <2> QED BY <2>3
<1>5. (a + d) % n = t
  <2>1. PICK e \in Int : e = a + d
    OBVIOUS
  <2>2. PICK q \in Int : q = b + c
    OBVIOUS
  <2>3. e = n * q + t
    BY <1>4, <2>1, <2>2
  <2>4. e % n = t
    BY <2>3, ModUnique
  <2> QED BY <2>1, <2>4
<1> QED BY <1>1, <1>2, <1>5

\* The count and the sum that it stands for change alike.
LEMMA CountShift ==
    ASSUME WaitersExact, adding \in Int, adding' \in Int, NEW CONSTANT d \in Int,
           waiters' = Plus(waiters, d),
           Cardinality(Slots') + Cardinality(CountedOut') - adding' =
               Cardinality(Slots) + Cardinality(CountedOut) - adding + d
    PROVE  WaitersExact'
<1>1. PICK a \in Int : a = Cardinality(Slots) + Cardinality(CountedOut) + (-adding)
  BY CountFinite
<1>2. Cardinality(Slots') \in Nat /\ Cardinality(CountedOut') \in Nat
  BY CountFiniteNext
<1>3. Cardinality(Slots') + Cardinality(CountedOut') + (-adding') = a + d
  BY <1>1, <1>2, CountFinite
<1>4. waiters = a % WaiterRange
  BY <1>1 DEF WaitersExact, Plus, Slots
<1>5. waiters' = (a + d) % WaiterRange
  BY <1>4, ModShift, CountFinite DEF Plus
<1> QED BY <1>3, <1>5 DEF WaitersExact, Plus, Slots

\* Neither changes.
LEMMA CountSame ==
    ASSUME WaitersExact, waiters' = waiters, adding \in Int, adding' \in Int,
           Cardinality(Slots') + Cardinality(CountedOut') - adding' =
               Cardinality(Slots) + Cardinality(CountedOut) - adding
    PROVE  WaitersExact'
<1>1. PICK a \in Int : a = Cardinality(Slots) + Cardinality(CountedOut) + (-adding)
  BY CountFinite
<1>2. Cardinality(Slots') \in Nat /\ Cardinality(CountedOut') \in Nat
  BY CountFiniteNext
<1>3. Cardinality(Slots') + Cardinality(CountedOut') + (-adding') = a
  BY <1>1, <1>2, CountFinite
<1> QED BY <1>1, <1>3 DEF WaitersExact, Plus, Slots

\* The slots keep their goroutines, and the unblockers what they have taken.
LEMMA CountQuiet ==
    ASSUME CountInv, UNCHANGED <<waiters, adding, taken>>,
           \A m \in Mode : sem'[m] = "G" <=> sem[m] = "G"
    PROVE  WaitersExact'
<1>1. Slots' = Slots /\ CountedOut' = CountedOut
  BY DEF Slots, CountedOut
<1>2. Cardinality(Slots') = Cardinality(Slots) /\ Cardinality(CountedOut') = Cardinality(CountedOut)
  BY <1>1
<1> QED BY <1>2, CountSame, CountFinite DEF CountInv

\* An unblocker moves to l and the goroutines stay.
LEMMA OneMoves ==
    ASSUME ControlInv, NEW p \in Unblocker, NEW CONSTANT l, Goto(p, l)
    PROVE  /\ \A m \in Blocker : pc'[m] = pc[m]
           /\ \A x \in Unblocker : pc'[x] = IF x = p THEN l ELSE pc[x]
<1>1. pc \in [Blocker \cup Unblocker -> IoPC \cup UnblockerPC] /\ pc' = [pc EXCEPT ![p] = l]
  BY DEF ControlInv, ShapeInv, Goto
<1> QED BY <1>1, Roles

\* An unblocker that has taken nobody moves, or a callback comes to its second mode.
LEMMA TakenQuiet ==
    ASSUME ControlInv, CountInv, NEW p \in Unblocker, NEW CONSTANT l, Goto(p, l), UNCHANGED <<woken, taken>>,
           \A x \in Unblocker : x # p => todo'[x] = todo[x], pc[p] # "ready",
           woken[p] = {} \/ (pc[p] = "write" /\ todo'[p] = {"w"})
    PROVE  TakenInv'
<1>1. \A x \in Unblocker : pc'[x] = IF x = p THEN l ELSE pc[x]
  BY OneMoves
<1> QED BY <1>1 DEF CountInv, TakenInv

\* The actions that leave the slots alone.
LEMMA QuietCount ==
    ASSUME ControlInv, WakeInv, CountInv,
           \/ SetDeadline \/ SetClosing \/ Register \/ Close \/ pollUnblock \/ pollClose
           \/ FreeSeq \/ FreePublish \/ Poll \/ PollTag \/ setEventErr
           \/ (\E d \in Time \cup {"none", "expired"}, ms \in {{"r"}, {"w"}, Mode} : SetTimers(d, ms))
           \/ \E p \in Callback : \/ DeadlineStale(p) \/ DeadlineFirst(p) \/ DeadlineWrite(p)
                                  \/ \E m \in Mode : Fire(p, m)
    PROVE  CountInv'
<1>1. UNCHANGED <<sem, woken, taken, waiters, adding>>
  BY DEF SetDeadline, SetClosing, Register, Close, pollUnblock, pollClose, FreeSeq, FreePublish, Poll,
         PollTag, setEventErr, SetTimers, DeadlineStale, DeadlineFirst, DeadlineWrite, Expire, Fire,
         local, count
<1>2. todo \in [Unblocker -> SUBSET Mode]
  BY DEF ControlInv, ShapeInv
<1>3. TakenInv'
  <2>1. CASE SetDeadline \/ SetClosing
    <3>1. PICK l : Goto(Setter, l) /\ pc[Setter] \notin Waking /\ todo' = todo
      BY <2>1 DEF SetDeadline, SetClosing, Waking, local
    <3> QED BY <1>1, <3>1, Roles, NoneWoken, TakenQuiet DEF Waking
  <2>2. CASE \E d \in Time \cup {"none", "expired"}, ms \in {{"r"}, {"w"}, Mode} : SetTimers(d, ms)
    <3>1. PICK l, t : /\ Goto(Setter, l) /\ pc[Setter] \notin Waking
                      /\ todo' = [todo EXCEPT ![Setter] = t]
      BY <2>2 DEF SetTimers, Waking
    <3>2. \A x \in Unblocker : x # Setter => todo'[x] = todo[x]
      BY <1>2, <3>1
    <3> QED BY <1>1, <3>1, <3>2, Roles, NoneWoken, TakenQuiet DEF Waking
  <2>3. CASE Register \/ Close \/ pollUnblock \/ pollClose \/ FreeSeq \/ FreePublish
    <3>1. PICK l, t : /\ Goto(Owner, l) /\ pc[Owner] \notin Waking
                      /\ todo' = todo \/ todo' = [todo EXCEPT ![Owner] = t]
      BY <2>3 DEF Register, Close, pollUnblock, pollClose, FreeSeq, FreePublish, Waking, local
    <3>2. \A x \in Unblocker : x # Owner => todo'[x] = todo[x]
      BY <1>2, <3>1
    <3> QED BY <1>1, <3>1, <3>2, Roles, NoneWoken, TakenQuiet DEF Waking
  <2>4. CASE Poll \/ PollTag \/ setEventErr
    <3>1. PICK l, t : /\ Goto(Poller, l) /\ pc[Poller] \notin Waking
                      /\ todo' = todo \/ todo' = [todo EXCEPT ![Poller] = t]
      BY <2>4 DEF Poll, PollTag, setEventErr, Waking
    <3>2. \A x \in Unblocker : x # Poller => todo'[x] = todo[x]
      BY <1>2, <3>1
    <3> QED BY <1>1, <3>1, <3>2, Roles, NoneWoken, TakenQuiet DEF Waking
  <2>5. ASSUME NEW p \in Callback, DeadlineStale(p) \/ (\E m \in Mode : Fire(p, m)) PROVE TakenInv'
    <3>1. PICK l : Goto(p, l) /\ pc[p] \notin Waking /\ todo' = todo
      BY <2>5 DEF DeadlineStale, Fire, Waking
    <3> QED BY <1>1, <3>1, Roles, NoneWoken, TakenQuiet DEF Waking
  <2>6. ASSUME NEW p \in Callback, DeadlineFirst(p) \/ DeadlineWrite(p) PROVE TakenInv'
    <3>1. PICK m \in Mode : ExpireStep(p, m)
      BY <2>6, ExpireIs
    <3>2. /\ Goto(p, "unblock") /\ \A x \in Unblocker : x # p => todo'[x] = todo[x]
          /\ pc[p] = "lock" \/ (pc[p] = "write" /\ todo'[p] = {"w"})
      BY <1>2, <3>1, Roles DEF ExpireStep
    <3>3. pc[p] = "lock" => woken[p] = {}
      BY Roles, NoneWoken DEF Waking
    <3> QED BY <1>1, <3>2, <3>3, Roles, TakenQuiet
  <2> QED BY <2>1, <2>2, <2>3, <2>4, <2>5, <2>6
<1> QED BY <1>1, <1>3, CountQuiet DEF CountInv

\* The kernel does not count.
LEMMA KernelCount ==
    ASSUME CountInv, Fail \/ \E m \in Blocker : Arrive(m)
    PROVE  CountInv'
<1>1. UNCHANGED <<sem, woken, taken, waiters, adding, pc, todo>>
  BY DEF Fail, Arrive, local, count
<1> QED BY <1>1, CountQuiet DEF CountInv, TakenInv

\* Whoever parks has its M going to count it.
LEMMA IoCount ==
    ASSUME ControlInv, WakeInv, CountInv, NEW m \in Blocker, Start(m) \/ IoStep(m)
    PROVE  CountInv'
<1>1. /\ pc \in [Blocker \cup Unblocker -> IoPC \cup UnblockerPC] /\ m \in Mode
      /\ sem \in [Mode -> {"nil", "ready", "wait", "G"}]
  BY Roles DEF ControlInv, ShapeInv
<1>2. UNCHANGED <<woken, taken, todo, waiters>>
  BY DEF Start, IoStep, Reset, ResetStore, Io, Check, Block, Recheck, Commit, SwapNil, Failed, IoVars,
         local, count
<1>3. PICK l : Goto(m, l)
  BY DEF Start, IoStep, Reset, ResetStore, Io, Check, Block, Recheck, Commit, SwapNil, Failed
<1>4. \A x \in Unblocker : pc'[x] = pc[x]
  BY <1>1, <1>3, Roles DEF Goto
<1>5. TakenInv'
  BY <1>2, <1>4 DEF CountInv, TakenInv
<1>6. sem[m] # "G"
  <2>1. pc[m] # "parked"
    BY DEF Start, IoStep, Reset, ResetStore, Io, Check, Block, Recheck, Commit, SwapNil, Failed
  <2> QED BY <1>1, <2>1 DEF WakeInv, SemInv
<1>7. CASE Commit(m) /\ CanPark(m)
  <2>1. adding < MaxAdding /\ adding' = adding + 1 /\ sem' = [sem EXCEPT ![m] = "G"]
    BY <1>7 DEF Commit
  <2>2. adding \in Nat /\ adding' \in 0..MaxAdding
    BY <2>1, CountFinite DEF CountInv
  <2>3. Slots' = Slots \cup {m} /\ m \notin Slots /\ CountedOut' = CountedOut
    BY <1>1, <1>2, <1>6, <2>1 DEF Slots, CountedOut
  <2>4. Cardinality(Slots') = Cardinality(Slots) + 1 /\ Cardinality(CountedOut') = Cardinality(CountedOut)
    BY <2>3, CountFinite, CountJoin
  <2>5. WaitersExact'
    BY <1>2, <2>1, <2>2, <2>4, CountSame, CountFinite DEF CountInv
  <2> QED BY <1>2, <1>5, <2>2, <2>5 DEF CountInv
<1>8. CASE ~(Commit(m) /\ CanPark(m))
  <2>1. UNCHANGED adding
    BY <1>8 DEF Start, IoStep, Reset, ResetStore, Io, Check, Block, Recheck, Commit, SwapNil, Failed, count
  <2>2. sem' = sem \/ \E v \in {"nil", "wait"} : sem' = [sem EXCEPT ![m] = v]
    BY <1>8 DEF Start, IoStep, Reset, ResetStore, Io, Check, Block, Recheck, Commit, SwapNil, Failed
  <2>3. \A k \in Mode : sem'[k] = "G" <=> sem[k] = "G"
    BY <1>1, <1>6, <2>2
  <2> QED BY <1>2, <1>5, <2>1, <2>3, CountQuiet DEF CountInv
<1> QED BY <1>7, <1>8

\* The M counts.
LEMMA AddCount ==
    ASSUME CountInv, AddWaiter
    PROVE  CountInv'
<1>1. /\ UNCHANGED <<sem, woken, taken, pc, todo>> /\ adding > 0
      /\ waiters' = Plus(waiters, 1) /\ adding' = adding - 1
  BY DEF AddWaiter, IoVars, local
<1>2. adding \in Nat /\ adding' \in 0..MaxAdding
  BY <1>1, CountFinite DEF CountInv
<1>3. Slots' = Slots /\ CountedOut' = CountedOut
  BY <1>1 DEF Slots, CountedOut
<1>4. Cardinality(Slots') = Cardinality(Slots) /\ Cardinality(CountedOut') = Cardinality(CountedOut)
  BY <1>3
<1>5. WaitersExact'
  BY <1>1, <1>2, <1>4, CountShift, CountFinite DEF CountInv
<1> QED BY <1>1, <1>2, <1>5 DEF CountInv, TakenInv

\* Whoever empties a slot is going to count out once more.
LEMMA UnblockCount ==
    ASSUME ControlInv, WakeInv, CountInv, NEW p \in Unblocker, NEW m \in Mode, NEW CONSTANT l,
           UnblockStep(p, m, l)
    PROVE  CountInv'
<1>1. /\ sem \in [Mode -> {"nil", "ready", "wait", "G"}] /\ woken \in [Unblocker -> SUBSET Mode]
      /\ todo \in [Unblocker -> SUBSET Mode] /\ taken \in [Unblocker -> SUBSET Mode] /\ adding \in Nat
  BY CountFinite DEF ControlInv, ShapeInv, CountInv
<1>2. \A x \in Unblocker : pc'[x] = IF x = p THEN l ELSE pc[x]
  BY OneMoves DEF UnblockStep
<1>3. /\ pc[p] = "unblock" /\ m \in todo[p] /\ ("r" \in todo[p] => m = "r")
      /\ taken[p] = woken[p] /\ "w" \notin woken[p] /\ ("r" \in todo[p] => woken[p] = {})
  BY DEF UnblockStep, CountInv, TakenInv
<1>4. m \notin woken[p]
  BY <1>1, <1>3 DEF Mode
<1>5. /\ \A k \in Mode : k # m => sem'[k] = sem[k]
      /\ sem'[m] \in {"nil", "ready"}
      /\ \A x \in Unblocker : todo'[x] = IF x = p THEN todo[p] \ {m} ELSE todo[x]
      /\ \A x \in Unblocker : woken'[x] = IF x = p /\ sem[m] = "G" THEN woken[p] \cup {m} ELSE woken[x]
      /\ \A x \in Unblocker : taken'[x] = IF x = p /\ sem[m] = "G" THEN taken[p] \cup {m} ELSE taken[x]
      /\ taken' \in [Unblocker -> SUBSET Mode]
  BY <1>1 DEF UnblockStep
<1>6. UNCHANGED <<waiters, adding>>
  BY DEF UnblockStep, count
<1>7. TakenInv'
  <2>1. \A x \in Unblocker : x # p =>
            /\ pc'[x] # "ready" => taken'[x] = woken'[x]
            /\ "r" \in todo'[x] => woken'[x] = {}
            /\ pc'[x] \in {"unblock", "write"} => "w" \notin woken'[x]
    BY <1>2, <1>5 DEF CountInv, TakenInv
  <2>2. taken'[p] = woken'[p]
    BY <1>3, <1>5
  <2>3. "r" \notin todo'[p]
    BY <1>3, <1>5
  <2>4. l \in {"unblock", "write"} => m = "r"
    <3>1. l = "write" => m = "r"
      BY DEF UnblockStep
    <3>2. l = "unblock" => todo[p] # {m}
      BY DEF UnblockStep
    <3>3. todo[p] # {m} => "r" \in todo[p]
      BY <1>1, <1>3 DEF Mode
    <3> QED BY <1>3, <3>1, <3>2, <3>3
  <2>5. l \in {"unblock", "write"} => "w" \notin woken'[p]
    BY <1>3, <1>5, <2>4
  <2> QED BY <1>2, <2>1, <2>2, <2>3, <2>5 DEF TakenInv
<1>8. WaitersExact'
  <2>1. CASE sem[m] = "G"
    <3>1. PICK pm : pm = <<p, m>>
      OBVIOUS
    <3>2. CountedOut' = CountedOut \cup {pm}
      BY <1>1, <1>5, <2>1, <3>1 DEF CountedOut
    <3>3. pm \notin CountedOut
      BY <1>3, <1>4, <3>1 DEF CountedOut
    <3>4. Slots = Slots' \cup {m} /\ m \notin Slots'
      BY <1>5, <2>1 DEF Slots
    <3>5. IsFiniteSet(Slots') /\ Cardinality(Slots') \in Nat
      BY CountFiniteNext
    <3>6. Cardinality(CountedOut') = Cardinality(CountedOut) + 1
      BY <3>2, <3>3, CountFinite, CountJoin
    <3>7. Cardinality(Slots) = Cardinality(Slots') + 1
      BY <3>4, <3>5, CountJoin
    <3> QED BY <1>1, <1>6, <3>5, <3>6, <3>7, CountSame, CountFinite DEF CountInv
  <2>2. CASE sem[m] # "G"
    <3>1. taken' = taken
      BY <1>1, <1>5, <2>2
    <3>2. \A k \in Mode : sem'[k] = "G" <=> sem[k] = "G"
      BY <1>5, <2>2
    <3> QED BY <1>6, <3>1, <3>2, CountQuiet
  <2> QED BY <2>1, <2>2
<1> QED BY <1>5, <1>6, <1>7, <1>8 DEF CountInv

\* Releasing pd.lock.
LEMMA UnlockCount ==
    ASSUME ControlInv, WakeInv, CountInv, NEW p \in Unblocker, Unlock(p)
    PROVE  CountInv'
<1>1. PICK l : l = IF woken[p] = {} THEN Done(p) ELSE "ready"
  OBVIOUS
<1>2. pc[p] = "unlock" /\ Goto(p, l) /\ UNCHANGED <<sem, woken, taken, todo, waiters, adding>>
  BY <1>1 DEF Unlock, local, count
<1>3. \A x \in Unblocker : pc'[x] = IF x = p THEN l ELSE pc[x]
  BY <1>2, OneMoves
<1>4. l \notin {"unblock", "write"}
  BY <1>1 DEF Done
<1>5. TakenInv'
  BY <1>2, <1>3, <1>4 DEF CountInv, TakenInv
<1> QED BY <1>2, <1>5, CountQuiet DEF CountInv

\* Goroutines are made ready, and counted out.
LEMMA ReadyCount ==
    ASSUME ControlInv, WakeInv, CountInv, NEW p \in Unblocker, NEW CONSTANT S, NEW CONSTANT l,
           ReadyStep(p, S, l), (\E m \in Mode : Goready(p, m)) \/ Adjust(p)
    PROVE  CountInv'
<1>1. /\ \A x \in Unblocker : pc'[x] = IF x = p THEN l ELSE pc[x]
      /\ l = "ready" \/ l \in {"idle", "decref"}
      /\ pc[p] = "ready" /\ todo' = todo /\ sem' = sem
  BY ReadyMoves DEF ReadyStep
<1>2. /\ todo[p] = {} /\ woken \in [Unblocker -> SUBSET Mode] /\ pc \in [Blocker \cup Unblocker -> IoPC \cup UnblockerPC]
      /\ taken \in [Unblocker -> SUBSET Mode] /\ adding \in Nat
  BY <1>1, CountFinite DEF ControlInv, ShapeInv, TodoInv, CountInv
<1>3. ASSUME NEW m \in Mode, Goready(p, m) PROVE CountInv'
  <2>1. /\ UNCHANGED <<taken, waiters, adding>> /\ woken' = [woken EXCEPT ![p] = @ \ {m}]
        /\ pc' = [pc EXCEPT ![m] = "swap",
                            ![p] = IF woken[p] = {m} /\ taken[p] = {} THEN Done(p) ELSE "ready"]
    BY <1>3 DEF Goready, count
  <2>2. pc'[p] = IF woken[p] = {m} /\ taken[p] = {} THEN Done(p) ELSE "ready"
    BY <1>2, <2>1
  <2>3. pc'[p] # "ready" => taken'[p] = woken'[p]
    BY <1>2, <2>1, <2>2
  <2>4. TakenInv'
    BY <1>1, <1>2, <2>1, <2>3 DEF CountInv, TakenInv
  <2> QED BY <1>1, <2>1, <2>4, CountQuiet DEF CountInv
<1>4. CASE Adjust(p)
  <2>1. /\ UNCHANGED <<woken, adding>> /\ taken' = [taken EXCEPT ![p] = {}]
        /\ Goto(p, IF woken[p] = {} THEN Done(p) ELSE "ready")
        /\ waiters' = Plus(waiters, -Cardinality(taken[p]))
    BY <1>4 DEF Adjust, Delta
  <2>2. pc'[p] = IF woken[p] = {} THEN Done(p) ELSE "ready"
    BY <1>2, <2>1 DEF Goto
  <2>3. \A x \in Unblocker : taken'[x] = IF x = p THEN {} ELSE taken[x]
    BY <1>2, <2>1
  <2>4. TakenInv'
    BY <1>1, <1>2, <2>1, <2>2, <2>3 DEF CountInv, TakenInv
  <2>5. PICK T : T = {p} \X taken[p]
    OBVIOUS
  <2>6. taken[p] \in SUBSET Mode
    BY <1>2
  <2>7. IsFiniteSet(taken[p]) /\ Cardinality(taken[p]) \in Nat
    BY <2>6, ModeFinite
  <2>8. IsFiniteSet(T) /\ Cardinality(T) = Cardinality(taken[p])
    <3>1. IsFiniteSet({p}) /\ Cardinality({p}) = 1
      BY FS_Singleton
    <3>2. IsFiniteSet(T) /\ Cardinality(T) = Cardinality({p}) * Cardinality(taken[p])
      BY <2>5, <2>7, <3>1, FS_Product
    <3> QED BY <2>7, <3>1, <3>2
  <2>9. CountedOut = CountedOut' \cup T /\ CountedOut' \cap T = {}
    <3>1. \A pm \in Unblocker \X Mode : pm \in CountedOut <=> pm[2] \in taken[pm[1]]
      BY DEF CountedOut
    <3>2. \A pm \in Unblocker \X Mode : pm \in CountedOut' <=> pm[1] # p /\ pm[2] \in taken[pm[1]]
      BY <2>3 DEF CountedOut
    <3>3. \A pm \in Unblocker \X Mode : pm \in T <=> pm[1] = p /\ pm[2] \in taken[pm[1]]
      BY <2>5
    <3>4. T \subseteq Unblocker \X Mode
      BY <2>5, <2>6
    <3>5. CountedOut \subseteq Unblocker \X Mode /\ CountedOut' \subseteq Unblocker \X Mode
      BY DEF CountedOut
    <3> QED BY <3>1, <3>2, <3>3, <3>4, <3>5
  <2>10. IsFiniteSet(CountedOut') /\ Cardinality(CountedOut') \in Nat
    BY CountFiniteNext
  <2>11. Cardinality(CountedOut) = Cardinality(CountedOut') + Cardinality(taken[p])
    BY <2>8, <2>9, <2>10, CountDisjoint
  <2>12. Slots' = Slots
    BY <1>1 DEF Slots
  <2>13. PICK d \in Nat : d = Cardinality(taken[p])
    BY <2>7
  <2>14. /\ waiters' = Plus(waiters, -d) /\ -d \in Int
         /\ Cardinality(Slots') + Cardinality(CountedOut') - adding' =
                Cardinality(Slots) + Cardinality(CountedOut) - adding + (-d)
    BY <1>2, <2>1, <2>10, <2>11, <2>12, <2>13, CountFinite
  <2>15. WaitersExact'
    BY <1>2, <2>1, <2>14, CountShift DEF CountInv
  <2>16. taken' \in [Unblocker -> SUBSET Mode]
    BY <1>2, <2>1
  <2> QED BY <2>1, <2>4, <2>15, <2>16 DEF CountInv
<1> QED BY <1>3, <1>4

\* A descriptor is opened with empty slots.
LEMMA OpenCount ==
    ASSUME ControlInv, WakeInv, CountInv, Open
    PROVE  CountInv'
<1>1. /\ phase = "none" /\ Goto(Owner, "register") /\ sem' = [m \in Mode |-> "nil"] /\ pc[Owner] = "idle"
      /\ UNCHANGED <<woken, taken, todo, waiters, adding>>
  BY DEF Open, local, count
<1>2. \A m \in Blocker : pc[m] = "idle"
  BY <1>1 DEF ControlInv, LifeInv
<1>3. \A m \in Mode : sem'[m] = "G" <=> sem[m] = "G"
  BY <1>1, <1>2 DEF WakeInv, SemInv
<1>4. TakenInv'
  BY <1>1, Roles, NoneWoken, TakenQuiet DEF Waking
<1> QED BY <1>1, <1>3, <1>4, CountQuiet DEF CountInv

-----------------------------------------------------------------------------
(* Nobody is stranded *)

\* The goroutines, their slots, and what the holder of pd.lock has to unblock stay.
LEMMA StrandedQuiet ==
    ASSUME ControlInv, NobodyStranded, \A m \in Blocker : pc'[m] = pc[m],
           UNCHANGED <<sem, closing, dl, lock>>,
           \A x \in Unblocker : x # Poller => todo'[x] = todo[x]
    PROVE  NobodyStranded'
<1>1. lock # Nil => lock \in Unblocker /\ lock # Poller
  BY Roles DEF ControlInv, ShapeInv, LockInv
<1>2. \A m \in Blocker : Sleeping(m)' <=> Sleeping(m)
  BY DEF Sleeping
<1> QED BY <1>1, <1>2 DEF NobodyStranded

\* While pd.lock is free, or its holder has nothing left to unblock, nobody sleeps
\* who should not.
LEMMA NoneStranded ==
    ASSUME ControlInv, NobodyStranded,
           lock = Nil \/ (lock \in Unblocker /\ pc[lock] # "unblock"),
           NEW m \in Blocker, Sleeping(m)
    PROVE  ~closing /\ dl[m] # "expired"
  BY Roles DEF NobodyStranded, ControlInv, TodoInv

\* Before it commits itself to the park a goroutine has tested for errors.
LEMMA IoStranded ==
    ASSUME ControlInv, NobodyStranded, NEW m \in Blocker, Start(m) \/ IoStep(m)
    PROVE  NobodyStranded'
<1>1. /\ pc \in [Blocker \cup Unblocker -> IoPC \cup UnblockerPC] /\ m \in Mode
      /\ sem \in [Mode -> {"nil", "ready", "wait", "G"}]
  BY Roles DEF ControlInv, ShapeInv
<1>2. UNCHANGED <<info, closing, dl, lock, todo>>
  BY DEF Start, IoStep, Reset, ResetStore, Io, Check, Block, Recheck, Commit, SwapNil, Failed, IoVars,
         local, desc
<1>3. PICK l : Goto(m, l)
  BY DEF Start, IoStep, Reset, ResetStore, Io, Check, Block, Recheck, Commit, SwapNil, Failed
<1>4. \A x \in Blocker \cup Unblocker : pc'[x] = IF x = m THEN l ELSE pc[x]
  BY <1>1, <1>3 DEF Goto
<1>5. \A k \in Blocker : k # m => sem'[k] = sem[k]
  BY <1>1, Roles DEF Start, IoStep, Reset, ResetStore, Io, Check, Block, Recheck, Commit, SwapNil, Failed
<1>6. \A k \in Blocker : k # m => (Sleeping(k)' <=> Sleeping(k))
  BY <1>4, <1>5 DEF Sleeping
<1>7. Sleeping(m)' => Sleeping(m) \/ (~closing /\ dl[m] # "expired")
  <2>1. \A k : Goto(m, k) => l = k
    BY <1>1, <1>3 DEF Goto
  <2>2. CASE Recheck(m)
    <3>1. l = "commit" => ~info.closing /\ m \notin info.expired
      BY <2>1, <2>2 DEF Recheck, StillFine, netpollcheckerr
    <3>2. l \in {"commit", "swap"}
      BY <2>1, <2>2 DEF Recheck
    <3> QED BY <1>1, <1>4, <3>1, <3>2 DEF ControlInv, InfoInv, Sleeping
  <2>3. CASE Commit(m)
    BY <1>1, <1>4, <2>1, <2>3 DEF Commit, CanPark, Sleeping
  <2>4. CASE Start(m) \/ Reset(m) \/ ResetStore(m) \/ Io(m) \/ Check(m) \/ Block(m) \/ SwapNil(m) \/ Failed(m)
    <3>1. l \notin {"commit", "parked"}
      BY <2>1, <2>4 DEF Start, Reset, ResetStore, Io, Check, Block, SwapNil, Failed
    <3> QED BY <1>4, <3>1 DEF Sleeping
  <2> QED BY <2>2, <2>3, <2>4 DEF IoStep
<1> QED BY <1>2, <1>6, <1>7 DEF NobodyStranded

\* Whom netpollunblock takes off the list sleeps no longer.
LEMMA UnblockStranded ==
    ASSUME ControlInv, NobodyStranded, NEW p \in Unblocker, NEW m \in Mode, NEW CONSTANT l,
           UnblockStep(p, m, l)
    PROVE  NobodyStranded'
<1>1. \A k \in Blocker : pc'[k] = pc[k]
  BY OneMoves DEF UnblockStep
<1>2. /\ \A k \in Mode : k # m => sem'[k] = sem[k]
      /\ sem'[m] \in {"nil", "ready"}
      /\ \A x \in Unblocker : todo'[x] = IF x = p THEN todo[p] \ {m} ELSE todo[x]
  BY DEF UnblockStep, ControlInv, ShapeInv
<1>3. UNCHANGED <<closing, dl, lock>>
  BY DEF UnblockStep
<1>4. \A k \in Blocker : Sleeping(k)' => Sleeping(k) /\ k # m
  BY <1>1, <1>2, Roles DEF Sleeping
<1>5. lock # Nil => lock \in Unblocker
  BY DEF ControlInv, ShapeInv
<1> QED BY <1>2, <1>3, <1>4, <1>5 DEF NobodyStranded

\* pd.lock is released when everybody is unblocked.
LEMMA UnlockStranded ==
    ASSUME ControlInv, NobodyStranded, NEW p \in Unblocker, Unlock(p)
    PROVE  NobodyStranded'
<1>1. PICK l : l = IF woken[p] = {} THEN Done(p) ELSE "ready"
  OBVIOUS
<1>2. pc[p] = "unlock" /\ Goto(p, l) /\ UNCHANGED <<sem, closing, dl>>
  BY <1>1 DEF Unlock
<1>3. lock = p
  BY <1>2, Roles, RolePCs DEF ControlInv, LockInv, ShapeInv
<1>4. \A m \in Blocker : pc'[m] = pc[m]
  BY <1>2, OneMoves
<1>5. \A m \in Blocker : Sleeping(m)' <=> Sleeping(m)
  BY <1>2, <1>4 DEF Sleeping
<1>6. \A m \in Blocker : Sleeping(m) => ~closing /\ dl[m] # "expired"
  BY <1>2, <1>3, NoneStranded
<1> QED BY <1>2, <1>5, <1>6 DEF NobodyStranded

\* Readying the goroutines.
LEMMA ReadyStranded ==
    ASSUME ControlInv, WakeInv, NobodyStranded, NEW p \in Unblocker, NEW CONSTANT S, NEW CONSTANT l,
           ReadyStep(p, S, l)
    PROVE  NobodyStranded'
<1>1. UNCHANGED <<sem, closing, dl, lock, todo>>
  BY DEF ReadyStep
<1>2. \A m \in Blocker : pc'[m] = pc[m] \/ pc'[m] = "swap"
  BY ReadyMoves, Roles
<1>3. \A m \in Blocker : Sleeping(m)' => Sleeping(m)
  BY <1>1, <1>2 DEF Sleeping
<1> QED BY <1>1, <1>3 DEF NobodyStranded

\* pollSetDeadline is going to unblock those whose deadline has expired.
LEMMA SetStranded ==
    ASSUME ControlInv, NobodyStranded, NEW CONSTANT new, NEW CONSTANT ex, SetStep(new, ex)
    PROVE  NobodyStranded'
<1>1. /\ lock = Nil /\ lock' = Setter /\ closing' = FALSE /\ dl' = new /\ sem' = sem
      /\ ex = {m \in Mode : new[m] = "expired"} /\ todo' = [todo EXCEPT ![Setter] = ex]
  BY DEF SetStep, ControlInv, ShapeInv
<1>2. todo'[Setter] = ex
  BY <1>1, Roles DEF ControlInv, ShapeInv
<1> QED BY <1>1, <1>2, Roles DEF NobodyStranded

\* So is the callback of a timer.
LEMMA ExpireStranded ==
    ASSUME ControlInv, NobodyStranded, NEW p \in Callback, NEW CONSTANT m \in Mode, ExpireStep(p, m)
    PROVE  NobodyStranded'
<1>1. /\ dl' = [dl EXCEPT ![m] = "expired"] /\ sem' = sem /\ closing' = closing
      /\ todo' = [todo EXCEPT ![p] = {m}] /\ Goto(p, "unblock")
      /\ \/ pc[p] = "lock" /\ lock = Nil /\ lock' = p
         \/ pc[p] = "write" /\ lock' = lock
  BY DEF ExpireStep
<1>2. lock' = p /\ (lock = Nil \/ (lock = p /\ pc[p] # "unblock")) /\ p \in Unblocker
  BY <1>1, Roles DEF ControlInv, LockInv
<1>3. \A k \in Blocker : pc'[k] = pc[k]
  BY <1>1, <1>2, OneMoves
<1>4. \A k \in Blocker : Sleeping(k)' <=> Sleeping(k)
  BY <1>1, <1>3 DEF Sleeping
<1>5. \A k \in Blocker : Sleeping(k) => ~closing /\ dl[k] # "expired"
  BY <1>2, NoneStranded
<1>6. todo'[p] = {m} /\ \A k \in Blocker : k # m => dl'[k] = dl[k]
  BY <1>1, <1>2, Roles DEF ControlInv, ShapeInv
<1> QED BY <1>1, <1>2, <1>4, <1>5, <1>6, Roles DEF NobodyStranded

\* Close unblocks both modes.
LEMMA EvictStranded ==
    ASSUME ControlInv, pollUnblock
    PROVE  NobodyStranded'
<1>1. lock' = Owner /\ todo' = [todo EXCEPT ![Owner] = Mode]
  BY DEF pollUnblock
<1>2. todo'[Owner] = Mode
  BY <1>1, Roles DEF ControlInv, ShapeInv
<1> QED BY <1>1, <1>2, Roles DEF NobodyStranded

\* Without a file nobody sleeps.
LEMMA UnusedStranded ==
    ASSUME ControlInv, Open \/ FreeSeq \/ FreePublish
    PROVE  NobodyStranded'
<1>1. \A m \in Blocker : pc[m] = "idle"
  BY DEF Open, FreeSeq, FreePublish, ControlInv, LifeInv
<1>2. \E l : Goto(Owner, l)
  BY DEF Open, FreeSeq, FreePublish
<1>3. \A m \in Blocker : pc'[m] = "idle"
  BY <1>1, <1>2, Roles, OneMoves
<1> QED BY <1>3 DEF NobodyStranded, Sleeping

\* The other actions change nothing of it.
LEMMA QuietStranded ==
    ASSUME ControlInv, NobodyStranded,
           \/ SetDeadline \/ SetClosing \/ Register \/ Close \/ pollClose
           \/ Fail \/ (\E m \in Blocker : Arrive(m)) \/ Poll \/ PollTag \/ setEventErr
           \/ \E p \in Callback : DeadlineStale(p) \/ \E m \in Mode : Fire(p, m)
    PROVE  NobodyStranded'
<1>1. UNCHANGED <<sem, closing, dl, lock>>
  BY DEF SetDeadline, SetClosing, Register, Close, pollClose, Fail, Arrive, Poll, PollTag, setEventErr,
         DeadlineStale, Fire, desc
<1>2. pc' = pc \/ \E p \in Unblocker, l \in UnblockerPC : Goto(p, l)
  BY Roles DEF SetDeadline, SetClosing, Register, Close, pollClose, Fail, Arrive, Poll, PollTag,
               setEventErr, DeadlineStale, Fire, UnblockerPC
<1>3. \A m \in Blocker : pc'[m] = pc[m]
  BY <1>2, OneMoves
<1>4. todo' = todo \/ \E t : todo' = [todo EXCEPT ![Poller] = t]
  BY DEF SetDeadline, SetClosing, Register, Close, pollClose, Fail, Arrive, Poll, PollTag,
         setEventErr, DeadlineStale, Fire, local
<1>5. \A x \in Unblocker : x # Poller => todo'[x] = todo[x]
  BY <1>4 DEF ControlInv, ShapeInv
<1> QED BY <1>1, <1>3, <1>5, StrandedQuiet

-----------------------------------------------------------------------------
(* Events: no readiness is lost, and no error is reported for another file *)

\* The setter, a callback or the owner does something that concerns neither the
\* event in the hands of the poller nor the registration.
SideStep(p, l) ==
    /\ p \in Unblocker /\ p # Poller /\ Goto(p, l)
    /\ UNCHANGED <<sem, kernel, fdseq>> /\ info'.err = info.err
    /\ todo'[Poller] = todo[Poller] /\ arg'[Poller] = arg[Poller]
    /\ phase' = phase \/ phase' = "closed"
    /\ p = Owner => l # "register" /\ pc[p] # "free"

\* Such steps keep both.
LEMMA SideEvents ==
    ASSUME ControlInv, ReadinessInv, ErrInv, NEW CONSTANT p, NEW CONSTANT l, SideStep(p, l)
    PROVE  ReadinessInv' /\ ErrInv'
<1>1. /\ p \in Unblocker /\ p # Poller /\ Goto(p, l)
      /\ UNCHANGED <<sem, kernel, fdseq>> /\ info'.err = info.err
      /\ todo'[Poller] = todo[Poller] /\ arg'[Poller] = arg[Poller]
      /\ phase' = phase \/ phase' = "closed"
      /\ p = Owner => l # "register" /\ pc[p] # "free"
  BY DEF SideStep
<1>2. /\ \A m \in Blocker : pc'[m] = pc[m]
      /\ pc'[Poller] = pc[Poller]
      /\ pc'[Owner] = pc[Owner] \/ (pc[Owner] # "free" /\ pc'[Owner] # "register")
  BY <1>1, Roles, OneMoves
<1>3. \A m \in Blocker : Coming(m)' <=> Coming(m)
  BY <1>1, <1>2 DEF Coming
<1>4. ReadinessInv'
  BY <1>1, <1>2, <1>3 DEF ReadinessInv
<1>5. ErrInv'
  BY <1>1, <1>2 DEF ErrInv, TagInv, EventErrFresh
<1> QED BY <1>4, <1>5

\* pollSetDeadline and Close are such steps, before they unblock anybody.
LEMMA SideOther ==
    ASSUME ControlInv, SetDeadline \/ SetClosing \/ Close \/ pollUnblock
    PROVE  \E p, l : SideStep(p, l)
<1>1. /\ UNCHANGED <<sem, kernel, fdseq, arg>> /\ (phase' = phase \/ phase' = "closed")
      /\ todo' = todo \/ todo' = [todo EXCEPT ![Owner] = Mode]
  BY DEF SetDeadline, SetClosing, Close, pollUnblock, local
<1>2. info'.err = info.err
  <2>1. info' = info \/ info' = Published(TRUE, dl, fdseq)
    BY DEF SetDeadline, SetClosing, Close, pollUnblock
  <2>2. info \in [closing : BOOLEAN, expired : SUBSET Mode, err : BOOLEAN, seq : 0..(MaxOpen + 1)]
    BY DEF ControlInv, ShapeInv
  <2> QED BY <2>1, <2>2 DEF Published
<1>3. todo'[Poller] = todo[Poller]
  BY <1>1, Roles DEF ControlInv, ShapeInv
<1>4. \/ \E l : Goto(Setter, l)
      \/ \E l : Goto(Owner, l) /\ l # "register" /\ pc[Owner] # "free"
  BY DEF SetDeadline, SetClosing, Close, pollUnblock
<1> QED BY <1>1, <1>2, <1>3, <1>4, Roles DEF SideStep

\* SetTimers is.
LEMMA SideSet ==
    ASSUME ControlInv, NEW CONSTANT new, NEW CONSTANT ex, SetStep(new, ex)
    PROVE  \E p, l : SideStep(p, l)
<1>1. /\ UNCHANGED <<sem, kernel, fdseq, arg, phase>>
      /\ todo' = [todo EXCEPT ![Setter] = ex] /\ info' = Published(closing, new, fdseq)
  BY DEF SetStep
<1>2. info'.err = info.err
  <2>1. info \in [closing : BOOLEAN, expired : SUBSET Mode, err : BOOLEAN, seq : 0..(MaxOpen + 1)]
    BY DEF ControlInv, ShapeInv
  <2> QED BY <1>1, <2>1 DEF Published
<1>3. todo'[Poller] = todo[Poller]
  BY <1>1, Roles DEF ControlInv, ShapeInv
<1>4. \E l : Goto(Setter, l)
  BY DEF SetStep
<1> QED BY <1>1, <1>2, <1>3, <1>4, Roles DEF SideStep

\* The callbacks are.
LEMMA SideCallback ==
    ASSUME ControlInv, NEW p \in Callback,
           \/ DeadlineStale(p) \/ (\E m \in Mode : Fire(p, m))
           \/ \E m \in Mode : ExpireStep(p, m)
    PROVE  \E l : SideStep(p, l)
<1>1. /\ UNCHANGED <<sem, kernel, fdseq, phase>>
      /\ todo' = todo \/ \E t : todo' = [todo EXCEPT ![p] = t]
      /\ arg' = arg \/ \E a : arg' = [arg EXCEPT ![p] = a]
      /\ \E l : Goto(p, l)
  BY DEF DeadlineStale, Fire, ExpireStep
<1>2. info'.err = info.err
  <2>1. info' = info \/ info' = Published(closing, dl', fdseq)
    BY DEF DeadlineStale, Fire, ExpireStep
  <2>2. info \in [closing : BOOLEAN, expired : SUBSET Mode, err : BOOLEAN, seq : 0..(MaxOpen + 1)]
    BY DEF ControlInv, ShapeInv
  <2>3. CASE info' = info
    BY <2>3
  <2>4. CASE info' = Published(closing, dl', fdseq)
    BY <2>2, <2>4 DEF Published
  <2> QED BY <2>1, <2>3, <2>4
<1>3. todo'[Poller] = todo[Poller] /\ arg'[Poller] = arg[Poller]
  BY <1>1, Roles DEF ControlInv, ShapeInv
<1> QED BY <1>1, <1>2, <1>3, Roles DEF SideStep

\* Releasing pd.lock is.
LEMMA SideUnlock ==
    ASSUME ControlInv, NEW p \in Unblocker, Unlock(p)
    PROVE  \E l : SideStep(p, l)
<1>1. PICK l : l = IF woken[p] = {} THEN Done(p) ELSE "ready"
  OBVIOUS
<1>2. pc[p] = "unlock" /\ Goto(p, l) /\ UNCHANGED <<sem, kernel, fdseq, phase, info, todo, arg>>
  BY <1>1 DEF Unlock, local
<1>3. p # Poller
  BY <1>2, RolePCs, Roles DEF ControlInv, ShapeInv
<1>4. l # "register"
  BY <1>1 DEF Done
<1> QED BY <1>2, <1>3, <1>4 DEF SideStep

\* A goroutine that found nothing has its event before it.
LEMMA IoEvents ==
    ASSUME ControlInv, ReadinessInv, ErrInv, NEW m \in Blocker, Start(m) \/ IoStep(m)
    PROVE  ReadinessInv' /\ ErrInv'
<1>1. /\ pc \in [Blocker \cup Unblocker -> IoPC \cup UnblockerPC] /\ m \in Mode
      /\ sem \in [Mode -> {"nil", "ready", "wait", "G"}]
      /\ kernel \in [reg : 0..(MaxOpen + 1), avail : SUBSET Mode, edge : SUBSET Mode, err : BOOLEAN]
  BY Roles DEF ControlInv, ShapeInv
<1>2. UNCHANGED <<info, phase, fdseq, todo, arg>>
  BY DEF Start, IoStep, Reset, ResetStore, Io, Check, Block, Recheck, Commit, SwapNil, Failed, IoVars,
         local, desc
<1>3. PICK l : Goto(m, l)
  BY DEF Start, IoStep, Reset, ResetStore, Io, Check, Block, Recheck, Commit, SwapNil, Failed
<1>4. \A x \in Blocker \cup Unblocker : pc'[x] = IF x = m THEN l ELSE pc[x]
  BY <1>1, <1>3 DEF Goto
<1>5. pc'[Poller] = pc[Poller] /\ pc'[Owner] = pc[Owner]
  BY <1>4, Roles
<1>6. \A k \in Blocker : k # m => sem'[k] = sem[k]
  BY <1>1, Roles DEF Start, IoStep, Reset, ResetStore, Io, Check, Block, Recheck, Commit, SwapNil, Failed
<1>7. /\ kernel'.reg = kernel.reg /\ kernel'.err = kernel.err /\ kernel'.edge = kernel.edge
      /\ kernel'.avail \subseteq kernel.avail
  <2>1. kernel' = kernel \/ kernel' = [kernel EXCEPT !.avail = @ \ {m}]
    BY DEF Start, IoStep, Reset, ResetStore, Io, Check, Block, Recheck, Commit, SwapNil, Failed
  <2> QED BY <1>1, <2>1
<1>8. ErrInv'
  BY <1>2, <1>5, <1>7 DEF ErrInv, TagInv, EventErrFresh
<1>9. \A k \in Blocker : Coming(k)' <=> Coming(k)
  BY <1>2, <1>5, <1>7 DEF Coming
<1> DEFINE R == {"check", "block", "recheck", "commit", "parked", "swap", "failed"}
<1>10. l \in R => \/ m \notin kernel'.avail
                  \/ pc[m] \in R /\ (sem'[m] = sem[m] \/ sem[m] # "ready")
  <2>1. \A k : Goto(m, k) => l = k
    BY <1>1, <1>3 DEF Goto
  <2>2. CASE Start(m) \/ Reset(m) \/ ResetStore(m)
    BY <2>1, <2>2 DEF Start, Reset, ResetStore
  <2>3. CASE Io(m)
    <3>1. kernel'.avail = kernel.avail \ {m}
      BY <1>1, <2>3 DEF Io
    <3> QED BY <3>1
  <2>4. CASE Check(m) \/ Recheck(m) \/ Failed(m)
    BY <2>4 DEF Check, Recheck, Failed
  <2>5. CASE Block(m)
    BY <1>1, <2>1, <2>5 DEF Block
  <2>6. CASE Commit(m)
    BY <1>1, <2>1, <2>6 DEF Commit, CanPark
  <2>7. CASE SwapNil(m)
    <3>1. pc[m] = "swap" /\ l = IF sem[m] = "ready" THEN "io" ELSE "failed"
      BY <2>1, <2>7 DEF SwapNil, Notified
    <3> QED BY <3>1
  <2> QED BY <2>2, <2>3, <2>4, <2>5, <2>6, <2>7 DEF IoStep
<1>11. ReadinessInv'
  <2>1. ASSUME NEW k \in Blocker, pc'[k] \in R, k \in kernel'.avail
        PROVE  Coming(k)' \/ sem'[k] = "ready"
    <3>1. k \in kernel.avail
      BY <1>7, <2>1
    <3>2. CASE k = m
      BY <1>4, <1>9, <1>10, <2>1, <3>1, <3>2 DEF ReadinessInv
    <3>3. CASE k # m
      BY <1>4, <1>6, <1>9, <2>1, <3>1, <3>3 DEF ReadinessInv
    <3> QED BY <3>2, <3>3
  <2> QED BY <2>1 DEF ReadinessInv
<1> QED BY <1>8, <1>11

\* The poller unblocks with "ready"; nobody else overwrites it.
LEMMA UnblockEvents ==
    ASSUME ControlInv, ReadinessInv, ErrInv, NEW p \in Unblocker, NEW m \in Mode, NEW CONSTANT l,
           UnblockStep(p, m, l)
    PROVE  ReadinessInv' /\ ErrInv'
<1>1. /\ pc[p] = "unblock" /\ Goto(p, l) /\ UNCHANGED <<phase, fdseq, info, kernel>>
      /\ l \in {"unblock", "write", "unlock", "idle", "ready"}
  BY DEF UnblockStep
<1>2. /\ \A k \in Blocker : pc'[k] = pc[k]
      /\ \A x \in Unblocker : pc'[x] = IF x = p THEN l ELSE pc[x]
  BY <1>1, OneMoves
<1>3. /\ \A k \in Mode : k # m => sem'[k] = sem[k]
      /\ sem[m] = "ready" => sem'[m] = "ready"
      /\ p = Poller => sem'[m] = "ready"
      /\ \A x \in Unblocker : todo'[x] = IF x = p THEN todo[p] \ {m} ELSE todo[x]
      /\ p # Poller => arg'[Poller] = arg[Poller]
  <2>1. arg' = arg \/ arg' = [arg EXCEPT ![p] = NoArg]
    BY DEF UnblockStep
  <2>2. p # Poller => arg'[Poller] = arg[Poller]
    BY <2>1, Roles DEF ControlInv, ShapeInv
  <2> QED BY <2>2 DEF UnblockStep, ControlInv, ShapeInv
<1>4. \A k \in Blocker : Coming(k) => Coming(k)' \/ (k = m /\ p = Poller)
  <2>1. CASE p = Poller
    BY <1>1, <1>3, <2>1, Roles DEF Coming
  <2>2. CASE p # Poller
    BY <1>1, <1>2, <1>3, <2>2, Roles DEF Coming
  <2> QED BY <2>1, <2>2
<1>5. ReadinessInv'
  BY <1>1, <1>2, <1>3, <1>4, Roles DEF ReadinessInv
<1>6. ErrInv'
  <2>1. pc'[Owner] = pc[Owner] \/ (pc[Owner] = "unblock" /\ pc'[Owner] # "register")
    BY <1>1, <1>2, Roles
  <2>2. CASE p = Poller
    BY <1>1, <1>2, <2>1, <2>2, Roles DEF ErrInv, TagInv, EventErrFresh
  <2>3. CASE p # Poller
    <3>1. pc'[Poller] = pc[Poller] /\ arg'[Poller] = arg[Poller]
      BY <1>2, <1>3, <2>3, Roles
    <3> QED BY <1>1, <2>1, <3>1 DEF ErrInv, TagInv, EventErrFresh
  <2> QED BY <2>2, <2>3
<1> QED BY <1>5, <1>6

\* Readying the goroutines.
LEMMA ReadyEvents ==
    ASSUME ControlInv, WakeInv, ReadinessInv, ErrInv, NEW p \in Unblocker, NEW CONSTANT S, NEW CONSTANT l,
           ReadyStep(p, S, l)
    PROVE  ReadinessInv' /\ ErrInv'
<1>1. pc[p] = "ready" /\ UNCHANGED <<phase, fdseq, info, sem, kernel, todo, arg>>
  BY DEF ReadyStep
<1>2. /\ \A k \in Blocker : pc'[k] = pc[k] \/ (pc[k] = "parked" /\ pc'[k] = "swap")
      /\ pc'[Poller] = pc[Poller] \/ (pc[Poller] = "ready" /\ pc'[Poller] = "idle")
      /\ pc'[Owner] = pc[Owner] \/ (pc[Owner] = "ready" /\ pc'[Owner] = "decref")
  BY <1>1, ReadyMoves, Roles DEF Done
<1>3. \A k \in Blocker : Coming(k)' <=> Coming(k)
  BY <1>1, <1>2 DEF Coming
<1>4. ReadinessInv'
  BY <1>1, <1>2, <1>3 DEF ReadinessInv
<1>5. ErrInv'
  BY <1>1, <1>2 DEF ErrInv, TagInv, EventErrFresh
<1> QED BY <1>4, <1>5

\* While the descriptor is not in use, the event of an earlier file is out of date.
LEMMA OldTag ==
    ASSUME ControlInv, ErrInv, pc[Poller] \in {"tag", "err"},
           phase = "none" \/ pc[Owner] = "publish", pc[Owner] # "free"
    PROVE  arg[Poller].n # fdseq
<1>1. kernel.reg = 0
  BY DEF ControlInv, LifeInv, NoFile
<1>2. fdseq \in Nat /\ arg[Poller].n \in Nat
  BY EventModes, Roles DEF ControlInv, ShapeInv
<1> QED BY <1>1, <1>2 DEF ErrInv, TagInv

\* The owner opens the descriptor, registers it, or gives it back: nobody does I/O.
LEMMA OwnerEvents ==
    ASSUME ControlInv, ErrInv, Open \/ Register \/ pollClose \/ FreeSeq \/ FreePublish
    PROVE  ReadinessInv' /\ ErrInv'
<1>1. PICK l : Goto(Owner, l)
  BY DEF Open, Register, pollClose, FreeSeq, FreePublish
<1>2. /\ \A m \in Blocker : pc'[m] = pc[m]
      /\ pc'[Owner] = l /\ pc'[Poller] = pc[Poller] /\ arg' = arg
  <2>1. arg' = arg
    BY DEF Open, Register, pollClose, FreeSeq, FreePublish, local
  <2> QED BY <1>1, <2>1, OneMoves, Roles
<1>3. \A m \in Blocker : pc[m] = "idle"
  BY DEF Open, Register, pollClose, FreeSeq, FreePublish, ControlInv, LifeInv
<1>4. ReadinessInv'
  BY <1>2, <1>3 DEF ReadinessInv
<1>5. \A k : Goto(Owner, k) => l = k
  BY <1>1, Roles DEF Goto, ControlInv, ShapeInv
<1>6. fdseq \in Nat /\ arg[Poller].n \in Nat
  BY EventModes, Roles DEF ControlInv, ShapeInv
<1>7. ErrInv'
  <2>1. CASE Open
    <3>1. phase = "none" /\ pc[Owner] = "idle" /\ l = "register" /\ UNCHANGED <<phase, kernel>>
      BY <1>5, <2>1 DEF Open
    <3>2. fdseq' = IF fdseq = 0 THEN 1 ELSE fdseq
      BY <2>1 DEF Open
    <3>3. info'.err = FALSE
      <4>1. info \in [closing : BOOLEAN, expired : SUBSET Mode, err : BOOLEAN, seq : 0..(MaxOpen + 1)]
        BY DEF ControlInv, ShapeInv
      <4>2. \E s, d : info' = [Published(FALSE, d, s) EXCEPT !.err = FALSE]
        BY <2>1 DEF Open
      <4> QED BY <4>1, <4>2 DEF Published
    <3>4. TagInv'
      <4>1. pc[Poller] \in {"tag", "err"} =>
                /\ arg[Poller].modes # {} /\ arg[Poller].n >= 1 /\ arg[Poller].n <= fdseq
                /\ arg[Poller].n # fdseq
        BY <3>1, OldTag DEF ErrInv, TagInv
      <4> QED BY <1>2, <1>6, <3>2, <4>1 DEF TagInv
    <3> QED BY <1>2, <3>1, <3>3, <3>4 DEF ErrInv, EventErrFresh
  <2>2. CASE Register
    <3>1. pc[Owner] = "register" /\ phase = "none" /\ UNCHANGED <<fdseq, info>> /\ l \in {"idle", "free"}
      BY <1>5, <2>2 DEF Register, ControlInv, LifeInv
    <3>2. ~info.err
      BY <3>1 DEF ErrInv
    <3>3. TagInv'
      <4>1. pc[Poller] \in {"tag", "err"} =>
                /\ arg[Poller].modes # {} /\ arg[Poller].n >= 1 /\ arg[Poller].n <= fdseq
                /\ arg[Poller].n # fdseq
        BY <3>1, OldTag DEF ErrInv, TagInv
      <4> QED BY <1>2, <3>1, <4>1 DEF TagInv
    <3> QED BY <1>2, <3>1, <3>2, <3>3 DEF ErrInv, EventErrFresh
  <2>3. CASE pollClose
    <3>1. pc[Owner] = "decref" /\ phase = "closed" /\ UNCHANGED <<fdseq, info, phase>> /\ l = "free"
          /\ kernel'.reg = 0
      BY <1>5, <2>3 DEF pollClose, ControlInv, LifeInv, NoFile
    <3>2. TagInv'
      BY <1>2, <1>6, <3>1 DEF ErrInv, TagInv
    <3> QED BY <1>2, <3>1, <3>2 DEF ErrInv, EventErrFresh
  <2>4. CASE FreeSeq
    <3>1. pc[Owner] = "free" /\ phase # "open" /\ fdseq' = fdseq + 1 /\ UNCHANGED <<info, phase>>
          /\ l = "publish"
      BY <1>5, <2>4 DEF FreeSeq, ControlInv, LifeInv
    <3>2. TagInv'
      BY <1>2, <1>6, <3>1 DEF ErrInv, TagInv
    <3> QED BY <1>2, <3>1, <3>2 DEF ErrInv, EventErrFresh
  <2>5. CASE FreePublish
    <3>1. pc[Owner] = "publish" /\ phase' = "none" /\ UNCHANGED <<fdseq, kernel>> /\ l = "idle"
      BY <1>5, <2>5 DEF FreePublish
    <3>2. TagInv'
      BY <1>2, <3>1 DEF ErrInv, TagInv
    <3> QED BY <1>2, <3>1, <3>2 DEF ErrInv, EventErrFresh
  <2> QED BY <2>1, <2>2, <2>3, <2>4, <2>5
<1> QED BY <1>4, <1>7

\* What is ready is in the edge.
LEMMA KernelEvents ==
    ASSUME ControlInv, ReadinessInv, ErrInv, Fail \/ \E m \in Blocker : Arrive(m)
    PROVE  ReadinessInv' /\ ErrInv'
<1>1. UNCHANGED <<phase, fdseq, info, sem, pc, todo, arg>>
  BY DEF Fail, Arrive, local
<1>2. /\ kernel'.reg = kernel.reg /\ (kernel.err => kernel'.err)
      /\ kernel.edge \subseteq kernel'.edge /\ kernel'.avail \subseteq kernel.avail \cup kernel'.edge
  <2>1. kernel \in [reg : 0..(MaxOpen + 1), avail : SUBSET Mode, edge : SUBSET Mode, err : BOOLEAN]
    BY DEF ControlInv, ShapeInv
  <2>2. CASE Fail
    <3>1. kernel' = [kernel EXCEPT !.err = TRUE, !.edge = Mode]
      BY <2>2 DEF Fail
    <3> QED BY <2>1, <3>1
  <2>3. ASSUME NEW m \in Blocker, Arrive(m)
        PROVE  /\ kernel'.reg = kernel.reg /\ (kernel.err => kernel'.err)
               /\ kernel.edge \subseteq kernel'.edge /\ kernel'.avail \subseteq kernel.avail \cup kernel'.edge
    <3>1. kernel' = [kernel EXCEPT !.avail = kernel.avail \cup {m}, !.edge = kernel.edge \cup {m}]
      BY <2>3 DEF Arrive
    <3> QED BY <2>1, <3>1
  <2> QED BY <2>2, <2>3
<1>3. \A k \in Blocker : Coming(k) \/ k \in kernel'.edge => Coming(k)'
  BY <1>1, <1>2 DEF Coming
<1>4. ReadinessInv'
  BY <1>1, <1>2, <1>3 DEF ReadinessInv
<1>5. ErrInv'
  BY <1>1, <1>2 DEF ErrInv, TagInv, EventErrFresh
<1> QED BY <1>4, <1>5

\* The poller takes the edge over, with the tag of the file.
LEMMA PollEvents ==
    ASSUME ControlInv, ReadinessInv, ErrInv, Poll
    PROVE  ReadinessInv' /\ ErrInv'
<1>1. kernel \in [reg : 0..(MaxOpen + 1), avail : SUBSET Mode, edge : SUBSET Mode, err : BOOLEAN]
  BY DEF ControlInv, ShapeInv
<1>2. /\ pc[Poller] = "idle" /\ kernel.edge # {} /\ Goto(Poller, "tag")
      /\ UNCHANGED <<phase, fdseq, info, sem, todo>>
      /\ kernel' = [kernel EXCEPT !.edge = {}]
      /\ arg' = [arg EXCEPT ![Poller] =
                    [modes |-> IF kernel.err THEN Mode ELSE kernel.edge, n |-> kernel.reg,
                     err |-> kernel.err /\ kernel.avail = {}]]
  BY DEF Poll
<1>3. kernel'.reg = kernel.reg /\ kernel'.err = kernel.err /\ kernel'.avail = kernel.avail
  BY <1>1, <1>2
<1>4. /\ arg'[Poller].modes = (IF kernel.err THEN Mode ELSE kernel.edge)
      /\ arg'[Poller].n = kernel.reg
      /\ arg'[Poller].err => kernel.err
  BY <1>2, Roles DEF ControlInv, ShapeInv
<1>5. /\ \A m \in Blocker : pc'[m] = pc[m]
      /\ pc'[Poller] = "tag" /\ pc'[Owner] = pc[Owner]
  BY <1>2, OneMoves, Roles
<1>6. kernel.reg = fdseq /\ fdseq >= 1 /\ fdseq \in Nat
  <2>1. kernel # NoFile
    <3>1. NoFile.edge = {}
      BY DEF NoFile
    <3> QED BY <1>2, <3>1
  <2>2. phase # "none" /\ pc[Owner] \notin {"free", "publish"}
    BY <2>1 DEF ControlInv, LifeInv
  <2> QED BY <2>2, Roles DEF ControlInv, LifeInv
<1>7. \A m \in Blocker : Coming(m) => Coming(m)'
  <2>1. todo[Poller] = {}
    BY <1>2, Roles DEF ControlInv, TodoInv
  <2>2. \A m \in Blocker : Coming(m) => m \in kernel.edge
    BY <1>2, <2>1 DEF Coming
  <2>3. \A m \in Blocker : m \in kernel.edge => m \in arg'[Poller].modes
    BY <1>4, Roles
  <2> QED BY <1>2, <1>4, <1>5, <1>6, <2>2, <2>3 DEF Coming
<1>8. ReadinessInv'
  BY <1>2, <1>3, <1>5, <1>7 DEF ReadinessInv
<1>9. ErrInv'
  <2>1. arg'[Poller].modes # {}
    BY <1>2, <1>4 DEF Mode
  <2>2. TagInv'
    BY <1>2, <1>3, <1>4, <1>5, <1>6, <2>1 DEF TagInv
  <2> QED BY <1>2, <1>3, <1>5, <2>2 DEF ErrInv, EventErrFresh
<1> QED BY <1>8, <1>9

\* It drops the event if its tag is not that of the descriptor.
LEMMA TagEvents ==
    ASSUME ControlInv, ReadinessInv, ErrInv, PollTag
    PROVE  ReadinessInv' /\ ErrInv'
<1>1. pc[Poller] = "tag" /\ UNCHANGED <<phase, fdseq, info, sem, kernel, todo>>
  BY DEF PollTag
<1>2. \/ fdseq = arg[Poller].n /\ Goto(Poller, "err") /\ arg' = arg
      \/ fdseq # arg[Poller].n /\ Goto(Poller, "idle")
  BY DEF PollTag
<1>3. \A m \in Blocker : pc'[m] = pc[m]
  BY <1>2, OneMoves, Roles
<1>4. /\ pc'[Owner] = pc[Owner]
      /\ \/ pc'[Poller] = "err" /\ arg' = arg
         \/ pc'[Poller] = "idle" /\ fdseq # arg[Poller].n
  BY <1>2, OneMoves, Roles
<1>5. \A m \in Blocker : Coming(m) => Coming(m)'
  BY <1>1, <1>4 DEF Coming
<1>6. ReadinessInv'
  BY <1>1, <1>3, <1>5 DEF ReadinessInv
<1>7. ErrInv'
  BY <1>1, <1>4 DEF ErrInv, TagInv, EventErrFresh
<1> QED BY <1>6, <1>7

\* The error bit is set only for the file that the event is about.
LEMMA SetErrEvents ==
    ASSUME ControlInv, ReadinessInv, ErrInv, setEventErr
    PROVE  ReadinessInv' /\ ErrInv'
<1>1. /\ pc[Poller] = "err" /\ Goto(Poller, "unblock") /\ UNCHANGED <<phase, fdseq, sem, kernel, arg>>
      /\ todo' = [todo EXCEPT ![Poller] = arg[Poller].modes]
      /\ info' = info \/ (info.seq = arg[Poller].n /\ info' = [info EXCEPT !.err = arg[Poller].err])
  BY DEF setEventErr, Matches
<1>2. /\ \A m \in Blocker : pc'[m] = pc[m]
      /\ pc'[Poller] = "unblock" /\ pc'[Owner] = pc[Owner]
  BY <1>1, OneMoves, Roles
<1>3. todo'[Poller] = arg[Poller].modes /\ todo[Poller] = {}
  BY <1>1, Roles DEF ControlInv, ShapeInv, TodoInv
<1>4. \A m \in Blocker : Coming(m) => Coming(m)'
  BY <1>1, <1>3 DEF Coming
<1>5. ReadinessInv'
  BY <1>1, <1>2, <1>4 DEF ReadinessInv
<1>6. ErrInv'
  <2>1. CASE info' = info
    BY <1>1, <1>2, <2>1 DEF ErrInv, TagInv, EventErrFresh
  <2>2. CASE info.seq = arg[Poller].n /\ info' = [info EXCEPT !.err = arg[Poller].err]
    <3>1. info'.err = arg[Poller].err
      BY <2>2 DEF ControlInv, ShapeInv
    <3>2. pc[Owner] # "register"
      <4>1. CASE pc[Owner] = "register"
        <5>1. phase = "none" /\ info.seq = fdseq
          BY <4>1 DEF ControlInv, LifeInv, InfoInv
        <5>2. arg[Poller].n # fdseq
          BY <1>1, <4>1, <5>1, OldTag
        <5> QED BY <2>2, <5>1, <5>2
      <4> QED BY <4>1
    <3>3. phase = "open" /\ arg[Poller].err => kernel.err
      <4>1. ASSUME phase = "open", arg[Poller].err PROVE kernel.err
        <5>1. pc[Owner] = "idle"
          BY <4>1 DEF ControlInv, LifeInv
        <5>2. info.seq = fdseq /\ kernel.reg = fdseq
          BY <4>1, <5>1 DEF ControlInv, LifeInv, InfoInv
        <5> QED BY <1>1, <2>2, <4>1, <5>2 DEF ErrInv, TagInv
      <4> QED BY <4>1
    <3> QED BY <1>1, <1>2, <3>1, <3>2, <3>3 DEF ErrInv, TagInv, EventErrFresh
  <2> QED BY <1>1, <2>1, <2>2
<1> QED BY <1>5, <1>6

-----------------------------------------------------------------------------
(* Timers *)

\* A live timer is armed, or its callback is running and not stale.
LEMMA LiveIs ==
    ASSUME NEW m, NEW k
    PROVE  Live(m, k) <=> \/ Armed(m) /\ k \in timer[m].modes
                          \/ \E p \in Callback : Running(p, m) /\ k \in arg[p].modes
  BY DEF Live, Armed, Running

\* The same after a step.
LEMMA LiveIsNext ==
    ASSUME NEW m, NEW k
    PROVE  Live(m, k)' <=> \/ Armed(m)' /\ k \in timer'[m].modes
                           \/ \E p \in Callback : Running(p, m)' /\ k \in arg'[p].modes
  BY DEF Live, Armed, Running

\* What a callback may do while the timers, their seqs and the deadlines stay.
CallbackStay(q) ==
    \/ pc'[q] = pc[q] /\ arg'[q] = arg[q] /\ todo'[q] = todo[q]
    \/ pc[q] \notin {"lock", "unblock", "write"} /\ pc'[q] \notin {"lock", "unblock", "write"}
    \/ pc[q] = "unblock" /\ ~Halfway(q) /\ pc'[q] = "unlock"
    \/ pc[q] = "unblock" /\ Halfway(q) /\ pc'[q] = "write"
    \/ pc[q] = "lock" /\ IsStale(q) /\ pc'[q] = "idle"

\* Then the timers stay as they should be.
LEMMA TimerQuiet ==
    ASSUME TimerInv, UNCHANGED <<timer, seq, run, dl, closing>>, \A q \in Callback : CallbackStay(q),
           pc'[Owner] = pc[Owner] \/ pc'[Owner] \notin {"unblock", "unlock"} \/ pc[Owner] = "unblock"
    PROVE  TimerInv'
<1>1. \A q \in Callback : Halfway(q)' <=> Halfway(q)
  BY DEF CallbackStay, Halfway
<1>2. \A q \in Callback, m \in Mode : /\ Running(q, m)' <=> Running(q, m)
                                      /\ Running(q, m) => arg'[q] = arg[q]
  BY DEF CallbackStay, Running, IsStale, First
<1>3. \A m \in Mode : Armed(m)' <=> Armed(m)
  BY DEF Armed
<1>4. TimerShape'
  BY DEF TimerInv, TimerShape, CallbackStay, First
<1>5. \A m, ms : Good(m, ms)' <=> Good(m, ms)
  BY DEF Good, Combo
<1>6. ValidInv'
  BY <1>2, <1>3, <1>5 DEF TimerInv, ValidInv
<1>7. HalfwayInv'
  <2>1. "w" \in Mode
    BY DEF Mode
  <2> QED BY <1>1, <1>2, <1>3, <2>1 DEF TimerInv, HalfwayInv
<1>8. \A m \in Mode, k \in Mode : Live(m, k) => Live(m, k)'
  BY <1>2, <1>3, LiveIs, LiveIsNext
<1>9. DeadlineInv'
  BY <1>1, <1>8 DEF TimerInv, DeadlineInv
<1>10. EvictInv'
  BY DEF TimerInv, EvictInv
<1> QED BY <1>4, <1>6, <1>7, <1>9, <1>10 DEF TimerInv

\* I/O and the kernel.
LEMMA IoTimer ==
    ASSUME ControlInv, TimerInv,
           \/ \E m \in Blocker : Start(m) \/ IoStep(m)
           \/ Fail \/ \E m \in Blocker : Arrive(m)
    PROVE  TimerInv'
<1>1. UNCHANGED <<timer, seq, run, dl, closing, arg, todo>>
  BY DEF Start, IoStep, Reset, ResetStore, Io, Check, Block, Recheck, Commit, SwapNil, Failed, IoVars,
         Fail, Arrive, local, desc
<1>2. pc' = pc \/ \E m \in Blocker : \E l : Goto(m, l)
  BY DEF Start, IoStep, Reset, ResetStore, Io, Check, Block, Recheck, Commit, SwapNil, Failed, Fail, Arrive
<1>3. \A q \in Unblocker : pc'[q] = pc[q]
  BY <1>2, Roles DEF Goto, ControlInv, ShapeInv
<1>4. \A q \in Callback : CallbackStay(q)
  BY <1>1, <1>3, Roles DEF CallbackStay
<1> QED BY <1>1, <1>3, <1>4, Roles, TimerQuiet

\* The setter, the owner and the poller where they leave the timers alone.
LEMMA OtherTimer ==
    ASSUME ControlInv, TimerInv,
           \/ SetDeadline \/ SetClosing \/ Register \/ Close \/ pollClose \/ FreeSeq \/ FreePublish
           \/ Poll \/ PollTag \/ setEventErr
    PROVE  TimerInv'
<1>1. UNCHANGED <<timer, seq, run, dl, closing>>
  BY DEF SetDeadline, SetClosing, Register, Close, pollClose, FreeSeq, FreePublish, Poll, PollTag,
         setEventErr, desc
<1>2. \/ \E l \in UnblockerPC : Goto(Setter, l)
      \/ \E l \in UnblockerPC : Goto(Poller, l)
      \/ \E l \in UnblockerPC : Goto(Owner, l) /\ l \notin {"unblock", "unlock"}
  BY DEF SetDeadline, SetClosing, Register, Close, pollClose, FreeSeq, FreePublish, Poll, PollTag,
         setEventErr, UnblockerPC
<1>3. \A q \in Callback : pc'[q] = pc[q]
  BY <1>2, OneMoves, Roles
<1>4. pc'[Owner] = pc[Owner] \/ pc'[Owner] \notin {"unblock", "unlock"}
  BY <1>2, OneMoves, Roles
<1>5. /\ todo' = todo \/ \E t : todo' = [todo EXCEPT ![Poller] = t]
      /\ arg' = arg \/ \E a : arg' = [arg EXCEPT ![Poller] = a]
  BY DEF SetDeadline, SetClosing, Register, Close, pollClose, FreeSeq, FreePublish, Poll, PollTag,
         setEventErr, local
<1>6. \A q \in Callback : todo'[q] = todo[q] /\ arg'[q] = arg[q]
  BY <1>5, Roles DEF ControlInv, ShapeInv
<1>7. \A q \in Callback : CallbackStay(q)
  BY <1>3, <1>6 DEF CallbackStay
<1> QED BY <1>1, <1>4, <1>7, TimerQuiet

\* A callback goes from its first mode to its second, or to the end.
LEMMA UnblockTimer ==
    ASSUME ControlInv, TimerInv, NEW p \in Unblocker, NEW m \in Mode, NEW CONSTANT l,
           UnblockStep(p, m, l)
    PROVE  TimerInv'
<1>1. /\ UNCHANGED <<timer, seq, run, dl, closing>> /\ Goto(p, l) /\ pc[p] = "unblock" /\ m \in todo[p]
      /\ arg' = arg \/ arg' = [arg EXCEPT ![p] = NoArg]
      /\ todo' = [todo EXCEPT ![p] = todo[p] \ {m}]
  BY DEF UnblockStep
<1>2. \A q \in Unblocker : q # p => pc'[q] = pc[q] /\ arg'[q] = arg[q] /\ todo'[q] = todo[q]
  BY <1>1, OneMoves DEF ControlInv, ShapeInv
<1>3. pc'[p] = l
  BY <1>1, OneMoves
<1>4. p \in Callback => CallbackStay(p)
  <2>1. ASSUME p \in Callback PROVE CallbackStay(p)
    <3>1. todo[p] = {m}
      BY <1>1, <2>1 DEF TimerInv, TimerShape
    <3>2. \/ l = "write" /\ m = "r" /\ "w" \in arg[p].modes
          \/ l = "unlock" /\ ~(m = "r" /\ "w" \in arg[p].modes)
      BY <2>1, <3>1, Roles DEF UnblockStep
    <3>3. Halfway(p) <=> m = "r" /\ "w" \in arg[p].modes
      BY <1>1, <3>1 DEF Halfway
    <3> QED BY <1>1, <1>3, <3>2, <3>3 DEF CallbackStay
  <2> QED BY <2>1
<1>5. \A q \in Callback : CallbackStay(q)
  BY <1>2, <1>4, Roles DEF CallbackStay
<1>6. pc'[Owner] = pc[Owner] \/ pc[Owner] = "unblock"
  BY <1>1, <1>2, Roles
<1> QED BY <1>1, <1>5, <1>6, TimerQuiet

\* pd.lock is released; a close stops the timers, which are all stale by then.
LEMMA UnlockTimer ==
    ASSUME ControlInv, TimerInv, NEW p \in Unblocker, Unlock(p)
    PROVE  TimerInv'
<1>1. PICK l : l = IF woken[p] = {} THEN Done(p) ELSE "ready"
  OBVIOUS
<1>2. pc[p] = "unlock" /\ Goto(p, l) /\ UNCHANGED <<seq, closing, dl, arg, todo>>
  BY <1>1 DEF Unlock, local
<1>3. /\ \A x \in Unblocker : pc'[x] = IF x = p THEN l ELSE pc[x]
      /\ l \in {"idle", "decref", "ready"}
  BY <1>1, <1>2, OneMoves DEF Done
<1>4. \A q \in Callback : CallbackStay(q)
  BY <1>2, <1>3, Roles DEF CallbackStay
<1>5. CASE p # Owner
  <2>1. UNCHANGED <<timer, run>>
    BY <1>5 DEF Unlock
  <2>2. pc'[Owner] = pc[Owner]
    BY <1>3, <1>5, Roles
  <2> QED BY <1>2, <1>4, <2>1, <2>2, TimerQuiet
<1>6. CASE p = Owner
  <2>1. closing /\ closing'
    BY <1>2, <1>6 DEF TimerInv, EvictInv
  <2>2. timer' = [m \in Mode |-> Unarmed]
    BY <1>6 DEF Unlock
  <2>3. \A m \in Mode : ~Armed(m)' /\ timer'[m].modes = {}
    BY <2>2 DEF Armed, Unarmed
  <2>4. \A q \in Callback : pc'[q] = pc[q]
    BY <1>3, <1>6, Roles
  <2>5. \A q \in Callback, m \in Mode : ~Running(q, m)'
    <3>1. \A q \in Callback, m \in Mode : ~Running(q, m)
      BY <2>1 DEF TimerInv, ValidInv
    <3> QED BY <1>2, <2>4, <3>1 DEF Running, First
  <2>6. TimerShape'
    BY <1>2, <2>3, <2>4 DEF TimerInv, TimerShape, First
  <2>7. ValidInv'
    BY <2>3, <2>5 DEF ValidInv
  <2>8. HalfwayInv'
    <3>1. "w" \in Mode
      BY DEF Mode
    <3>2. \A q \in Callback : Halfway(q)' <=> Halfway(q)
      BY <1>2, <2>4 DEF Halfway
    <3> QED BY <1>2, <2>3, <2>5, <3>1, <3>2 DEF TimerInv, HalfwayInv
  <2>9. DeadlineInv' /\ EvictInv'
    BY <2>1 DEF DeadlineInv, EvictInv
  <2> QED BY <2>6, <2>7, <2>8, <2>9 DEF TimerInv
<1> QED BY <1>5, <1>6

\* Readying the goroutines.
LEMMA ReadyTimer ==
    ASSUME ControlInv, WakeInv, TimerInv, NEW p \in Unblocker, NEW CONSTANT S, NEW CONSTANT l,
           ReadyStep(p, S, l)
    PROVE  TimerInv'
<1>1. pc[p] = "ready" /\ UNCHANGED <<timer, seq, run, dl, closing, arg, todo>>
  BY DEF ReadyStep
<1>2. \A x \in Unblocker : pc'[x] = pc[x] \/ (pc[x] = "ready" /\ pc'[x] \in {"idle", "decref"})
  BY <1>1, ReadyMoves
<1>3. \A q \in Callback : CallbackStay(q)
  BY <1>1, <1>2, Roles DEF CallbackStay
<1>4. pc'[Owner] = pc[Owner] \/ pc'[Owner] \notin {"unblock", "unlock"}
  BY <1>2, Roles
<1> QED BY <1>1, <1>3, <1>4, TimerQuiet

\* A stale callback does nothing.
LEMMA StaleTimer ==
    ASSUME ControlInv, TimerInv, NEW p \in Callback, DeadlineStale(p)
    PROVE  TimerInv'
<1>1. /\ pc[p] = "lock" /\ IsStale(p) /\ Goto(p, "idle") /\ todo' = todo
      /\ UNCHANGED <<timer, seq, run, dl, closing>> /\ arg' = [arg EXCEPT ![p] = NoArg]
  BY DEF DeadlineStale, desc
<1>2. \A x \in Unblocker : pc'[x] = IF x = p THEN "idle" ELSE pc[x]
  BY <1>1, Roles, OneMoves
<1>3. \A q \in Callback : q # p => arg'[q] = arg[q]
  BY <1>1, Roles DEF ControlInv, ShapeInv
<1>4. \A q \in Callback : CallbackStay(q)
  BY <1>1, <1>2, <1>3, Roles DEF CallbackStay
<1> QED BY <1>1, <1>2, <1>4, Roles, TimerQuiet

\* While pd.lock is free no callback is between its modes.
LEMMA NoneHalfway ==
    ASSUME ControlInv, lock = Nil, NEW p \in Callback
    PROVE  ~Halfway(p) /\ pc[p] \notin {"unblock", "write"}
  BY Roles DEF ControlInv, LockInv, Halfway

\* A new seq makes what there is stale.
LEMMA SeqTimer ==
    ASSUME ControlInv, TimerInv, lock = Nil, UNCHANGED timer,
           seq' = [m \in Mode |-> seq[m] + 1],
           \A q \in Callback : pc'[q] = pc[q] /\ arg'[q] = arg[q],
           closing' \/ (\A k \in Mode : dl'[k] \notin Time),
           pc'[Owner] \in {"unblock", "unlock"} => closing'
    PROVE  TimerInv'
<1>1. \A m \in Mode : seq[m] \in Nat /\ seq'[m] = seq[m] + 1 /\ timer[m].n \in Nat
  BY DEF ControlInv, ShapeInv, Timer
<1>2. \A q \in Callback : arg[q].n \in Nat /\ First(q) \in Mode /\ First(q)' = First(q)
  BY EventModes DEF ControlInv, First, Mode
<1>3. TimerShape'
  <2>1. \A m \in Mode : timer'[m].modes # {} =>
            /\ timer'[m].modes = {m} \/ (m = "r" /\ timer'[m].modes = Mode)
            /\ timer'[m].n <= seq'[m]
    BY <1>1 DEF TimerInv, TimerShape
  <2>2. \A q \in Callback : pc'[q] = "lock" => arg'[q].n <= seq'[First(q)]
    BY <1>1, <1>2 DEF TimerInv, TimerShape
  <2>3. \A q \in Callback : pc'[q] # "unblock"
    BY NoneHalfway
  <2> QED BY <1>2, <2>1, <2>2, <2>3 DEF TimerShape
<1>4. \A m \in Mode : ~Armed(m)'
  BY <1>1 DEF TimerInv, TimerShape, Armed
<1>5. \A q \in Callback, m \in Mode : ~Running(q, m)'
  BY <1>1, <1>2 DEF TimerInv, TimerShape, Running
<1>6. ValidInv'
  BY <1>4, <1>5 DEF ValidInv
<1>7. HalfwayInv'
  BY NoneHalfway DEF HalfwayInv, Halfway
<1>8. DeadlineInv' /\ EvictInv'
  BY DEF DeadlineInv, EvictInv
<1> QED BY <1>3, <1>6, <1>7, <1>8 DEF TimerInv

\* Opening and closing change the seqs.
LEMMA OwnerTimer ==
    ASSUME ControlInv, TimerInv, Open \/ pollUnblock
    PROVE  TimerInv'
<1>1. /\ lock = Nil /\ UNCHANGED <<timer, arg>>
      /\ seq' = [m \in Mode |-> seq[m] + 1]
      /\ Goto(Owner, "register") \/ (Goto(Owner, "unblock") /\ closing')
  BY DEF Open, pollUnblock, Invalidated, local
<1>2. closing' \/ \A k \in Mode : dl'[k] \notin Time
  BY NetpollAssumption DEF Open, pollUnblock
<1>3. \A q \in Callback : pc'[q] = pc[q] /\ arg'[q] = arg[q]
  BY <1>1, OneMoves, Roles
<1>4. pc'[Owner] \in {"unblock", "unlock"} => closing'
  BY <1>1, OneMoves, Roles
<1> QED BY <1>1, <1>2, <1>3, <1>4, SeqTimer

\* A timer that fires becomes a callback with the same seq.
LEMMA FireTimer ==
    ASSUME ControlInv, TimerInv, NEW p \in Callback, NEW m \in Mode, Fire(p, m)
    PROVE  TimerInv'
<1>1. /\ pc[p] = "idle" /\ timer[m].modes # {} /\ Goto(p, "lock")
      /\ arg' = [arg EXCEPT ![p] = [modes |-> timer[m].modes, n |-> timer[m].n, err |-> FALSE]]
      /\ timer' = [timer EXCEPT ![m] = Unarmed]
      /\ UNCHANGED <<closing, dl, run, seq, todo>>
  BY DEF Fire
<1>2. \A x \in Unblocker : pc'[x] = IF x = p THEN "lock" ELSE pc[x]
  BY <1>1, OneMoves, Roles
<1>3. /\ arg'[p].modes = timer[m].modes /\ arg'[p].n = timer[m].n
      /\ \A q \in Callback : q # p => arg'[q] = arg[q]
  BY <1>1, Roles DEF ControlInv, ShapeInv
<1>4. /\ timer'[m] = Unarmed /\ Unarmed.modes = {} /\ \A k \in Mode : k # m => timer'[k] = timer[k]
  BY <1>1 DEF ControlInv, ShapeInv, Unarmed
<1>5. First(p)' = m
  BY <1>1, <1>3 DEF TimerInv, TimerShape, First, Mode
<1>6. \A q \in Callback : q # p => First(q)' = First(q) /\ pc'[q] = pc[q]
  BY <1>2, <1>3, Roles DEF First
<1>7. \A k \in Mode : Armed(k)' <=> k # m /\ Armed(k)
  BY <1>1, <1>4 DEF Armed
<1>8. \A q \in Callback, k \in Mode : q # p => (Running(q, k)' <=> Running(q, k))
  BY <1>1, <1>3, <1>6 DEF Running
<1>9. \A k \in Mode : ~Running(p, k) /\ (Running(p, k)' <=> k = m /\ Armed(m))
  BY <1>1, <1>2, <1>3, <1>5, Roles DEF Running, Armed
<1>10. \A q \in Callback : Halfway(q)' <=> Halfway(q)
  BY <1>1, <1>2, <1>3, Roles DEF Halfway
<1>12. TimerShape'
  <2>1. \A k \in Mode : timer'[k].modes # {} =>
            /\ timer'[k].modes = {k} \/ (k = "r" /\ timer'[k].modes = Mode)
            /\ timer'[k].n <= seq'[k]
    BY <1>1, <1>4 DEF TimerInv, TimerShape
  <2>2. \A q \in Callback : /\ pc'[q] = "lock" => arg'[q].n <= seq'[First(q)']
                            /\ pc'[q] = "unblock" => todo'[q] \in {{"r"}, {"w"}}
    <3>1. arg'[p].n <= seq'[First(p)'] /\ pc'[p] = "lock"
      BY <1>1, <1>2, <1>3, <1>5, Roles DEF TimerInv, TimerShape
    <3> QED BY <1>1, <1>3, <1>6, <3>1 DEF TimerInv, TimerShape
  <2> QED BY <2>1, <2>2 DEF TimerShape
<1>13. ValidInv'
  <2>1. \A k \in Mode : Armed(k)' => Good(k, timer[k].modes)' /\ ~closing'
    BY <1>1, <1>4, <1>7 DEF TimerInv, ValidInv, Good, Combo
  <2>2. \A k \in Mode, q \in Callback : Running(q, k)' => Good(k, arg[q].modes)' /\ ~closing' /\ ~Armed(k)'
    <3>1. ASSUME NEW k \in Mode, NEW q \in Callback, Running(q, k)'
          PROVE  Good(k, arg[q].modes)' /\ ~closing' /\ ~Armed(k)'
      <4>1. CASE q # p
        <5>1. Good(k, arg[q].modes) /\ ~closing /\ ~Armed(k)
          BY <1>8, <3>1, <4>1 DEF TimerInv, ValidInv
        <5> QED BY <1>1, <1>3, <1>7, <4>1, <5>1 DEF Good, Combo
      <4>2. CASE q = p
        <5>1. k = m /\ Good(m, timer[m].modes) /\ ~closing
          BY <1>9, <3>1, <4>2 DEF TimerInv, ValidInv
        <5> QED BY <1>1, <1>3, <1>7, <4>2, <5>1 DEF Good, Combo
      <4> QED BY <4>1, <4>2
    <3> QED BY <3>1
  <2>3. \A k \in Mode, q, o \in Callback : Running(q, k)' /\ Running(o, k)' => q = o
    BY <1>8, <1>9 DEF TimerInv, ValidInv
  <2> QED BY <2>1, <2>2, <2>3 DEF ValidInv
<1>14. HalfwayInv'
  <2>1. "w" \in Mode
    BY DEF Mode
  <2> QED BY <1>1, <1>7, <1>8, <1>9, <1>10, <2>1 DEF TimerInv, HalfwayInv
<1>15. DeadlineInv'
  <2>1. ASSUME NEW k \in Mode, NEW o \in Mode, Live(o, k) PROVE Live(o, k)'
    <3>1. CASE Armed(o) /\ k \in timer[o].modes
      <4>1. CASE o = m
        <5>1. Running(p, m)' /\ k \in arg'[p].modes
          BY <1>3, <1>9, <3>1, <4>1
        <5> QED BY <4>1, <5>1, LiveIsNext
      <4>2. CASE o # m
        <5>1. Armed(o)' /\ k \in timer'[o].modes
          BY <1>4, <1>7, <3>1, <4>2
        <5> QED BY <5>1, LiveIsNext
      <4> QED BY <4>1, <4>2
    <3>2. ASSUME NEW q \in Callback, Running(q, o), k \in arg[q].modes PROVE Live(o, k)'
      <4>1. q # p
        BY <1>9, <3>2
      <4>2. Running(q, o)' /\ k \in arg'[q].modes
        BY <1>3, <1>8, <3>2, <4>1
      <4> QED BY <4>2, LiveIsNext
    <3> QED BY <2>1, <3>1, <3>2, LiveIs
  <2> QED BY <1>1, <1>10, <2>1 DEF TimerInv, DeadlineInv
<1>16. EvictInv'
  BY <1>1, <1>2, Roles DEF TimerInv, EvictInv
<1> QED BY <1>12, <1>13, <1>14, <1>15, <1>16 DEF TimerInv

\* The callback of a timer that is not stale expires its deadline, or the first of two.
LEMMA ExpireTimer ==
    ASSUME ControlInv, TimerInv, NEW p \in Callback, NEW CONSTANT m \in Mode, ExpireStep(p, m)
    PROVE  TimerInv'
<1>1. /\ dl' = [dl EXCEPT ![m] = "expired"] /\ todo' = [todo EXCEPT ![p] = {m}] /\ Goto(p, "unblock")
      /\ UNCHANGED <<closing, run, seq, timer, arg>>
      /\ \/ pc[p] = "lock" /\ lock = Nil /\ ~IsStale(p) /\ m = First(p)
         \/ pc[p] = "write" /\ m = "w"
  BY DEF ExpireStep
<1>2. \A x \in Unblocker : /\ pc'[x] = IF x = p THEN "unblock" ELSE pc[x]
                           /\ todo'[x] = IF x = p THEN {m} ELSE todo[x]
  BY <1>1, OneMoves, Roles DEF ControlInv, ShapeInv
<1>3. dl'[m] = "expired" /\ "expired" \notin Time /\ \A k \in Mode : k # m => dl'[k] = dl[k]
  BY <1>1, NetpollAssumption DEF ControlInv, ShapeInv
<1>4. \A q \in Callback : First(q)' = First(q)
  BY <1>1 DEF First
<1>5. \A k \in Mode : Armed(k)' <=> Armed(k)
  BY <1>1 DEF Armed
<1>6. \A q \in Callback, k \in Mode : Running(q, k)' <=> q # p /\ Running(q, k)
  BY <1>1, <1>2, <1>4, Roles DEF Running
<1>7. ~Combo(dl') /\ "r" \in Mode /\ "w" \in Mode
  BY <1>3 DEF Combo, Mode
<1>8. TimerShape'
  <2>1. {m} \in {{"r"}, {"w"}}
    BY DEF Mode
  <2> QED BY <1>1, <1>2, <1>4, <2>1, Roles DEF TimerInv, TimerShape
<1>9. EvictInv'
  BY <1>1, <1>2, Roles DEF TimerInv, EvictInv
<1>10. \A q \in Callback : q # p => (Halfway(q)' <=> Halfway(q))
  BY <1>1, <1>2, Roles DEF Halfway
<1>11. CASE pc[p] = "lock" /\ lock = Nil /\ ~IsStale(p) /\ m = First(p)
  <2>1. Running(p, m)
    BY <1>11 DEF Running, IsStale
  <2>2. Good(m, arg[p].modes) /\ ~closing /\ ~Armed(m) /\ \A q \in Callback : q # p => ~Running(q, m)
    BY <2>1 DEF TimerInv, ValidInv
  <2>3. \A q \in Callback : q # p => ~Halfway(q)'
    BY <1>10, <1>11, NoneHalfway
  <2>4. \A k \in Mode : \A ms : k # m /\ Good(k, ms) =>
            /\ run'[k] /\ dl'[k] \in Time
            /\ ms = IF k = "r" /\ Combo(dl') THEN Mode ELSE {k}
            /\ k = "w" => ~Combo(dl')
    <3>1. ASSUME NEW k \in Mode, NEW ms, k # m, Good(k, ms)
          PROVE  ms = {k} /\ run'[k] /\ dl'[k] \in Time
      <4>1. ms = {k}
        BY <2>2, <3>1 DEF Good, Mode
      <4> QED BY <1>1, <1>3, <3>1, <4>1 DEF Good
    <3> QED BY <1>7, <3>1
  <2>5. ValidInv'
    <3>1. \A k \in Mode : Armed(k)' => Good(k, timer[k].modes)' /\ ~closing'
      <4>1. ASSUME NEW k \in Mode, Armed(k)' PROVE Good(k, timer[k].modes)' /\ ~closing'
        <5>1. k # m /\ Good(k, timer[k].modes) /\ ~closing
          BY <1>5, <2>2, <4>1 DEF TimerInv, ValidInv
        <5> QED BY <1>1, <2>4, <5>1 DEF Good
      <4> QED BY <4>1
    <3>2. \A k \in Mode, q \in Callback : Running(q, k)' => Good(k, arg[q].modes)' /\ ~closing' /\ ~Armed(k)'
      <4>1. ASSUME NEW k \in Mode, NEW q \in Callback, Running(q, k)'
            PROVE  Good(k, arg[q].modes)' /\ ~closing' /\ ~Armed(k)'
        <5>1. k # m /\ Good(k, arg[q].modes) /\ ~closing /\ ~Armed(k)
          BY <1>6, <2>2, <4>1 DEF TimerInv, ValidInv
        <5> QED BY <1>1, <1>5, <2>4, <5>1 DEF Good
      <4> QED BY <4>1
    <3>3. \A k \in Mode, q, o \in Callback : Running(q, k)' /\ Running(o, k)' => q = o
      BY <1>6 DEF TimerInv, ValidInv
    <3> QED BY <3>1, <3>2, <3>3 DEF ValidInv
  <2>6. Halfway(p)' <=> m = "r" /\ "w" \in arg[p].modes
    BY <1>1, <1>2, Roles DEF Halfway
  <2>7. HalfwayInv'
    <3>1. ASSUME Halfway(p)'
          PROVE  /\ dl'["r"] = "expired" /\ dl'["w"] \in Time
                 /\ ~Armed("w")' /\ \A q \in Callback : ~Running(q, "w")'
      <4>1. m = "r" /\ Combo(dl)
        BY <2>2, <2>6, <3>1 DEF Good
      <4>2. dl["w"] \in Time
        BY <4>1 DEF Combo
      <4>3. ~Armed("w") /\ \A q \in Callback : ~Running(q, "w")
        BY <1>7, <4>1 DEF TimerInv, ValidInv, Good
      <4> QED BY <1>3, <1>5, <1>6, <1>7, <4>1, <4>2, <4>3
    <3> QED BY <2>3, <3>1 DEF HalfwayInv
  <2>8. DeadlineInv'
    <3>1. ASSUME NEW k \in Mode, dl'[k] \in Time
          PROVE  (\E o \in Mode : Live(o, k)') \/ (k = "w" /\ \E q \in Callback : Halfway(q)')
      <4>1. k # m /\ dl[k] \in Time
        BY <1>3, <3>1
      <4>2. PICK o \in Mode : Live(o, k)
        BY <1>11, <2>2, <4>1, NoneHalfway DEF TimerInv, DeadlineInv
      <4>3. CASE Armed(o) /\ k \in timer[o].modes
        BY <1>1, <1>5, <4>3, LiveIsNext
      <4>4. ASSUME NEW q \in Callback, Running(q, o), k \in arg[q].modes
            PROVE  Live(o, k)' \/ (k = "w" /\ Halfway(p)')
        <5>1. CASE q # p
          BY <1>1, <1>6, <4>4, <5>1, LiveIsNext
        <5>2. CASE q = p
          <6>1. arg[p].modes # {m}
            BY <4>1, <4>4, <5>2
          <6>2. m = "r" /\ k = "w"
            BY <2>2, <4>1, <6>1 DEF Good, Mode
          <6> QED BY <2>6, <4>4, <5>2, <6>2
        <5> QED BY <5>1, <5>2
      <4> QED BY <4>2, <4>3, <4>4, LiveIs
    <3> QED BY <3>1 DEF DeadlineInv
  <2> QED BY <1>8, <1>9, <2>5, <2>7, <2>8 DEF TimerInv
<1>12. CASE pc[p] = "write" /\ m = "w"
  <2>1. Halfway(p)
    BY <1>12 DEF Halfway
  <2>2. dl["r"] = "expired" /\ ~Armed("w") /\ \A q \in Callback : ~Running(q, "w")
    BY <2>1 DEF TimerInv, HalfwayInv
  <2>3. ~Armed("r") /\ \A q \in Callback : ~Running(q, "r")
    BY <1>3, <1>7, <2>2 DEF TimerInv, ValidInv, Good
  <2>4. \A k \in Mode : ~Armed(k)' /\ \A q \in Callback : ~Running(q, k)'
    BY <1>5, <1>6, <2>2, <2>3 DEF Mode
  <2>5. ValidInv'
    BY <2>4 DEF ValidInv
  <2>6. HalfwayInv'
    <3>1. lock = p /\ p \in Unblocker
      BY <1>12, Roles DEF ControlInv, LockInv
    <3>2. \A q \in Callback : q # p => ~Halfway(q)
      BY <3>1, Roles DEF ControlInv, LockInv, Halfway
    <3>3. ~Halfway(p)'
      <4>1. pc'[p] = "unblock" /\ todo'[p] = {"w"}
        BY <1>2, <1>12, Roles
      <4> QED BY <4>1 DEF Halfway
    <3> QED BY <1>10, <3>2, <3>3 DEF HalfwayInv
  <2>7. DeadlineInv'
    <3>1. \A k \in Mode : dl'[k] \notin Time
      BY <1>3, <1>12, <2>2 DEF Mode
    <3> QED BY <3>1 DEF DeadlineInv
  <2> QED BY <1>8, <1>9, <2>5, <2>6, <2>7 DEF TimerInv
<1> QED BY <1>1, <1>11, <1>12

\* SetTimers seen from one mode: it keeps the timer, or replaces it.
LEMMA SetMode ==
    ASSUME ControlInv, TimerInv, NEW CONSTANT new, NEW CONSTANT ex, SetStep(new, ex), NEW m \in Mode
    PROVE  \/ /\ new[m] = dl[m] /\ (Combo(new) <=> Combo(dl)) /\ run[m] /\ run'[m]
              /\ timer'[m] = timer[m] /\ seq'[m] = seq[m]
           \/ /\ seq'[m] \in {seq[m], seq[m] + 1} /\ (seq'[m] = seq[m] => ~run[m])
              /\ run'[m] = NeedsTimer(m, new)
              /\ timer'[m] = IF NeedsTimer(m, new)
                             THEN [modes |-> IF m = "r" /\ Combo(new) THEN Mode ELSE {m}, n |-> seq'[m]]
                             ELSE Unarmed
<1>1. /\ seq'[m] = IF MustChange(m, dl, new) THEN seq[m] + 1 ELSE seq[m]
      /\ run'[m] = IF run[m] /\ ~MustChange(m, dl, new) THEN TRUE ELSE NeedsTimer(m, new)
      /\ timer'[m] = IF run[m] /\ ~MustChange(m, dl, new) THEN timer[m]
                     ELSE IF NeedsTimer(m, new)
                     THEN [modes |-> IF m = "r" /\ Combo(new) THEN Mode ELSE {m}, n |-> seq'[m]]
                     ELSE Unarmed
  BY DEF SetStep
<1>2. run[m] \in BOOLEAN /\ seq[m] \in Nat /\ seq[m] + 1 # seq[m]
  BY DEF ControlInv, ShapeInv
<1>3. CASE run[m] /\ ~MustChange(m, dl, new)
  <2>1. new[m] = dl[m] /\ (Combo(new) <=> Combo(dl))
    BY <1>3 DEF MustChange, Combo
  <2> QED BY <1>1, <1>3, <2>1
<1>4. CASE ~(run[m] /\ ~MustChange(m, dl, new))
  <2>1. MustChange(m, dl, new) \/ ~run[m]
    BY <1>4
  <2>2. MustChange(m, dl, new) => run[m]
    BY DEF MustChange
  <2> QED BY <1>1, <1>2, <1>4, <2>1, <2>2
<1> QED BY <1>3, <1>4

\* pollSetDeadline leaves a timer for every deadline it sets.
LEMMA SetTimer ==
    ASSUME ControlInv, TimerInv, NEW CONSTANT new, NEW CONSTANT ex, SetStep(new, ex)
    PROVE  TimerInv'
<1>1. /\ lock = Nil /\ ~closing /\ dl' = new /\ UNCHANGED <<closing, arg>>
      /\ todo' = [todo EXCEPT ![Setter] = ex] /\ \E l : Goto(Setter, l)
      /\ pc[Setter] = "lock"
  BY DEF SetStep
<1>2. /\ \A q \in Callback : pc'[q] = pc[q] /\ todo'[q] = todo[q] /\ First(q)' = First(q)
      /\ pc'[Owner] = pc[Owner]
  BY <1>1, OneMoves, Roles DEF ControlInv, ShapeInv, First
<1>3. "r" \in Mode /\ "w" \in Mode /\ \A m \in Mode : m = "r" \/ m = "w"
  BY DEF Mode
<1>4. \A m \in Mode : seq[m] \in Nat /\ seq'[m] \in Nat /\ seq'[m] >= seq[m]
                      /\ timer[m].n \in Nat /\ run[m] \in BOOLEAN
  <2>1. \A m \in Mode : seq[m] \in Nat /\ timer[m].n \in Nat /\ run[m] \in BOOLEAN
    BY DEF ControlInv, ShapeInv, Timer
  <2>2. \A m \in Mode : seq'[m] = seq[m] \/ seq'[m] = seq[m] + 1
    BY DEF SetStep
  <2> QED BY <2>1, <2>2
<1>5. \A q \in Callback : arg[q].n \in Nat /\ First(q) \in Mode
  BY EventModes, <1>3 DEF ControlInv, First
<1> DEFINE Keeps(m) ==
        /\ new[m] = dl[m] /\ (Combo(new) <=> Combo(dl)) /\ run[m] /\ run'[m]
        /\ timer'[m] = timer[m] /\ seq'[m] = seq[m]
<1> DEFINE Replaces(m) ==
        /\ seq'[m] \in {seq[m], seq[m] + 1} /\ (seq'[m] = seq[m] => ~run[m])
        /\ run'[m] = NeedsTimer(m, new)
        /\ timer'[m] = IF NeedsTimer(m, new)
                       THEN [modes |-> IF m = "r" /\ Combo(new) THEN Mode ELSE {m}, n |-> seq'[m]]
                       ELSE Unarmed
<1>6. \A m \in Mode : Keeps(m) \/ Replaces(m)
  BY SetMode
<1> HIDE DEF Keeps, Replaces
<1>7. \A m \in Mode : Keeps(m) => /\ (Armed(m)' <=> Armed(m)) /\ timer'[m] = timer[m]
                                  /\ \A q \in Callback : Running(q, m)' <=> Running(q, m)
  BY <1>1, <1>2 DEF Keeps, Armed, Running
<1>8. \A m \in Mode : Replaces(m) =>
          /\ Armed(m)' <=> NeedsTimer(m, new)
          /\ Armed(m)' => timer'[m].modes = (IF m = "r" /\ Combo(new) THEN Mode ELSE {m}) /\ run'[m]
          /\ \A q \in Callback : ~Running(q, m)'
  <2>1. ASSUME NEW m \in Mode, Replaces(m), NEW q \in Callback PROVE ~Running(q, m)'
    <3>1. CASE seq'[m] = seq[m]
      <4>1. ~run[m]
        BY <2>1, <3>1 DEF Replaces
      <4>2. ~Running(q, m)
        BY <4>1 DEF TimerInv, ValidInv, Good
      <4> QED BY <1>1, <1>2, <3>1, <4>2 DEF Running
    <3>2. CASE seq'[m] = seq[m] + 1
      <4>1. pc[q] = "lock" /\ First(q) = m => arg[q].n <= seq[m]
        BY DEF TimerInv, TimerShape
      <4> QED BY <1>1, <1>2, <1>4, <1>5, <3>2, <4>1 DEF Running
    <3> QED BY <2>1, <3>1, <3>2 DEF Replaces
  <2>2. ASSUME NEW m \in Mode, Replaces(m), NeedsTimer(m, new)
        PROVE  /\ Armed(m)' /\ run'[m]
               /\ timer'[m].modes = IF m = "r" /\ Combo(new) THEN Mode ELSE {m}
    <3>1. timer'[m] = [modes |-> IF m = "r" /\ Combo(new) THEN Mode ELSE {m}, n |-> seq'[m]]
      BY <2>2 DEF Replaces
    <3>2. timer'[m].modes = (IF m = "r" /\ Combo(new) THEN Mode ELSE {m}) /\ timer'[m].n = seq'[m]
      BY <3>1
    <3>3. timer'[m].modes # {}
      BY <1>3, <3>2
    <3>4. run'[m]
      BY <2>2 DEF Replaces
    <3> QED BY <3>2, <3>3, <3>4 DEF Armed
  <2>3. ASSUME NEW m \in Mode, Replaces(m), ~NeedsTimer(m, new) PROVE ~Armed(m)'
    <3>1. timer'[m] = Unarmed
      BY <2>3 DEF Replaces
    <3> QED BY <3>1 DEF Armed, Unarmed
  <2> QED BY <2>1, <2>2, <2>3
<1>9. TimerShape'
  <2>1. ASSUME NEW m \in Mode, timer'[m].modes # {}
        PROVE  /\ timer'[m].modes = {m} \/ (m = "r" /\ timer'[m].modes = Mode)
               /\ timer'[m].n <= seq'[m]
    <3>1. CASE Keeps(m)
      BY <2>1, <3>1 DEF Keeps, TimerInv, TimerShape
    <3>2. CASE Replaces(m)
      <4>1. CASE NeedsTimer(m, new)
        <5>1. timer'[m] = [modes |-> IF m = "r" /\ Combo(new) THEN Mode ELSE {m}, n |-> seq'[m]]
          BY <3>2, <4>1 DEF Replaces
        <5>2. timer'[m].modes = (IF m = "r" /\ Combo(new) THEN Mode ELSE {m}) /\ timer'[m].n = seq'[m]
          BY <5>1
        <5> QED BY <1>4, <5>2
      <4>2. CASE ~NeedsTimer(m, new)
        <5>1. timer'[m] = Unarmed
          BY <3>2, <4>2 DEF Replaces
        <5> QED BY <2>1, <5>1 DEF Unarmed
      <4> QED BY <4>1, <4>2
    <3> QED BY <1>6, <3>1, <3>2
  <2>2. \A q \in Callback : pc'[q] = "lock" => arg'[q].n <= seq'[First(q)]
    <3>1. \A q \in Callback : pc[q] = "lock" => arg[q].n <= seq[First(q)]
      BY DEF TimerInv, TimerShape
    <3> QED BY <1>1, <1>2, <1>4, <1>5, <3>1
  <2>3. \A q \in Callback : pc'[q] # "unblock"
    BY <1>1, <1>2, NoneHalfway
  <2> QED BY <1>2, <2>1, <2>2, <2>3 DEF TimerShape
<1>10. ValidInv'
  <2>1. ASSUME NEW m \in Mode, Armed(m)' PROVE Good(m, timer[m].modes)' /\ ~closing'
    <3>1. CASE Keeps(m)
      <4>1. Good(m, timer[m].modes)
        BY <1>7, <2>1, <3>1 DEF TimerInv, ValidInv
      <4> QED BY <1>1, <3>1, <4>1 DEF Good, Keeps
    <3>2. CASE Replaces(m)
      <4>1. NeedsTimer(m, new) /\ timer'[m].modes = (IF m = "r" /\ Combo(new) THEN Mode ELSE {m}) /\ run'[m]
        BY <1>8, <2>1, <3>2
      <4> QED BY <1>1, <4>1 DEF Good, NeedsTimer
    <3> QED BY <1>6, <3>1, <3>2
  <2>2. ASSUME NEW m \in Mode, NEW q \in Callback, Running(q, m)'
        PROVE  Good(m, arg[q].modes)' /\ ~closing' /\ ~Armed(m)'
    <3>1. Keeps(m)
      BY <1>6, <1>8, <2>2
    <3>2. Good(m, arg[q].modes) /\ ~Armed(m)
      BY <1>7, <2>2, <3>1 DEF TimerInv, ValidInv
    <3>3. ~Armed(m)'
      BY <1>7, <3>1, <3>2
    <3> QED BY <1>1, <3>1, <3>2, <3>3 DEF Good, Keeps
  <2>3. ASSUME NEW m \in Mode, NEW q \in Callback, NEW o \in Callback, Running(q, m)', Running(o, m)'
        PROVE  q = o
    <3>1. Keeps(m)
      BY <1>6, <1>8, <2>3
    <3> QED BY <1>7, <2>3, <3>1 DEF TimerInv, ValidInv
  <2> QED BY <2>1, <2>2, <2>3 DEF ValidInv
<1>11. HalfwayInv'
  <2>1. \A q \in Callback : ~Halfway(q)'
    BY <1>1, <1>2, NoneHalfway DEF Halfway
  <2> QED BY <2>1 DEF HalfwayInv
<1>12. ASSUME NEW k \in Mode, dl[k] \in Time
       PROVE  \E m \in Mode : /\ m = IF Combo(dl) THEN "r" ELSE k
                              /\ Live(m, k)
  <2>1. PICK m \in Mode : Live(m, k)
    BY <1>1, <1>12, NoneHalfway DEF TimerInv, DeadlineInv
  <2>2. PICK ms : Good(m, ms) /\ k \in ms
    BY <2>1, LiveIs DEF TimerInv, ValidInv
  <2>3. m = IF Combo(dl) THEN "r" ELSE k
    BY <1>3, <2>2 DEF Good
  <2> QED BY <2>1, <2>3
<1>13. ASSUME NEW k \in Mode, NEW m \in Mode, Keeps(m), Live(m, k) PROVE Live(m, k)'
  BY <1>1, <1>7, <1>13, LiveIs, LiveIsNext
<1>14. ASSUME NEW k \in Mode, new[k] \in Time PROVE \E m \in Mode : Live(m, k)'
  <2>1. PICK m \in Mode : m = IF Combo(new) THEN "r" ELSE k
    BY <1>3
  <2>2. new[m] \in Time /\ NeedsTimer(m, new)
    BY <1>14, <2>1 DEF Combo, NeedsTimer
  <2>3. CASE Keeps(m)
    <3>1. dl[m] \in Time /\ (Combo(new) <=> Combo(dl))
      BY <2>2, <2>3 DEF Keeps
    <3>2. dl[k] \in Time
      BY <1>3, <2>1, <3>1 DEF Combo
    <3>3. Live(m, k)
      BY <1>12, <2>1, <3>1, <3>2
    <3> QED BY <1>13, <2>3, <3>3
  <2>4. CASE Replaces(m)
    <3>1. Armed(m)' /\ timer'[m].modes = IF m = "r" /\ Combo(new) THEN Mode ELSE {m}
      BY <1>8, <2>2, <2>4
    <3>2. k \in timer'[m].modes
      BY <2>1, <3>1
    <3> QED BY <3>1, <3>2, LiveIsNext
  <2> QED BY <1>6, <2>3, <2>4
<1>15. DeadlineInv'
  BY <1>1, <1>14 DEF DeadlineInv
<1>16. EvictInv'
  BY <1>1, <1>2 DEF TimerInv, EvictInv
<1> QED BY <1>9, <1>10, <1>11, <1>15, <1>16 DEF TimerInv

-----------------------------------------------------------------------------
(* The invariant holds *)

\* At the beginning there is no file and nobody has started.
LEMMA NetpollInit == Init => IInv
<1> SUFFICES ASSUME Init PROVE IInv
  OBVIOUS
<1> USE DEF Init
<1>1. /\ \A m \in Blocker : pc[m] = "idle"
      /\ \A p \in Unblocker : pc[p] = "idle" /\ todo[p] = {} /\ woken[p] = {} /\ taken[p] = {}
      /\ \A m \in Mode : sem[m] = "nil" /\ dl[m] = "none" /\ timer[m].modes = {}
  BY DEF Unarmed
<1>2. ShapeInv
  <2>1. /\ pc \in [Blocker \cup Unblocker -> IoPC \cup UnblockerPC]
        /\ \A m \in Blocker : pc[m] \in IoPC
        /\ \A p \in Unblocker : pc[p] \in RolePC(p)
    <3>1. "idle" \in IoPC /\ \A p \in Unblocker : "idle" \in RolePC(p)
      BY RolePCs DEF IoPC, Unblocker
    <3> QED BY <1>1, <3>1
  <2>2. /\ todo \in [Unblocker -> SUBSET Mode] /\ woken \in [Unblocker -> SUBSET Mode]
        /\ dl \in [Mode -> Time \cup {"none", "expired"}] /\ closing \in BOOLEAN
        /\ run \in [Mode -> BOOLEAN] /\ seq \in [Mode -> Nat]
        /\ sem \in [Mode -> {"nil", "ready", "wait", "G"}]
        /\ lock \in Unblocker \cup {Nil} /\ phase \in {"none", "open", "closed"}
    OBVIOUS
  <2>3. timer \in [Mode -> Timer]
    <3>1. Unarmed \in Timer
      BY DEF Unarmed, Timer
    <3> QED BY <3>1
  <2>4. arg \in [Unblocker -> Arg]
    <3>1. NoArg \in Arg
      BY DEF NoArg, Arg
    <3> QED BY <3>1
  <2>5. /\ fdseq \in 0..(MaxOpen + 1) /\ sets \in 0..MaxSet
        /\ info \in [closing : BOOLEAN, expired : SUBSET Mode, err : BOOLEAN, seq : 0..(MaxOpen + 1)]
        /\ kernel \in [reg : 0..(MaxOpen + 1), avail : SUBSET Mode, edge : SUBSET Mode, err : BOOLEAN]
    BY Roles DEF NoFile
  <2> QED BY <2>1, <2>2, <2>3, <2>4, <2>5 DEF ShapeInv
<1>3. LockInv /\ TodoInv
  BY <1>1, Roles DEF LockInv, TodoInv
<1>4. LifeInv
  BY <1>1, Roles DEF LifeInv
<1>5. InfoInv
  BY <1>1, Roles DEF InfoInv
<1>6. WakeInv /\ CountInv
  <2>1. SemInv /\ WokenInv
    BY <1>1, Roles DEF SemInv, WokenInv
  <2>2. Slots = {} /\ CountedOut = {}
    BY <1>1 DEF Slots, CountedOut
  <2>3. Cardinality(Slots) = 0 /\ Cardinality(CountedOut) = 0
    BY <2>2, FS_EmptySet
  <2>4. WaitersExact
    <3>1. 0 % WaiterRange = 0
      BY CountFinite
    <3> QED BY <2>3, <3>1 DEF WaitersExact, Plus, Slots
  <2>5. taken \in [Unblocker -> SUBSET Mode] /\ adding \in 0..MaxAdding /\ TakenInv
    BY <1>1, CountFinite DEF TakenInv
  <2> QED BY <2>1, <2>4, <2>5 DEF WakeInv, CountInv
<1>7. NobodyStranded /\ ReadinessInv
  BY <1>1 DEF NobodyStranded, Sleeping, ReadinessInv
<1>8. ErrInv
  BY <1>1, Roles DEF ErrInv, TagInv, EventErrFresh
<1>9. TimerInv
  <2>1. \A m \in Mode : ~Armed(m)
    BY <1>1 DEF Armed
  <2>2. \A p \in Callback : pc[p] = "idle"
    BY <1>1, Roles
  <2>3. \A p \in Callback : ~Halfway(p) /\ \A m \in Mode : ~Running(p, m)
    BY <2>2 DEF Halfway, Running
  <2>4. TimerShape
    BY <1>1, <2>2 DEF TimerShape
  <2>5. ValidInv /\ HalfwayInv
    BY <2>1, <2>3 DEF ValidInv, HalfwayInv
  <2>6. DeadlineInv /\ EvictInv
    BY <1>1, Roles, NetpollAssumption DEF DeadlineInv, EvictInv
  <2> QED BY <2>4, <2>5, <2>6 DEF TimerInv
<1> QED BY <1>2, <1>3, <1>4, <1>5, <1>6, <1>7, <1>8, <1>9 DEF IInv, ControlInv

\* The steps that the unblockers share.
LEMMA SharedStep ==
    ASSUME IInv, NEW p \in Unblocker, UnblockerStep(p)
    PROVE  IInv'
<1> USE DEF IInv
<1>1. CASE netpollunblock(p)
  <2>1. PICK m \in Mode, l \in RolePC(p) : UnblockStep(p, m, l)
    BY <1>1, UnblockIs
  <2> QED BY <2>1, UnblockControl, UnblockWake, UnblockCount, UnblockStranded, UnblockEvents, UnblockTimer
<1>2. CASE Unlock(p)
  <2>1. ReadinessInv' /\ ErrInv'
    BY <1>2, SideUnlock, SideEvents
  <2> QED BY <1>2, <2>1, UnlockControl, UnlockWake, UnlockCount, UnlockStranded, UnlockTimer
<1>3. CASE (\E m \in Mode : Goready(p, m)) \/ Adjust(p)
  <2>1. PICK S, l : ReadyStep(p, S, l)
    BY <1>3, ReadyIs
  <2> QED BY <1>3, <2>1, ReadyControl, ReadyWake, ReadyCount, ReadyStranded, ReadyEvents, ReadyTimer
<1> QED BY <1>1, <1>2, <1>3 DEF UnblockerStep

\* Every step keeps the invariant.
LEMMA NetpollNext == IInv /\ [Next]_vars => IInv'
<1> SUFFICES ASSUME IInv, [Next]_vars PROVE IInv'
  OBVIOUS
<1> USE DEF IInv
<1>1. ASSUME NEW m \in Blocker, Start(m) \/ IoStep(m) PROVE IInv'
  BY <1>1, IoControl, IoWake, IoCount, IoStranded, IoEvents, IoTimer
<1>2. CASE SetDeadline \/ SetClosing
  <2>1. ReadinessInv' /\ ErrInv'
    BY <1>2, SideOther, SideEvents
  <2> QED BY <1>2, <2>1, SetControl, QuietWake, QuietCount, QuietStranded, OtherTimer
<1>3. ASSUME NEW d \in Time \cup {"none", "expired"}, NEW ms \in {{"r"}, {"w"}, Mode}, SetTimers(d, ms)
      PROVE  IInv'
  <2>1. PICK new, ex : SetStep(new, ex)
    BY <1>3, SetIs
  <2>2. ReadinessInv' /\ ErrInv'
    BY <2>1, SideSet, SideEvents
  <2>3. WakeInv' /\ CountInv'
    BY <1>3, QuietWake, QuietCount
  <2> QED BY <2>1, <2>2, <2>3, SetTimersControl, SetStranded, SetTimer
<1>4. ASSUME NEW p \in Callback, DeadlineStale(p) PROVE IInv'
  <2>1. ReadinessInv' /\ ErrInv'
    BY <1>4, SideCallback, SideEvents
  <2>2. WakeInv' /\ CountInv' /\ NobodyStranded'
    BY <1>4, QuietWake, QuietCount, QuietStranded
  <2> QED BY <1>4, <2>1, <2>2, StaleControl, StaleTimer
<1>5. ASSUME NEW p \in Callback, DeadlineFirst(p) \/ DeadlineWrite(p) PROVE IInv'
  <2>1. PICK m \in Mode : ExpireStep(p, m)
    BY <1>5, ExpireIs
  <2>2. ReadinessInv' /\ ErrInv'
    BY <2>1, SideCallback, SideEvents
  <2>3. WakeInv' /\ CountInv'
    BY <1>5, QuietWake, QuietCount
  <2> QED BY <2>1, <2>2, <2>3, ExpireControl, ExpireStranded, ExpireTimer
<1>6. ASSUME NEW p \in Callback, NEW m \in Mode, Fire(p, m) PROVE IInv'
  <2>1. ReadinessInv' /\ ErrInv'
    BY <1>6, SideCallback, SideEvents
  <2>2. WakeInv' /\ CountInv' /\ NobodyStranded'
    BY <1>6, QuietWake, QuietCount, QuietStranded
  <2> QED BY <1>6, <2>1, <2>2, FireControl, FireTimer
<1>7. CASE Open
  BY <1>7, OpenControl, OpenWake, OpenCount, UnusedStranded, OwnerEvents, OwnerTimer
<1>8. CASE Register
  BY <1>8, RegisterControl, QuietWake, QuietCount, QuietStranded, OwnerEvents, OtherTimer
<1>9. CASE Close
  <2>1. ReadinessInv' /\ ErrInv'
    BY <1>9, SideOther, SideEvents
  <2> QED BY <1>9, <2>1, RegisterControl, QuietWake, QuietCount, QuietStranded, OtherTimer
<1>10. CASE pollUnblock
  <2>1. ReadinessInv' /\ ErrInv'
    BY <1>10, SideOther, SideEvents
  <2> QED BY <1>10, <2>1, EvictControl, QuietWake, QuietCount, EvictStranded, OwnerTimer
<1>11. CASE pollClose
  BY <1>11, CloseControl, QuietWake, QuietCount, QuietStranded, OwnerEvents, OtherTimer
<1>12. CASE FreeSeq \/ FreePublish
  BY <1>12, FreeControl, QuietWake, QuietCount, UnusedStranded, OwnerEvents, OtherTimer
<1>13. CASE Fail \/ \E m \in Blocker : Arrive(m)
  BY <1>13, KernelControl, KernelWake, KernelCount, QuietStranded, KernelEvents, IoTimer
<1>14. CASE Poll
  BY <1>14, PollControl, QuietWake, QuietCount, QuietStranded, PollEvents, OtherTimer
<1>15. CASE PollTag
  BY <1>15, PollControl, QuietWake, QuietCount, QuietStranded, TagEvents, OtherTimer
<1>16. CASE setEventErr
  <2>1. arg[Poller].modes # {}
    BY <1>16 DEF setEventErr, ErrInv, TagInv
  <2> QED BY <1>16, <2>1, SetErrControl, QuietWake, QuietCount, QuietStranded, SetErrEvents, OtherTimer
<1>17. CASE AddWaiter \/ UNCHANGED vars
  <2>1. UNCHANGED <<phase, fdseq, info, sem, lock, closing, dl, run, seq, timer, pc, todo, woken, taken,
                    arg, kernel, sets>>
    BY <1>17 DEF AddWaiter, vars, IoVars, desc, local
  <2>2. ControlInv'
    BY <2>1 DEF ControlInv, ShapeInv, LockInv, TodoInv, LifeInv, InfoInv
  <2>3. WakeInv'
    BY <2>1 DEF WakeInv, SemInv, WokenInv
  <2>6. CountInv'
    <3>1. CASE UNCHANGED vars
      <4>1. UNCHANGED <<waiters, adding>>
        BY <3>1 DEF vars, count
      <4> QED BY <2>1, <4>1, CountQuiet DEF CountInv, TakenInv
    <3> QED BY <1>17, <3>1, AddCount
  <2>4. NobodyStranded' /\ ReadinessInv' /\ ErrInv'
    BY <2>1 DEF NobodyStranded, Sleeping, ReadinessInv, Coming, ErrInv, TagInv, EventErrFresh
  <2>5. TimerInv'
    BY <2>1, TimerQuiet DEF CallbackStay
  <2> QED BY <2>2, <2>3, <2>4, <2>5, <2>6
<1>18. ASSUME NEW p \in Unblocker, UnblockerStep(p) PROVE IInv'
  BY <1>18, SharedStep
<1> HIDE DEF IInv
<1>19. CASE SetterStep
  BY <1>2, <1>3, <1>18, <1>19, Roles DEF SetterStep
<1>20. ASSUME NEW p \in Callback, CallbackStep(p) PROVE IInv'
  BY <1>4, <1>5, <1>18, <1>20, Roles DEF CallbackStep
<1>21. CASE OwnerStep
  BY <1>8, <1>10, <1>11, <1>12, <1>18, <1>21, Roles DEF OwnerStep
<1>22. CASE PollerStep
  BY <1>14, <1>15, <1>16, <1>18, <1>22, Roles DEF PollerStep
<1> QED BY <1>1, <1>2, <1>6, <1>7, <1>9, <1>13, <1>17, <1>19, <1>20, <1>21, <1>22 DEF Next

\* The inductive invariant holds in every state, for any number of callbacks,
\* deadlines and files.
THEOREM NetpollInductive == Spec => []IInv
  BY NetpollInit, NetpollNext, PTL DEF Spec

-----------------------------------------------------------------------------
(* What follows from it *)

\* The types, and the conditions of the throws.
LEMMA NetpollNoThrow == IInv => TypeOK /\ NoThrow
<1> SUFFICES ASSUME IInv PROVE TypeOK /\ NoThrow
  OBVIOUS
<1>1. ControlInv /\ WakeInv /\ CountInv /\ TimerInv
  BY DEF IInv
<1>2. TypeOK
  <2>1. \A p \in Unblocker : pc[p] \in UnblockerPC /\ arg[p].modes \subseteq Mode /\ arg[p].n \in Nat
    BY <1>1, RolePCs DEF ControlInv, ShapeInv, Arg
  <2>2. \A m \in Mode : timer[m].modes \subseteq Mode /\ timer[m].n \in Nat
    BY <1>1 DEF ControlInv, ShapeInv, Timer
  <2>3. waiters \in 0..(WaiterRange - 1) /\ adding \in 0..MaxAdding /\ taken \in [Unblocker -> SUBSET Mode]
    <3>1. PICK a \in Int : a = Cardinality(Slots) + Cardinality(CountedOut) + (-adding)
      BY <1>1, CountFinite DEF CountInv
    <3>2. waiters = a % WaiterRange
      BY <1>1, <3>1 DEF CountInv, WaitersExact, Plus, Slots
    <3> QED BY <1>1, <3>2, CountFinite DEF CountInv
  <2>4. ShapeInv
    BY <1>1 DEF ControlInv
  <2> QED BY <2>1, <2>2, <2>3, <2>4 DEF TypeOK, ShapeInv
<1>3. NoThrow
  <2>1. \A m \in Blocker : /\ pc[m] = "block" => sem[m] \in {"nil", "ready"}
                           /\ pc[m] = "swap" => sem[m] # "G"
    BY <1>1, Roles DEF ControlInv, ShapeInv, WakeInv, SemInv
  <2>2. ASSUME NEW p \in Callback, pc[p] = "lock", ~IsStale(p)
        PROVE  dl[First(p)] \in Time /\ run[First(p)]
    <3>1. Running(p, First(p)) /\ First(p) \in Mode
      BY <2>2 DEF Running, IsStale, First, Mode
    <3> QED BY <1>1, <3>1 DEF TimerInv, ValidInv, Good
  <2>3. ASSUME NEW p \in Callback, pc[p] = "write" PROVE dl["w"] \in Time
    BY <1>1, <2>3 DEF TimerInv, HalfwayInv, Halfway
  <2>4. pc[Owner] = "free" \/ phase = "none" => \A m \in Mode : sem[m] \in {"nil", "ready"}
    <3>1. pc[Owner] = "free" \/ phase = "none" => \A m \in Blocker : pc[m] = "idle"
      BY <1>1 DEF ControlInv, LifeInv
    <3> QED BY <1>1, <3>1 DEF ControlInv, ShapeInv, WakeInv, SemInv
  <2> QED BY <2>1, <2>2, <2>3, <2>4 DEF NoThrow
<1> QED BY <1>2, <1>3

\* Who is woken is in one pair of hands, and counted.
LEMMA NetpollWoken == IInv => WokenOnce /\ WaitersExact /\ WaitersSeen
<1> SUFFICES ASSUME IInv PROVE WokenOnce /\ WaitersExact /\ WaitersSeen
  OBVIOUS
<1>1. WakeInv /\ CountInv
  BY DEF IInv
<1>2. ASSUME NEW m \in Blocker, NEW W,
             W = {p \in Unblocker : pc[p] \in {"unblock", "write", "unlock", "ready"} /\ m \in woken[p]}
      PROVE  IF pc[m] = "parked" /\ sem[m] # "G" THEN Cardinality(W) = 1 ELSE W = {}
  <2>1. \A p \in Unblocker : p \in W <=> m \in woken[p]
    BY <1>1, <1>2 DEF WakeInv, WokenInv
  <2>2. CASE pc[m] = "parked" /\ sem[m] # "G"
    <3>1. PICK p \in Unblocker : m \in woken[p]
      BY <1>1, <2>2 DEF WakeInv, WokenInv
    <3>2. \A q \in Unblocker : m \in woken[q] => q = p
      BY <1>1, <3>1 DEF WakeInv, WokenInv
    <3>3. W = {p}
      BY <1>2, <2>1, <3>1, <3>2
    <3> QED BY <2>2, <3>3, FS_Singleton
  <2>3. CASE ~(pc[m] = "parked" /\ sem[m] # "G")
    BY <1>1, <1>2, <2>1, <2>3 DEF WakeInv, WokenInv
  <2> QED BY <2>2, <2>3
<1>3. WokenOnce
  BY <1>2 DEF WokenOnce
<1>4. ASSUME adding = 0, NEW m \in Mode, sem[m] = "G" PROVE waiters > 0
  <2>1. m \in Slots
    BY <1>4 DEF Slots
  <2>2. PICK a \in Nat : a = Cardinality(Slots) + Cardinality(CountedOut)
    BY CountFinite
  <2>3. Cardinality(Slots) # 0
    BY <2>1, CountFinite, FS_EmptySet
  <2>4. a > 0 /\ a < WaiterRange
    BY <2>2, <2>3, CountFinite
  <2>5. a % WaiterRange = a
    BY <2>4, CountFinite
  <2>6. waiters = (a + (-adding)) % WaiterRange
    BY <1>1, <2>2 DEF CountInv, WaitersExact, Plus, Slots
  <2> QED BY <1>4, <2>4, <2>5, <2>6
<1> QED BY <1>1, <1>3, <1>4 DEF CountInv, WaitersSeen

\* What the runs check of the poller, in any state of the invariant.
LEMMA NetpollSafe ==
    IInv => NetpollInv /\ NoLostReadiness /\ NobodyStranded /\ DeadlineArmed /\ EventErrFresh
<1> SUFFICES ASSUME IInv
             PROVE  NetpollInv /\ NoLostReadiness /\ NobodyStranded /\ DeadlineArmed /\ EventErrFresh
  OBVIOUS
<1>1. NetpollInv
  BY NetpollNoThrow, NetpollWoken DEF NetpollInv
<1>2. NoLostReadiness
  BY DEF IInv, ReadinessInv, Coming, NoLostReadiness, Sleeping
<1>3. DeadlineArmed
  <2>1. lock = Nil => \A p \in Callback : ~Halfway(p)
    BY NoneHalfway DEF IInv
  <2> QED BY <2>1 DEF IInv, TimerInv, DeadlineInv, DeadlineArmed
<1>4. NobodyStranded /\ EventErrFresh
  BY DEF IInv, ErrInv
<1> QED BY <1>1, <1>2, <1>3, <1>4

\* Close, deadlines and the poller never ready a goroutine twice, no addition to
\* netpollWaiters or subtraction from it is lost in any order of the two, and the
\* throws of netpoll.go are dead code.
THEOREM NetpollSound == Spec => []NetpollInv
  BY NetpollInductive, NetpollSafe, PTL

\* No goroutine sleeps while its file is ready and the event gone.
THEOREM NetpollReadiness == Spec => []NoLostReadiness
  BY NetpollInductive, NetpollSafe, PTL

\* No goroutine sleeps past an expired deadline or a close.
THEOREM NetpollStranded == Spec => []NobodyStranded
  BY NetpollInductive, NetpollSafe, PTL

\* Every deadline in the future has a timer, or its callback, that is not stale.
THEOREM NetpollDeadline == Spec => []DeadlineArmed
  BY NetpollInductive, NetpollSafe, PTL

\* An error event is reported only for the file that had it.
THEOREM NetpollEventErr == Spec => []EventErrFresh
  BY NetpollInductive, NetpollSafe, PTL
=============================================================================
