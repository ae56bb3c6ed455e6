-------------------------------- MODULE Chan --------------------------------
(***************************************************************************)
(* Channels and select: runtime/chan.go and runtime/select.go.              *)
(*                                                                         *)
(* A call is a record op: its kind ("chan", "select" or "close"), whether   *)
(* it may block, and its cases, each with a channel, a direction and, for   *)
(* a send, a value.  chansend and chanrecv are calls of kind "chan" with    *)
(* one case.  A sudog stands for goroutine g waiting on case i of its call.   *)
(*                                                                         *)
(* What a goroutine does under a channel lock is one step, unless somebody  *)
(* who does not take that lock can see it half done: closechan, whose flag  *)
(* and queues the lock-free tests read, and selectgo, which takes several   *)
(* locks one by one.  The unlocked tests of a non-blocking call are a step   *)
(* each, and so is every wakeup, which happens after the lock is released.   *)
(***************************************************************************)
EXTENDS Integers, FiniteSets, Sequences

CONSTANTS Goroutine,
          ChanAddr,     \* channels, by address (sortkey)
          Cap,          \* Cap[c]: dataqsiz
          Program,      \* Program[g]: the calls g may make
          Value,        \* values sent
          Zero,         \* the zero value
          Nil,          \* no goroutine
          NoOp          \* no call

Dir == {"recv", "send"}
Other(dir) == IF dir = "recv" THEN "send" ELSE "recv"

\* What the compiler makes of channel operations: only a select has several cases
\* and only a send has a value.
CaseType == [c : ChanAddr, dir : Dir \cup {"close"}, v : Value \cup {Zero}]
OpType == [kind : {"chan", "select", "close"}, block : BOOLEAN, cases : Seq(CaseType)]
WellFormed(o) ==
    /\ o \in OpType
    /\ o.cases # <<>>
    /\ o.kind # "select" => Len(o.cases) = 1
    /\ \A i \in DOMAIN o.cases :
          /\ (o.cases[i].dir = "close") <=> (o.kind = "close")
          /\ (o.cases[i].dir = "send") <=> (o.cases[i].v \in Value)

ASSUME ChanAssumption ==
    /\ ChanAddr \subseteq Nat
    /\ Cap \in [ChanAddr -> Nat]
    /\ Zero \notin Value
    /\ Nil \notin Goroutine
    /\ \A g \in Goroutine : \A o \in Program[g] : o # NoOp /\ WellFormed(o)

VARIABLES
    qcount, buf, sendx, recvx, closed,  \* the fields of hchan, per channel
    waitq,          \* recvq and sendq: queues of sudogs, per direction and channel
    lock,           \* lock[c]: who holds c.lock, or Nil
    pc,             \* where g is
    op,             \* g's call
    todo,           \* todo[g]: channels g has yet to lock
    parking,        \* parking[g]: channels selparkcommit has yet to unlock for g
    selectDone,     \* g.selectDone
    elem,           \* elem[g]: the variable that a parked receive of g is to fill
    param, success, \* g.param and the success field of the sudog it points to
    wake,           \* wake[g]: wakeups g owes: goroutine, case, success
    ret,            \* ret[g]: what g's call returns
    missed,         \* auxiliary: at some moment of g's call no case was ready
    opened          \* auxiliary: at some moment of g's call its channels were open

chanvars == <<qcount, buf, sendx, recvx, closed>>
vars == <<qcount, buf, sendx, recvx, closed, waitq, lock, pc, op, todo,
          parking, selectDone, elem, param, success, wake, ret, missed, opened>>

recvq == waitq["recv"]
sendq == waitq["send"]

\* The promise of a channel, and the mapping to it: the values in the ring ...
Contents(c) == [k \in 1..qcount[c] |-> buf[c][(recvx[c] + k - 1) % Cap[c]]]

Res(i, v, ok) == [casi |-> i, v |-> v, ok |-> ok]
NoRes == Res(-1, Zero, FALSE)

Case(g, i) == op[g].cases[i]
Cases(g) == DOMAIN op[g].cases
Channels(g) == {Case(g, i).c : i \in Cases(g)}

Entries(q) == {q[k] : k \in DOMAIN q}

\* ... and what became of a call: known to whoever took the sudog off its
\* queue, then to the goroutine that was woken, then returned.
Owed(g) == {e \in UNION {Entries(wake[w]) : w \in Goroutine} : e.g = g}
OutcomeOf(g) ==
    CASE pc[g] \in {"ready", "closing", "return"} -> ret[g]
      [] pc[g] = "parked" /\ Owed(g) # {} ->
            LET e == CHOOSE e \in Owed(g) : TRUE IN Res(e.casi, elem[g], e.ok)
      [] pc[g] \in {"awake", "relock", "pass3"} -> Res(param[g], elem[g], success[g])
      [] OTHER -> NoRes

\* Those whose sudogs are all queued and who have not been signalled.
Waiting == {g \in Goroutine : pc[g] = "parked" /\ OutcomeOf(g) = NoRes}

Abstract == INSTANCE Channel WITH
    queue <- [c \in ChanAddr |-> Contents(c)],
    ended <- [c \in ChanAddr |-> closed[c] = 1],
    call <- op,
    outcome <- [g \in Goroutine |-> OutcomeOf(g)],
    waiting <- Waiting,
    stuck <- {g \in Goroutine : missed[g]},
    opened <- {g \in Goroutine : opened[g]}

-----------------------------------------------------------------------------
(***************************************************************************)
(* Wait queues.                                                             *)
(***************************************************************************)

Sudog(g, i) == [g |-> g, casi |-> i]

\* Mutant: dequeue ignores selectDone
LiveMutant(e) == TRUE
\* A select that somebody else has already signalled is to be skipped.
Live(e) == op[e.g].kind = "select" => selectDone[e.g] = 0

Lowest(S) == CHOOSE x \in S : \A y \in S : x <= y

\* waitq.dequeue: the first live sudog, and the queue once it and the dead
\* ones before it are gone.
LiveIn(q) == {k \in DOMAIN q : Live(q[k])}
First(q) == Lowest(LiveIn(q))
HasWaiter(q) == LiveIn(q) # {}
Dequeued(q) == q[First(q)]
Rest(q) == IF HasWaiter(q) THEN SubSeq(q, First(q) + 1, Len(q)) ELSE <<>>

Signalled(e) == IF op[e.g].kind = "select"
                THEN [selectDone EXCEPT ![e.g] = 1]
                ELSE selectDone

\* waitq.enqueue, on the queue of case i.
Enqueue(wq, g, i) ==
    [wq EXCEPT ![Case(g, i).dir][Case(g, i).c] = Append(@, Sudog(g, i))]

\* waitq.dequeueSudoG: the k-th leaves, wherever it is.
dequeueSudoG(q, k) == SubSeq(q, 1, k - 1) \o SubSeq(q, k + 1, Len(q))

\* What a poll of case i finds.
Sendable(c) == closed[c] = 0 /\ (HasWaiter(recvq[c]) \/ qcount[c] < Cap[c])
Receivable(c) == HasWaiter(sendq[c]) \/ qcount[c] > 0
Ready(k) ==
    \/ closed[k.c] = 1
    \/ k.dir = "send" /\ Sendable(k.c)
    \/ k.dir = "recv" /\ Receivable(k.c)

\* Auxiliary: a call with a default records whether it ever was blocked, and
\* whether its channels ever were open.
Blocked(g) ==
    /\ op[g] # NoOp
    /\ ~op[g].block
    /\ \A i \in Cases(g) : ~Ready(Case(g, i))
Open(g) ==
    /\ op[g] # NoOp
    /\ ~op[g].block
    /\ \A i \in Cases(g) : closed[Case(g, i).c] = 0
Observe ==
    /\ missed' = [g \in Goroutine |-> Blocked(g)' \/ (missed[g] /\ op'[g] # NoOp)]
    /\ opened' = [g \in Goroutine |-> Open(g)' \/ (opened[g] /\ op'[g] # NoOp)]

-----------------------------------------------------------------------------
(***************************************************************************)
(* One case takes effect.                                                   *)
(***************************************************************************)

\* Mutant: success is not set
WakeupFails(e, ok) == [g |-> e.g, casi |-> e.casi, ok |-> FALSE]
Wakeup(e, ok) == [g |-> e.g, casi |-> e.casi, ok |-> ok]

Goto(g, l) == pc' = [pc EXCEPT ![g] = l]
Returns(g, r) == ret' = [ret EXCEPT ![g] = r]
Inc(c, x) == IF x + 1 = Cap[c] THEN 0 ELSE x + 1

\* chanrecv looks for a waiting sender only on an open channel, selectgo always.
HasSender(g, c) == HasWaiter(sendq[c]) /\ (closed[c] = 0 \/ op[g].kind = "select")

\* The poll of case i looks into this queue of c, and the queues once the cases
\* in P have been polled.
Polls(g, i, dir, c) ==
    /\ Case(g, i).c = c
    /\ Case(g, i).dir = Other(dir)
    /\ closed[c] = 0 \/ (dir = "send" /\ op[g].kind = "select")
Polled(g, P) == [dir \in Dir |-> [c \in ChanAddr |->
    IF \E i \in P : Polls(g, i, dir, c) THEN Rest(waitq[dir][c]) ELSE waitq[dir][c]]]

\* The value goes straight to a waiting receiver.
send(g, i, c) ==
    LET e == Dequeued(recvq[c])
    IN  /\ closed[c] = 0
        /\ HasWaiter(recvq[c])
        /\ elem' = [elem EXCEPT ![e.g] = Case(g, i).v]
        /\ selectDone' = Signalled(e)
        /\ wake' = [wake EXCEPT ![g] = <<Wakeup(e, TRUE)>>]
        /\ Returns(g, Res(i, Zero, TRUE))
        /\ Goto(g, "ready")
        /\ UNCHANGED chanvars

\* The receiver takes the oldest value and the waiting sender's value goes to
\* the end: without a buffer they are the same value, with a (full) buffer the
\* same slot.
recv(g, i, c) ==
    LET e == Dequeued(sendq[c])
        v == Case(e.g, e.casi).v
    IN  /\ HasSender(g, c)
        /\ IF Cap[c] = 0
           THEN Returns(g, Res(i, v, TRUE)) /\ UNCHANGED chanvars
           ELSE /\ Returns(g, Res(i, buf[c][recvx[c]], TRUE))
                /\ buf' = [buf EXCEPT ![c][recvx[c]] = v]
                /\ recvx' = [recvx EXCEPT ![c] = Inc(c, @)]
                /\ sendx' = [sendx EXCEPT ![c] = Inc(c, recvx[c])]
                /\ UNCHANGED <<qcount, closed>>
        /\ selectDone' = Signalled(e)
        /\ wake' = [wake EXCEPT ![g] = <<Wakeup(e, TRUE)>>]
        /\ Goto(g, "ready")
        /\ UNCHANGED elem
bufsend(g, i, c) ==
    /\ closed[c] = 0
    /\ ~HasWaiter(recvq[c])
    /\ qcount[c] < Cap[c]
    /\ buf' = [buf EXCEPT ![c][sendx[c]] = Case(g, i).v]
    /\ sendx' = [sendx EXCEPT ![c] = Inc(c, @)]
    /\ qcount' = [qcount EXCEPT ![c] = @ + 1]
    /\ Returns(g, Res(i, Zero, TRUE))
    /\ Goto(g, "return")
    /\ UNCHANGED <<recvx, closed, selectDone, wake, elem>>

bufrecv(g, i, c) ==
    /\ ~HasSender(g, c)
    /\ qcount[c] > 0
    /\ Returns(g, Res(i, buf[c][recvx[c]], TRUE))
    /\ buf' = [buf EXCEPT ![c][recvx[c]] = Zero]
    /\ recvx' = [recvx EXCEPT ![c] = Inc(c, @)]
    /\ qcount' = [qcount EXCEPT ![c] = @ - 1]
    /\ Goto(g, "return")
    /\ UNCHANGED <<sendx, closed, selectDone, wake, elem>>

\* A send on a closed channel panics; a receive ends once the buffer is empty.
onclosed(g, i, c) ==
    /\ closed[c] = 1
    /\ Case(g, i).dir = "recv" => qcount[c] = 0 /\ ~HasSender(g, c)
    /\ Returns(g, Res(i, Zero, FALSE))
    /\ Goto(g, "return")
    /\ UNCHANGED <<selectDone, wake, elem, qcount, buf, sendx, recvx, closed>>

\* Case i proceeds; the cases in P were polled before it and were not ready.
Proceed(g, i, P) ==
    LET c == Case(g, i).c
    IN  /\ \/ Case(g, i).dir = "send" /\ (send(g, i, c) \/ bufsend(g, i, c))
           \/ Case(g, i).dir = "recv" /\ (recv(g, i, c) \/ bufrecv(g, i, c))
           \/ onclosed(g, i, c)
        /\ waitq' = Polled(g, P \cup {i})

\* No case is ready and the call may not block.
GiveUp(g) ==
    /\ ~op[g].block
    /\ Returns(g, Res(0, Zero, FALSE))
    /\ Goto(g, "return")
    /\ waitq' = Polled(g, Cases(g))
    /\ UNCHANGED <<selectDone, wake, elem, qcount, buf, sendx, recvx, closed>>

NoneReady(g) == \A i \in Cases(g) : ~Ready(Case(g, i))

-----------------------------------------------------------------------------
(***************************************************************************)
(* chansend and chanrecv.                                                   *)
(***************************************************************************)

\* The case is not ready: g queues a sudog, and parks.
Park(g) ==
    /\ op[g].block
    /\ waitq' = Enqueue(Polled(g, {1}), g, 1)
    /\ param' = [param EXCEPT ![g] = 0]
    /\ Goto(g, "parked")
    /\ UNCHANGED <<selectDone, wake, elem, ret, qcount, buf, sendx, recvx, closed>>

\* Only calls of kind "chan" that may not block try without the lock first.
Call(g, o) ==
    /\ pc[g] = "idle"
    /\ op' = [op EXCEPT ![g] = o]
    /\ todo' = [todo EXCEPT ![g] = IF o.kind = "select" THEN {o.cases[i].c : i \in DOMAIN o.cases}
                                       ELSE {}]
    /\ Goto(g, CASE o.kind = "close" -> "close"
                 [] o.kind = "select" -> "sellock"
                 [] OTHER -> IF o.block THEN "lock" ELSE "fast")
    /\ UNCHANGED <<qcount, buf, sendx, recvx, closed, waitq, lock, parking,
                   selectDone, elem, param, success, wake, ret>>
    /\ Observe

\* Mutant: the waiting receivers are not looked at
fullMutant(c) == qcount[c] = Cap[c]
full(c) == IF Cap[c] = 0 THEN recvq[c] = <<>> ELSE qcount[c] = Cap[c]
empty(c) == IF Cap[c] = 0 THEN sendq[c] = <<>> ELSE qcount[c] = 0

\* A test without the lock: g goes to l, or returns r if l is "return".
Test(g, l, r) ==
    /\ Goto(g, l)
    /\ Returns(g, IF l = "return" THEN r ELSE NoRes)
    /\ UNCHANGED <<qcount, buf, sendx, recvx, closed, waitq, lock, op, todo,
                   parking, selectDone, elem, param, success, wake>>
    /\ Observe

\* Mutant: c.closed is not read
FastSendUnread(g) ==
    /\ pc[g] \in {"fast", "full"}
    /\ Case(g, 1).dir = "send"
    /\ \/ pc[g] = "fast" /\ Test(g, "full", NoRes)
       \/ pc[g] = "full" /\ Test(g, IF full(Case(g, 1).c) THEN "return" ELSE "lock", Res(0, Zero, FALSE))
FastSend(g) ==
    LET c == Case(g, 1).c
    IN  /\ pc[g] \in {"fast", "full"}
        /\ Case(g, 1).dir = "send"
        /\ \/ pc[g] = "fast" /\ Test(g, IF closed[c] = 0 THEN "full" ELSE "lock", NoRes)
           \/ pc[g] = "full" /\ Test(g, IF full(c) THEN "return" ELSE "lock", Res(0, Zero, FALSE))

FastRecv(g) ==
    LET c == Case(g, 1).c
    IN  /\ pc[g] \in {"fast", "open", "again"}
        /\ Case(g, 1).dir = "recv"
        /\ \/ pc[g] = "fast" /\ Test(g, IF empty(c) THEN "open" ELSE "lock", NoRes)
           \/ pc[g] = "open" /\ Test(g, IF closed[c] = 0 THEN "return" ELSE "again", Res(0, Zero, FALSE))
           \/ pc[g] = "again" /\ Test(g, IF empty(c) THEN "return" ELSE "lock", Res(1, Zero, FALSE))

\* The locked part of chansend and chanrecv.
ChanOp(g) ==
    /\ pc[g] = "lock"
    /\ lock[Case(g, 1).c] = Nil
    /\ \/ Proceed(g, 1, {}) /\ UNCHANGED param
       \/ NoneReady(g) /\ GiveUp(g) /\ UNCHANGED param
       \/ NoneReady(g) /\ Park(g)
    /\ UNCHANGED <<lock, op, todo, parking, success>>
    /\ Observe

\* goready, after the lock is released.  A goroutine that is not parked must
\* not be readied; for send and recv this is also where param is set.
Goready(g) ==
    LET e == Head(wake[g])
    IN  /\ pc[g] = "ready"
        /\ pc' = [pc EXCEPT ![e.g] = IF pc[e.g] = "parked" THEN "awake" ELSE "throw",
                            ![g] = IF Len(wake[g]) = 1 THEN "return" ELSE "ready"]
        /\ param' = [param EXCEPT ![e.g] = e.casi]
        /\ success' = [success EXCEPT ![e.g] = e.ok]
        /\ wake' = [wake EXCEPT ![g] = Tail(@)]
        /\ UNCHANGED <<qcount, buf, sendx, recvx, closed, waitq, lock, op, todo,
                       parking, selectDone, elem, ret>>
        /\ Observe
\* A goroutine parked in chansend or chanrecv runs again.
Awake(g) ==
    /\ pc[g] = "awake"
    /\ op[g].kind = "chan"
    /\ Goto(g, IF Case(g, 1).dir = "send" /\ ~success[g] /\ closed[Case(g, 1).c] = 0
               THEN "throw" ELSE "return")
    /\ Returns(g, Res(1, elem[g], success[g]))
    /\ param' = [param EXCEPT ![g] = 0]
    /\ UNCHANGED <<qcount, buf, sendx, recvx, closed, waitq, lock, op, todo,
                   parking, selectDone, elem, success, wake>>
    /\ Observe

Return(g) ==
    /\ pc[g] = "return"
    /\ Goto(g, "idle")
    /\ op' = [op EXCEPT ![g] = NoOp]
    /\ Returns(g, NoRes)
    /\ elem' = [elem EXCEPT ![g] = Zero]
    /\ success' = [success EXCEPT ![g] = FALSE]
    /\ UNCHANGED <<qcount, buf, sendx, recvx, closed, waitq, lock, todo,
                   parking, selectDone, param, wake>>
    /\ Observe

-----------------------------------------------------------------------------
(***************************************************************************)
(* closechan.                                                               *)
(***************************************************************************)

CloseLock(g) ==
    LET c == Case(g, 1).c
    IN  /\ pc[g] = "close"
        /\ lock[c] = Nil
        /\ Returns(g, Res(1, Zero, closed[c] = 0))
        /\ IF closed[c] = 1
           THEN Goto(g, "return") /\ UNCHANGED <<closed, lock>>
           ELSE /\ Goto(g, "closing")
                /\ closed' = [closed EXCEPT ![c] = 1]
                /\ lock' = [lock EXCEPT ![c] = g]
        /\ UNCHANGED <<qcount, buf, sendx, recvx, waitq, op, todo, parking,
                       selectDone, elem, param, success, wake>>
        /\ Observe

\* One waiter is taken off: it receives the zero value, or panics if it sends.
Release(g, e) ==
    /\ selectDone' = Signalled(e)
    /\ elem' = [elem EXCEPT ![e.g] = Zero]
    /\ param' = [param EXCEPT ![e.g] = e.casi]
    /\ success' = [success EXCEPT ![e.g] = FALSE]
    /\ wake' = [wake EXCEPT ![g] = <<Wakeup(e, FALSE)>> \o @]
    /\ UNCHANGED <<lock, pc>>

CloseEnds(g, c) ==
    /\ lock' = [lock EXCEPT ![c] = Nil]
    /\ Goto(g, IF wake[g] = <<>> THEN "return" ELSE "ready")
    /\ waitq' = [waitq EXCEPT !["recv"][c] = <<>>, !["send"][c] = <<>>]
    /\ UNCHANGED <<selectDone, elem, param, success, wake>>

\* Mutant: the writers are forgotten
CloseReleaseMutant(g) ==
    LET c == Case(g, 1).c
    IN  /\ pc[g] = "closing"
        /\ \/ /\ HasWaiter(recvq[c])
              /\ Release(g, Dequeued(recvq[c]))
              /\ waitq' = [waitq EXCEPT !["recv"][c] = Rest(@)]
           \/ /\ ~HasWaiter(recvq[c])
              /\ lock' = [lock EXCEPT ![c] = Nil]
              /\ Goto(g, IF wake[g] = <<>> THEN "return" ELSE "ready")
              /\ waitq' = [waitq EXCEPT !["recv"][c] = <<>>]
              /\ UNCHANGED <<selectDone, elem, param, success, wake>>
        /\ UNCHANGED <<qcount, buf, sendx, recvx, closed, op, todo, parking, ret>>
        /\ Observe
\* All readers, then all writers; then the lock is released, and only then are
\* they readied.
CloseRelease(g) ==
    LET c == Case(g, 1).c
    IN  /\ pc[g] = "closing"
        /\ \/ /\ HasWaiter(recvq[c])
              /\ Release(g, Dequeued(recvq[c]))
              /\ waitq' = [waitq EXCEPT !["recv"][c] = Rest(@)]
           \/ /\ ~HasWaiter(recvq[c]) /\ HasWaiter(sendq[c])
              /\ Release(g, Dequeued(sendq[c]))
              /\ waitq' = [waitq EXCEPT !["recv"][c] = <<>>, !["send"][c] = Rest(@)]
           \/ ~HasWaiter(recvq[c]) /\ ~HasWaiter(sendq[c]) /\ CloseEnds(g, c)
        /\ UNCHANGED <<qcount, buf, sendx, recvx, closed, op, todo, parking, ret>>
        /\ Observe

-----------------------------------------------------------------------------
(***************************************************************************)
(* selectgo.                                                                *)
(***************************************************************************)

\* Mutant: the channels are locked in the order of the cases
LockOrderMutant(o, S) == LET c == o.cases[1].c IN IF c \in S THEN c ELSE Lowest(S)
\* lockorder: of the channels in S the one with the lowest address comes first.
LockOrder(o, S) == Lowest(S)

\* sellock, one channel at a time, before pass 1 and again before pass 3.
SelLock(g) ==
    LET c == LockOrder(op[g], todo[g])
    IN  /\ pc[g] \in {"sellock", "relock"}
        /\ lock[c] = Nil
        /\ lock' = [lock EXCEPT ![c] = g]
        /\ todo' = [todo EXCEPT ![g] = @ \ {c}]
        /\ Goto(g, IF todo[g] # {c} THEN pc[g]
                   ELSE IF pc[g] = "sellock" THEN "pass1" ELSE "pass3")
        /\ UNCHANGED <<qcount, buf, sendx, recvx, closed, waitq, op, parking,
                       selectDone, elem, param, success, wake, ret>>
        /\ Observe

Unlocked(g) == [c \in ChanAddr |-> IF lock[c] = g THEN Nil ELSE lock[c]]

\* Pass 1 polls the cases in a random order until one is ready; if none is, g
\* gives up or goes on to queue itself everywhere.
SelectPass1(g) ==
    /\ pc[g] = "pass1"
    /\ \/ /\ \E i \in Cases(g), P \in SUBSET {j \in Cases(g) : ~Ready(Case(g, j))} :
                /\ Ready(Case(g, i))
                /\ Proceed(g, i, P)
          /\ lock' = Unlocked(g)
       \/ NoneReady(g) /\ GiveUp(g) /\ lock' = Unlocked(g)
       \/ /\ NoneReady(g)
          /\ op[g].block
          /\ waitq' = Polled(g, Cases(g))
          /\ Goto(g, "pass2")
          /\ UNCHANGED <<lock, selectDone, wake, elem, ret, qcount, buf, sendx, recvx, closed>>
    /\ UNCHANGED <<op, todo, parking, param, success>>
    /\ Observe

\* The cases of g without a sudog in their queue.
Unqueued(g) ==
    {i \in Cases(g) : Sudog(g, i) \notin Entries(waitq[Case(g, i).dir][Case(g, i).c])}

\* Pass 2 queues a sudog per case, in lock order; after the last g parks with the
\* locks held.
SelectPass2(g) ==
    /\ pc[g] = "pass2"
    /\ \E i \in Unqueued(g) :
          /\ Case(g, i).c = LockOrder(op[g], {Case(g, j).c : j \in Unqueued(g)})
          /\ waitq' = Enqueue(waitq, g, i)
          /\ IF Unqueued(g) = {i}
             THEN /\ Goto(g, "parked")
                  /\ param' = [param EXCEPT ![g] = 0]
                  /\ parking' = [parking EXCEPT ![g] = Channels(g)]
             ELSE UNCHANGED <<pc, param, parking>>
    /\ UNCHANGED <<qcount, buf, sendx, recvx, closed, lock, op, todo, selectDone, elem,
                   success, wake, ret>>
    /\ Observe

\* selparkcommit, run for the parked goroutine: as soon as a lock is free g may
\* be signalled through it and run while the other locks are still held for it.
ParkCommit(g) ==
    LET c == LockOrder(op[g], parking[g])
    IN  /\ parking[g] # {}
        /\ lock' = [lock EXCEPT ![c] = Nil]
        /\ parking' = [parking EXCEPT ![g] = @ \ {c}]
        /\ UNCHANGED <<qcount, buf, sendx, recvx, closed, waitq, pc, op, todo,
                       selectDone, elem, param, success, wake, ret>>
        /\ Observe

SelectAwake(g) ==
    /\ pc[g] = "awake"
    /\ op[g].kind = "select"
    /\ Goto(g, "relock")
    /\ todo' = [todo EXCEPT ![g] = Channels(g)]
    /\ UNCHANGED <<qcount, buf, sendx, recvx, closed, waitq, lock, op, parking,
                   selectDone, elem, param, success, wake, ret>>
    /\ Observe

\* The sudogs that g has in queues besides the one that was signalled.
Unsuccessful(g) == {i \in Cases(g) \ Unqueued(g) : i # param[g]}

\* Pass 3 takes the sudogs of the cases that were not chosen off their queues,
\* unless a dequeue has removed them already.  selectDone, which is looked at only
\* under a lock that g holds now, is reset with the last one.
SelectPass3(g) ==
    /\ pc[g] = "pass3"
    /\ \/ /\ \E i \in Unsuccessful(g) :
             LET dir == Case(g, i).dir
                 c == Case(g, i).c
             IN  \E k \in DOMAIN waitq[dir][c] :
                    /\ waitq[dir][c][k] = Sudog(g, i)
                    /\ waitq' = [waitq EXCEPT ![dir][c] = dequeueSudoG(@, k)]
          /\ UNCHANGED <<pc, selectDone, param, ret, lock>>
       \/ /\ Unsuccessful(g) = {}
          /\ selectDone' = [selectDone EXCEPT ![g] = 0]
          /\ param' = [param EXCEPT ![g] = 0]
          /\ Returns(g, Res(param[g], elem[g], success[g]))
          /\ Goto(g, IF param[g] = 0 THEN "throw" ELSE "return")
          /\ lock' = Unlocked(g)
          /\ UNCHANGED waitq
    /\ UNCHANGED <<qcount, buf, sendx, recvx, closed, op, todo, parking, elem, success, wake>>
    /\ Observe

-----------------------------------------------------------------------------
Init ==
    /\ qcount = [c \in ChanAddr |-> 0]
    /\ buf = [c \in ChanAddr |-> [k \in 0..Cap[c]-1 |-> Zero]]
    /\ sendx = [c \in ChanAddr |-> 0]
    /\ recvx = [c \in ChanAddr |-> 0]
    /\ closed = [c \in ChanAddr |-> 0]
    /\ waitq = [dir \in Dir |-> [c \in ChanAddr |-> <<>>]]
    /\ lock = [c \in ChanAddr |-> Nil]
    /\ pc = [g \in Goroutine |-> "idle"]
    /\ op = [g \in Goroutine |-> NoOp]
    /\ todo = [g \in Goroutine |-> {}]
    /\ parking = [g \in Goroutine |-> {}]
    /\ selectDone = [g \in Goroutine |-> 0]
    /\ elem = [g \in Goroutine |-> Zero]
    /\ param = [g \in Goroutine |-> 0]
    /\ success = [g \in Goroutine |-> FALSE]
    /\ wake = [g \in Goroutine |-> <<>>]
    /\ ret = [g \in Goroutine |-> NoRes]
    /\ missed = [g \in Goroutine |-> FALSE]
    /\ opened = [g \in Goroutine |-> FALSE]

\* Steps that wait for a lock, and the others of a call under way.
Locking(g) == ChanOp(g) \/ CloseLock(g) \/ SelLock(g)
Running(g) ==
    \/ FastSend(g)
    \/ FastRecv(g)
    \/ Goready(g)
    \/ Awake(g)
    \/ CloseRelease(g)
    \/ SelectPass1(g)
    \/ SelectPass2(g)
    \/ SelectAwake(g)
    \/ SelectPass3(g)
    \/ Return(g)

Next ==
    \E g \in Goroutine :
        \/ \E o \in Program[g] : Call(g, o)
        \/ Locking(g)
        \/ Running(g)
        \/ ParkCommit(g)

Spec == Init /\ [][Next]_vars

-----------------------------------------------------------------------------
(***************************************************************************)
(* Properties.                                                              *)
(***************************************************************************)

Label == {"idle", "fast", "full", "open", "again", "lock", "ready", "parked", "awake",
          "close", "closing", "sellock", "pass1", "pass2", "relock", "pass3", "return", "throw"}
ResultType == [casi : Int, v : Value \cup {Zero}, ok : BOOLEAN]
Sudogs == [g : Goroutine, casi : Nat]

\* The variables of chan.go and select.go keep their types; sendx and recvx stay
\* inside the ring.
TypeOK ==
    /\ \A c \in ChanAddr :
          /\ qcount[c] \in 0..Cap[c]
          /\ buf[c] \in [0..Cap[c]-1 -> Value \cup {Zero}]
          /\ Cap[c] > 0 => sendx[c] \in 0..Cap[c]-1 /\ recvx[c] \in 0..Cap[c]-1
    /\ DOMAIN buf = ChanAddr
    /\ qcount \in [ChanAddr -> Nat]
    /\ sendx \in [ChanAddr -> Nat]
    /\ recvx \in [ChanAddr -> Nat]
    /\ closed \in [ChanAddr -> {0, 1}]
    /\ waitq \in [Dir -> [ChanAddr -> Seq(Sudogs)]]
    /\ lock \in [ChanAddr -> Goroutine \cup {Nil}]
    /\ pc \in [Goroutine -> Label]
    /\ selectDone \in [Goroutine -> {0, 1}]
    /\ elem \in [Goroutine -> Value \cup {Zero}]
    /\ param \in [Goroutine -> Nat]
    /\ success \in [Goroutine -> BOOLEAN]
    /\ ret \in [Goroutine -> ResultType]
    /\ DOMAIN op = Goroutine
    /\ \A g \in Goroutine : op[g] \in Program[g] \cup {NoOp}
    /\ todo \in [Goroutine -> SUBSET ChanAddr]
    /\ parking \in [Goroutine -> SUBSET ChanAddr]
    /\ wake \in [Goroutine -> Seq([g : Goroutine, casi : Nat, ok : BOOLEAN])]
    /\ missed \in [Goroutine -> BOOLEAN]
    /\ opened \in [Goroutine -> BOOLEAN]

\* The ring holds qcount values from recvx to sendx and nothing else: recv(),
\* which moves both indices at once, keeps them in step, and slots that were
\* received from are cleared.
RingExact ==
    \A c \in ChanAddr : Cap[c] > 0 =>
        /\ sendx[c] = (recvx[c] + qcount[c]) % Cap[c]
        /\ \A k \in 0..Cap[c]-1 :
              (buf[c][(recvx[c] + k) % Cap[c]] # Zero) <=> (k < qcount[c])

\* Nobody waits for what is there: once a channel's lock is free, no waiter in
\* recvq that can still be signalled coexists with a value, a sender of another
\* goroutine or a closed channel, and none in sendq with room in the buffer.
NobodyWaitsInVain ==
    \A c \in ChanAddr : lock[c] = Nil =>
        /\ HasWaiter(recvq[c]) =>
              /\ closed[c] = 0
              /\ qcount[c] = 0
              /\ \A k \in LiveIn(recvq[c]), l \in LiveIn(sendq[c]) :
                    recvq[c][k].g = sendq[c][l].g
        /\ HasWaiter(sendq[c]) => closed[c] = 0 /\ qcount[c] = Cap[c]

\* A parked goroutine is woken once: the flag selectDone is set exactly while
\* one wakeup is owed to the selecting goroutine or has reached it, whatever
\* its other channels' owners do meanwhile, and a wakeup finds it parked.
WokenOnce ==
    \A g \in Goroutine :
        /\ \A v, w \in Goroutine : \A k \in DOMAIN wake[v], l \in DOMAIN wake[w] :
              wake[v][k].g = g /\ wake[w][l].g = g => v = w /\ k = l
        /\ Owed(g) # {} => pc[g] = "parked"
        /\ op[g] # NoOp /\ op[g].kind = "select" =>
              ((selectDone[g] = 1) <=> (Owed(g) # {} \/ pc[g] \in {"awake", "relock", "pass3"}))

\* Queues hold sudogs of waiting calls only: after pass 3 none of a select's
\* sudogs is left behind, none is there twice, and the signalled one is gone.
NoStaleSudog ==
    \A c \in ChanAddr : \A q \in {recvq[c], sendq[c]} :
        /\ \A k, l \in DOMAIN q : q[k] = q[l] => k = l
        /\ \A k \in DOMAIN q :
              LET g == q[k].g
              IN  /\ pc[g] \in {"pass2", "parked", "awake", "relock", "pass3"}
                  /\ Case(g, q[k].casi).c = c
                  /\ OutcomeOf(g).casi # q[k].casi

\* No goroutine is forgotten: one that is parked is in the queue of every case
\* of its call, or somebody owes it a wakeup.
NobodyForgotten ==
    \A g \in Goroutine : pc[g] = "parked" =>
        Owed(g) # {} \/ Unqueued(g) = {}

\* Locks taken one by one by selects that name the same channels in different
\* orders do not deadlock: no set of locked channels has all its holders waiting
\* for locks in the set.
NoLockCycle ==
    \A S \in SUBSET {c \in ChanAddr : lock[c] # Nil} : S # {} =>
        \E c \in S : \/ pc[lock[c]] \notin {"sellock", "relock"}
                    \/ c \in parking[lock[c]]
                    \/ LockOrder(op[lock[c]], todo[lock[c]]) \notin S

\* The throws of chansend ("spurious wakeup"), selectgo ("bad wakeup") and
\* goready are dead code.
NoThrow == \A g \in Goroutine : pc[g] # "throw"

\* Ring, queues and goroutines agree in every state: each waiter is in the queues
\* of its cases or has one wakeup on its way, and nothing outlives its call.
ChanInv ==
    /\ TypeOK
    /\ RingExact
    /\ WokenOnce
    /\ NoStaleSudog
    /\ NobodyForgotten
    /\ NoThrow

Defaulted(g) == pc[g] = "return" /\ ret[g].casi = 0
SendAlone(g) == op[g].kind = "chan" /\ Case(g, 1).dir = "send"

\* A call that returns through its default was blocked at some moment since it
\* began, although it read the two words of the channel at different moments
\* without the lock.  A send of this kind may instead have met a close that came
\* after it began, but never a channel that was closed before.
DefaultJustified ==
    \A g \in Goroutine : Defaulted(g) =>
        \/ missed[g]
        \/ SendAlone(g) /\ opened[g] /\ closed[Case(g, 1).c] = 1

\* What the comment in chansend says (chan.go:202-208): its two reads without the
\* lock imply a moment when the channel was not yet closed and not ready for sending.
SendDefaultMissed ==
    \A g \in Goroutine : Defaulted(g) /\ SendAlone(g) => missed[g]

\* selparkcommit never walks a list of sudogs that pass 3 has taken apart: the
\* goroutine, although it may run already, has not got past a lock that is
\* still to be released on its behalf.
ParkCommitSafe ==
    \A g \in Goroutine : parking[g] # {} =>
        /\ pc[g] \in {"parked", "awake", "relock"}
        /\ \A c \in parking[g] : lock[c] = g

\* The channel locks that a select takes and gives back one by one, before the
\* park, during it and after, neither deadlock nor let its sudogs be freed early.
LocksSafe ==
    /\ NoLockCycle
    /\ ParkCommitSafe

\* chan.go and select.go implement the channel of module Channel: FIFO order, no
\* value lost or duplicated, one case of a select, end of channel after the drain,
\* a call begins to wait only if none of its cases can proceed, and none that can
\* proceed all the time takes its default.
ImplementsChannel == Abstract!Spec
=============================================================================
