------------------------------- MODULE Channel -------------------------------
(***************************************************************************)
(* What a Go channel promises, without locks, queues of waiters or wakeups: *)
(* a bounded FIFO of values, a rendezvous when no buffer separates the two  *)
(* sides, and operations (send, receive, select, close) each of which takes *)
(* effect exactly once, through exactly one of its cases.  A call waits only *)
(* if no case can proceed, and one that may not wait takes its default only *)
(* if that was so at some moment since it began, or, a send alone, if the   *)
(* channel was closed under it.  Chan, the model of runtime/chan.go and     *)
(* runtime/select.go, implements it.                                        *)
(***************************************************************************)
EXTENDS Integers, Sequences

CONSTANTS Goroutine,
          ChanAddr,     \* the channels, by address
          Cap,          \* Cap[c]: dataqsiz of channel c
          Program,      \* Program[g]: the calls goroutine g may make
          NoOp,         \* no call in progress
          Zero          \* the zero value of the element type

VARIABLES queue,        \* queue[c]: the values in the channel, oldest first
          ended,        \* ended[c]: the channel was closed
          call,         \* call[g]: the call in progress or NoOp
          outcome,      \* outcome[g]: how it took effect, or Pending
          waiting,      \* the goroutines that others can meet
          stuck,        \* calls that are known to have been stuck at some moment
          opened        \* calls whose channels were all open at some moment

state == <<queue, ended, call, outcome>>
vars == <<queue, ended, call, outcome, waiting, stuck, opened>>

\* case 0 stands for none: the default case of a select, or a close.
Result(i, v, ok) == [casi |-> i, v |-> v, ok |-> ok]
Pending == Result(-1, Zero, FALSE)

Init ==
    /\ queue = [c \in ChanAddr |-> <<>>]
    /\ ended = [c \in ChanAddr |-> FALSE]
    /\ call = [g \in Goroutine |-> NoOp]
    /\ outcome = [g \in Goroutine |-> Pending]
    /\ waiting = {} /\ stuck = {} /\ opened = {}

Call(g, o) ==
    /\ call[g] = NoOp
    /\ call' = [call EXCEPT ![g] = o]
    /\ UNCHANGED <<queue, ended, outcome>>

\* Case i of g's call, a dir on c, is still to take effect.
Waits(g, i, dir, c) ==
    /\ call[g] # NoOp
    /\ outcome[g] = Pending
    /\ call[g].cases[i].dir = dir
    /\ call[g].cases[i].c = c

Cases(g) == IF call[g] = NoOp THEN {} ELSE DOMAIN call[g].cases

Effect(g, r) == outcome' = [outcome EXCEPT ![g] = r]

Send(g, i, c) ==
    /\ Waits(g, i, "send", c)
    /\ ~ended[c]
    /\ Len(queue[c]) < Cap[c]
    /\ queue' = [queue EXCEPT ![c] = Append(@, call[g].cases[i].v)]
    /\ Effect(g, Result(i, Zero, TRUE))
    /\ UNCHANGED <<ended, call>>

Receive(g, i, c) ==
    /\ Waits(g, i, "recv", c)
    /\ queue[c] # <<>>
    /\ queue' = [queue EXCEPT ![c] = Tail(@)]
    /\ Effect(g, Result(i, Head(queue[c]), TRUE))
    /\ UNCHANGED <<ended, call>>

\* A sender and a receiver meet: the value passes behind those in the queue.
Transfer(g, i, h, j, c) ==
    /\ g # h
    /\ Waits(g, i, "send", c)
    /\ Waits(h, j, "recv", c)
    /\ ~ended[c]
    /\ LET s == Append(queue[c], call[g].cases[i].v)
       IN  /\ queue' = [queue EXCEPT ![c] = Tail(s)]
           /\ outcome' = [outcome EXCEPT ![g] = Result(i, Zero, TRUE),
                                         ![h] = Result(j, Head(s), TRUE)]
    /\ UNCHANGED <<ended, call>>

\* On a closed channel a send fails, and a receive once the channel is drained.
Ended(g, i, dir, c) ==
    /\ Waits(g, i, dir, c)
    /\ ended[c]
    /\ dir = "recv" => queue[c] = <<>>
    /\ Effect(g, Result(i, Zero, FALSE))
    /\ UNCHANGED <<queue, ended, call>>

\* Closing a channel twice fails.
Close(g, i, c) ==
    /\ Waits(g, i, "close", c)
    /\ ended' = [ended EXCEPT ![c] = TRUE]
    /\ Effect(g, Result(i, Zero, ~ended[c]))
    /\ UNCHANGED <<queue, call>>

\* There is a value, room, the end of the channel, or somebody to meet.
CanProceed(k) ==
    \/ ended[k.c]
    \/ k.dir = "send" /\ Len(queue[k.c]) < Cap[k.c]
    \/ k.dir = "recv" /\ queue[k.c] # <<>>
    \/ \E h \in waiting : \E j \in Cases(h) :
          /\ call[h].cases[j].c = k.c
          /\ {k.dir, call[h].cases[j].dir} = {"send", "recv"}

Stuck(g) ==
    /\ call[g] # NoOp
    /\ \A i \in Cases(g) : ~CanProceed(call[g].cases[i])

Open(g) ==
    /\ call[g] # NoOp
    /\ \A i \in Cases(g) : ~ended[call[g].cases[i].c]

\* A send alone whose channel was open when it began and is not any more.
ClosedUnder(g) ==
    /\ call[g].kind = "chan"
    /\ call[g].cases[1].dir = "send"
    /\ g \in opened
    /\ ended[call[g].cases[1].c]

Default(g) ==
    /\ call[g] # NoOp
    /\ outcome[g] = Pending
    /\ ~call[g].block
    /\ g \in stuck \/ ClosedUnder(g)
    /\ Effect(g, Result(0, Zero, FALSE))
    /\ UNCHANGED <<queue, ended, call>>

\* g has tried all its cases.
Wait(g) ==
    /\ Stuck(g)
    /\ call[g].block
    /\ outcome[g] = Pending
    /\ waiting' = waiting \cup {g}
    /\ UNCHANGED state

Return(g) ==
    /\ outcome[g] # Pending
    /\ outcome' = [outcome EXCEPT ![g] = Pending]
    /\ call' = [call EXCEPT ![g] = NoOp]
    /\ UNCHANGED <<queue, ended>>

Step ==
    \E g \in Goroutine :
        \/ \E o \in Program[g] : Call(g, o)
        \/ Return(g)
        \/ Default(g)
        \/ \E i \in Cases(g) :
              LET c == call[g].cases[i].c
              IN  \/ Send(g, i, c)
                  \/ Receive(g, i, c)
                  \/ \E h \in Goroutine : \E j \in Cases(h) : Transfer(g, i, h, j, c)
                  \/ \E dir \in {"send", "recv"} : Ended(g, i, dir, c)
                  \/ Close(g, i, c)

\* What has been seen of a call while it lasts.
Witness ==
    /\ stuck' \in SUBSET {g \in Goroutine : call'[g] # NoOp /\ (g \in stuck \/ Stuck(g)')}
    /\ opened' \in SUBSET {g \in Goroutine : call'[g] # NoOp /\ (g \in opened \/ Open(g)')}

\* A step; those who were waiting wait on unless they were met.
Next ==
    /\ \/ (Step \/ UNCHANGED state) /\ waiting' = {h \in waiting : outcome'[h] = Pending}
       \/ \E g \in Goroutine : Wait(g)
    /\ Witness

Spec == Init /\ [][Next]_vars
=============================================================================
