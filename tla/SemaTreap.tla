------------------------------ MODULE SemaTreap ------------------------------
(***************************************************************************)
(* runtime/sema.go: the waiters of one semaRoot, semaRoot.queue and         *)
(* semaRoot.dequeue with their rotations, pointer by pointer.  Sudogs that  *)
(* wait for different addresses form a treap (a search tree on the address, *)
(* a heap on the random ticket); those that wait for one address hang from  *)
(* its node by waitlink, with the last one at waittail.                     *)
(*                                                                         *)
(* root.lock is held through each call, so the steps of a call (one step    *)
(* down the tree, one rotation, one splice) never interleave with those of  *)
(* another one.  What can go wrong is a long history of calls: every sudog  *)
(* keeps its fields between uses.  Acquire times, which only serve the      *)
(* mutex profile, are left out.                                             *)
(***************************************************************************)
EXTENDS Naturals, Sequences, FiniteSets, SequencesExt

CONSTANTS Sudog, Nil,
          Addr,         \* addresses that hash to this root: a set of numbers
          Ticket,       \* values of cheaprand() | 1
          MaxWaiters    \* the largest uint16

ASSUME TreapAssumption ==
    /\ Nil \notin Sudog /\ IsFiniteSet(Sudog)
    /\ Addr \subseteq Nat \ {0}
    /\ Ticket \subseteq Nat \ {0}
    /\ MaxWaiters \in Nat \ {0}

VARIABLES root,                 \* root.treap
          elem, ticket,         \* fields of each sudog; elem is 0 for nil
          parent, prev, next,
          waitlink, waittail, waiters,
          waiting,              \* the sudogs s with s.g.waiting = s
          at,                   \* where the call in progress is
          call,                 \* its arguments: <<addr, s, lifo>>, <<addr>> or <<>>
          s, last,              \* the node looked at, and the one before it
          found                 \* the result of the last dequeue

node == <<elem, ticket, parent, prev, next, waitlink, waittail, waiters>>
treapVars == <<root, node, waiting, at, call, s, last, found>>

Pointer == Sudog \cup {Nil}

TreapTypes ==
    /\ root \in Pointer
    /\ elem \in [Sudog -> Addr \cup {0}]
    /\ ticket \in [Sudog -> Ticket \cup {0}]
    /\ {parent, prev, next, waitlink, waittail} \subseteq [Sudog -> Pointer]
    /\ waiters \in [Sudog -> 0..MaxWaiters]
    /\ waiting \subseteq Sudog
    /\ at \in {"idle", "search", "up", "down"}
    /\ call \in {<<>>} \cup (Addr \X Sudog \X BOOLEAN) \cup {<<a>> : a \in Addr}
    /\ s \in Pointer /\ last \in Pointer /\ found \in Pointer

TreapInit ==
    /\ root = Nil
    /\ elem = [n \in Sudog |-> 0]
    /\ ticket = [n \in Sudog |-> 0]
    /\ parent = [n \in Sudog |-> Nil]
    /\ prev = [n \in Sudog |-> Nil]
    /\ next = [n \in Sudog |-> Nil]
    /\ waitlink = [n \in Sudog |-> Nil]
    /\ waittail = [n \in Sudog |-> Nil]
    /\ waiters = [n \in Sudog |-> 0]
    /\ waiting = {}
    /\ at = "idle"
    /\ call = <<>>
    /\ s = Nil /\ last = Nil /\ found = Nil

\* if n != nil { n.field = v }
Put(field, n, v) == IF n = Nil THEN field ELSE [field EXCEPT ![n] = v]

addr == call[1]
new == call[2]
lifo == call[3]
queueing == Len(call) = 3

Returns ==
    /\ at' = "idle"
    /\ call' = <<>>
    /\ s' = Nil
    /\ last' = Nil

-----------------------------------------------------------------------------
(* The search loop that queue and dequeue share.  The pointer pt (ps) to the
   link that was followed is root.treap at the start, then last.prev or
   last.next. *)

\* queue(addr, n, l): a sudog that is in no list, with the ticket cleared by
\* semacquire1, whatever the rest of it holds.
Queue(n, a, l) ==
    /\ at = "idle"
    /\ n \notin waiting
    /\ at' = "search"
    /\ call' = <<a, n, l>>
    /\ elem' = [elem EXCEPT ![n] = a]
    /\ ticket' = [ticket EXCEPT ![n] = 0]
    /\ waiting' = waiting \cup {n}
    /\ next' = [next EXCEPT ![n] = Nil]
    /\ prev' = [prev EXCEPT ![n] = Nil]
    /\ waiters' = [waiters EXCEPT ![n] = 0]
    /\ s' = root
    /\ found' = Nil
    /\ UNCHANGED <<root, parent, waitlink, waittail, last>>

Dequeue(a) ==
    /\ at = "idle"
    /\ at' = "search"
    /\ call' = <<a>>
    /\ s' = root
    /\ found' = Nil
    /\ UNCHANGED <<root, node, waiting, last>>

GoesLeft(n) == addr < elem[n]

Search ==
    /\ at = "search"
    /\ s # Nil /\ elem[s] # addr
    /\ last' = s
    /\ s' = IF GoesLeft(s) THEN prev[s] ELSE next[s]
    /\ UNCHANGED <<root, node, waiting, at, call, found>>

\* *pt = n, where f is prev or next after what the step has already assigned.
LinkRoot(n) == IF last = Nil THEN n ELSE root
LinkPrev(f, n) == IF last # Nil /\ GoesLeft(last) THEN [f EXCEPT ![last] = n] ELSE f
LinkNext(f, n) == IF last # Nil /\ ~GoesLeft(last) THEN [f EXCEPT ![last] = n] ELSE f

-----------------------------------------------------------------------------
(* queue *)

\* if w+1 != 0 { w++ }
Clamped(w) == IF w = MaxWaiters THEN w ELSE w + 1

\* Mutant: the new head keeps its own, empty, tail.
TailOfNewHeadLost(t) == waittail[t]

\* The tail of the list whose head is put in front of t.
TailOfNewHead(t) == IF waittail[t] = Nil THEN t ELSE waittail[t]

\* addr is in the tree and lifo: new takes the place of s, and s comes first
\* in its wait list.
QueueFirst ==
    /\ at = "search" /\ queueing
    /\ s # Nil /\ elem[s] = addr
    /\ lifo
    /\ root' = LinkRoot(new)
    /\ ticket' = [ticket EXCEPT ![new] = ticket[s]]
    /\ parent' = Put(Put([parent EXCEPT ![new] = parent[s], ![s] = Nil],
                         prev[s], new), next[s], new)
    /\ prev' = [LinkPrev(prev, new) EXCEPT ![new] = prev[s], ![s] = Nil]
    /\ next' = [LinkNext(next, new) EXCEPT ![new] = next[s], ![s] = Nil]
    /\ waitlink' = [waitlink EXCEPT ![new] = s]
    /\ waittail' = [waittail EXCEPT ![new] = TailOfNewHead(s), ![s] = Nil]
    /\ waiters' = [waiters EXCEPT ![new] = Clamped(waiters[s])]
    /\ Returns
    /\ UNCHANGED <<elem, waiting, found>>

\* addr is in the tree and not lifo: new goes to the end of the list of s.
QueueLast ==
    /\ at = "search" /\ queueing
    /\ s # Nil /\ elem[s] = addr
    /\ ~lifo
    /\ LET end == IF waittail[s] = Nil THEN s ELSE waittail[s]
       IN  waitlink' = [waitlink EXCEPT ![end] = new, ![new] = Nil]
    /\ waittail' = [waittail EXCEPT ![s] = new]
    /\ waiters' = [waiters EXCEPT ![s] = Clamped(@)]
    /\ Returns
    /\ UNCHANGED <<root, elem, ticket, parent, prev, next, waiting, found>>

\* addr is not in the tree: new is a leaf with a random ticket, to be rotated up.
QueueLeaf ==
    /\ at = "search" /\ queueing
    /\ s = Nil
    /\ \E r \in Ticket : ticket' = [ticket EXCEPT ![new] = r]
    /\ parent' = [parent EXCEPT ![new] = last]
    /\ root' = LinkRoot(new)
    /\ prev' = LinkPrev(prev, new)
    /\ next' = LinkNext(next, new)
    /\ at' = "up"
    /\ s' = new
    /\ UNCHANGED <<elem, waitlink, waittail, waiters, waiting, call, last, found>>

-----------------------------------------------------------------------------
(* Rotations *)

\* Mutant: the grandparent's link is not redirected.
SwungForgotten(side, f, p, x, y) == f

\* The link of p to x, on the side that f describes, is made to point to y.
Swung(side, f, p, x, y) == IF side THEN [f EXCEPT ![p] = y] ELSE f

\* Mutant: the node that goes down keeps its link to the one that goes up.
AdoptedNever(b, y) == y

\* The child that moves from y to the node that goes down.
Adopted(b, y) == b

OnLeft(p, x) == p # Nil /\ prev[p] = x

\* throw("semaRoot rotateLeft") and throw("semaRoot rotateRight")
Throws(x) == parent[x] # Nil /\ prev[parent[x]] # x /\ next[parent[x]] # x

\* (x a (y b c)) becomes (y (x a b) c).
rotateLeft(x) ==
    LET p == parent[x]
        y == next[x]
        b == prev[y]
    IN  /\ ~Throws(x)
        /\ prev' = Swung(OnLeft(p, x), [prev EXCEPT ![y] = x], p, x, y)
        /\ next' = Swung(p # Nil /\ ~OnLeft(p, x), [next EXCEPT ![x] = Adopted(b, y)], p, x, y)
        /\ parent' = Put([parent EXCEPT ![x] = y, ![y] = p], b, x)
        /\ root' = IF p = Nil THEN y ELSE root

\* (y (x a b) c) becomes (x a (y b c)).
rotateRight(y) ==
    LET p == parent[y]
        x == prev[y]
        b == next[x]
    IN  /\ ~Throws(y)
        /\ next' = Swung(p # Nil /\ ~OnLeft(p, y), [next EXCEPT ![x] = y], p, y, x)
        /\ prev' = Swung(OnLeft(p, y), [prev EXCEPT ![y] = Adopted(b, x)], p, y, x)
        /\ parent' = Put([parent EXCEPT ![y] = x, ![x] = p], b, y)
        /\ root' = IF p = Nil THEN x ELSE root

TooLow(n) == parent[n] # Nil /\ ticket[parent[n]] > ticket[n]

RotateUp ==
    /\ at = "up"
    /\ TooLow(s)
    /\ IF prev[parent[s]] = s THEN rotateRight(parent[s]) ELSE rotateLeft(parent[s])
    /\ UNCHANGED <<elem, ticket, waitlink, waittail, waiters, waiting, at, call, s, last, found>>

QueueDone ==
    /\ at = "up"
    /\ ~TooLow(s)
    /\ Returns
    /\ UNCHANGED <<root, node, waiting, found>>

-----------------------------------------------------------------------------
(* dequeue *)

DequeueNone ==
    /\ at = "search" /\ ~queueing
    /\ s = Nil
    /\ Returns
    /\ UNCHANGED <<root, node, waiting, found>>

\* The tail of the list that t heads once s is gone.
TailOfNext(t) == IF waitlink[t] # Nil THEN waittail[s] ELSE Nil

\* Others wait for addr: the next of them takes the place of s in the tree.
DequeueHead ==
    /\ at = "search" /\ ~queueing
    /\ s # Nil /\ elem[s] = addr
    /\ waitlink[s] # Nil
    /\ LET t == waitlink[s]
       IN  /\ root' = LinkRoot(t)
           /\ ticket' = [ticket EXCEPT ![t] = ticket[s], ![s] = 0]
           /\ parent' = Put(Put([parent EXCEPT ![t] = parent[s], ![s] = Nil],
                                prev[s], t), next[s], t)
           /\ prev' = [LinkPrev(prev, t) EXCEPT ![t] = prev[s], ![s] = Nil]
           /\ next' = [LinkNext(next, t) EXCEPT ![t] = next[s], ![s] = Nil]
           /\ waittail' = [waittail EXCEPT ![t] = TailOfNext(t), ![s] = Nil]
           /\ waiters' = [waiters EXCEPT ![t] = IF waiters[s] > 1 THEN waiters[s] - 1
                                                                 ELSE waiters[s]]
    /\ waitlink' = [waitlink EXCEPT ![s] = Nil]
    /\ elem' = [elem EXCEPT ![s] = 0]
    /\ waiting' = waiting \ {s}
    /\ found' = s
    /\ Returns

\* s is alone: it is rotated down until it is a leaf.
DequeueAlone ==
    /\ at = "search" /\ ~queueing
    /\ s # Nil /\ elem[s] = addr
    /\ waitlink[s] = Nil
    /\ at' = "down"
    /\ UNCHANGED <<root, node, waiting, call, s, last, found>>

LeftIsSmaller(n) ==
    next[n] = Nil \/ (prev[n] # Nil /\ ticket[prev[n]] < ticket[next[n]])

RotateDown ==
    /\ at = "down"
    /\ next[s] # Nil \/ prev[s] # Nil
    /\ IF LeftIsSmaller(s) THEN rotateRight(s) ELSE rotateLeft(s)
    /\ UNCHANGED <<elem, ticket, waitlink, waittail, waiters, waiting, at, call, s, last, found>>

\* Now a leaf, s is cut off.
RemoveLeaf ==
    /\ at = "down"
    /\ next[s] = Nil /\ prev[s] = Nil
    /\ LET p == parent[s]
       IN  /\ prev' = IF OnLeft(p, s) THEN [prev EXCEPT ![p] = Nil] ELSE prev
           /\ next' = IF p # Nil /\ ~OnLeft(p, s) THEN [next EXCEPT ![p] = Nil] ELSE next
           /\ root' = IF p = Nil THEN Nil ELSE root
    /\ parent' = [parent EXCEPT ![s] = Nil]
    /\ elem' = [elem EXCEPT ![s] = 0]
    /\ ticket' = [ticket EXCEPT ![s] = 0]
    /\ waiting' = waiting \ {s}
    /\ found' = s
    /\ Returns
    /\ UNCHANGED <<waitlink, waittail, waiters>>

-----------------------------------------------------------------------------
Step ==
    \/ Search \/ QueueFirst \/ QueueLast \/ QueueLeaf \/ RotateUp \/ QueueDone
    \/ DequeueNone \/ DequeueHead \/ DequeueAlone \/ RotateDown \/ RemoveLeaf

TreapNext ==
    \/ \E a \in Addr : Dequeue(a) \/ \E n \in Sudog, l \in BOOLEAN : Queue(n, a, l)
    \/ Step

TreapSpec == TreapInit /\ [][TreapNext]_treapVars

-----------------------------------------------------------------------------
(* What the pointers represent *)

\* The nodes at depth at most d below each node.
Below[d \in Nat] ==
    [n \in Pointer |->
        IF n = Nil THEN {}
        ELSE IF d = 0 THEN {n} ELSE {n} \cup Below[d - 1][prev[n]] \cup Below[d - 1][next[n]]]

Subtree(n) == Below[Cardinality(Sudog)][n]
Tree == Subtree(root)

\* The wait list that starts at a node, cut after one element more than it can have.
Chain[d \in Nat] ==
    [n \in Pointer |->
        IF n = Nil \/ d = 0 THEN <<>> ELSE <<n>> \o Chain[d - 1][waitlink[n]]]

WaitList(n) == Chain[Cardinality(Sudog) + 1][n]

-----------------------------------------------------------------------------
(* Properties *)

\* The tree is a search tree on addresses after every step, rotations and
\* splices included, so that a search finds each address (sema.go:351-354).
SearchTree ==
    \A n \in Tree : /\ \A m \in Subtree(prev[n]) : elem[m] < elem[n]
                    /\ \A m \in Subtree(next[n]) : elem[m] > elem[n]

\* Between calls "s.ticket <= both s.prev.ticket and s.next.ticket"
\* (sema.go:356): the rotations up and down restore the heap, which keeps the
\* tree balanced.
HeapOrder ==
    at = "idle" => \A n \in Tree : \A m \in {prev[n], next[n]} \ {Nil} : ticket[n] <= ticket[m]

\* The pointers agree with each other.  Parents are the inverse of children,
\* hence panic("semaRoot queue") and the throws of the rotations are
\* unreachable; a list ends where its head's waittail says, and what is not the
\* head of a list is not linked into the tree.
LinksExact ==
    /\ \A n \in Tree : /\ n = root <=> parent[n] = Nil
                       /\ \A m \in {prev[n], next[n]} \ {Nil} : parent[m] = n
                       /\ waittail[n] = IF waitlink[n] = Nil THEN Nil ELSE Last(WaitList(n))
    /\ \A n \in Sudog \ Tree : {parent[n], prev[n], next[n], waittail[n]} = {Nil}

\* A sudog that is in no list has all of its pointers cleared, so that
\* releaseSudog (proc.go:526-541) does not throw and the next use of the sudog,
\* for a semaphore or a channel, does not start with what this one left behind.
SudogClean ==
    \A n \in Sudog \ waiting :
        /\ elem[n] = 0
        /\ {parent[n], prev[n], next[n], waitlink[n], waittail[n]} = {Nil}

\* The treap of sema.go is well formed after every step of queue and dequeue, and
\* no sudog leaves it with a link.
TreapInv ==
    /\ TreapTypes
    /\ SearchTree
    /\ HeapOrder
    /\ LinksExact
    /\ SudogClean

\* The loops of queue and dequeue end, with root.lock held and no preemption:
\* a search goes down into a subtree of the one it was in, a rotation up takes
\* the new node out of its parent's subtree, a rotation down shrinks its own.
LoopsEnd ==
    [][/\ at = "search" /\ at' = "search" =>
             Cardinality(Subtree(s)') < Cardinality(Subtree(s))
       /\ at = "up" /\ at' = "up" =>
             Cardinality(Subtree(s)') > Cardinality(Subtree(s))
       /\ at = "down" /\ at' = "down" =>
             Cardinality(Subtree(s)') < Cardinality(Subtree(s))]_treapVars

-----------------------------------------------------------------------------
(* Refinement: the treap is the list of waiters per address of module Sema. *)

AbsList ==
    [a \in Addr |->
        LET heads == {n \in Tree : elem[n] = a}
        IN  IF heads = {} THEN <<>> ELSE WaitList(CHOOSE n \in heads : TRUE)]

\* A queued sudog is in its list before it is rotated to its place.
Abs == INSTANCE WaitLists WITH
           list <- AbsList, call <- IF at = "up" THEN <<>> ELSE call

\* Every call has the effect and the result it would have on the plain lists,
\* whatever the tickets and however the tree was rotated.
ImplementsWaitLists == Abs!Spec
=============================================================================
