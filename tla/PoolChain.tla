----------------------------- MODULE PoolChain -----------------------------
(***************************************************************************)
(* sync/poolqueue.go: poolDequeue, a lock-free ring buffer with one         *)
(* producer, which pushes and pops at the head, and any number of           *)
(* consumers, which pop at the tail; and poolChain, the list of ring        *)
(* buffers of growing size that sync.Pool keeps for each P.                 *)
(*                                                                         *)
(* One action is one access to memory that another process may access at   *)
(* the same time.  The 32-bit indices wrap at IndexMod.                     *)
(***************************************************************************)
EXTENDS Naturals, Sequences, FiniteSets

CONSTANTS Producer, Consumer,
          Item,         \* the values pushed
          NilItem,      \* the one of them that is interface{}(nil)
          DequeueNil,   \* dequeueNil(nil), which stands for it in a slot
          MaxElt,       \* bound on the number of poolChainElts allocated
          MaxPush,      \* bound on the number of calls of pushHead
          InitSize,     \* const initSize
          DequeueLimit, \* const dequeueLimit
          IndexMod      \* 1 << dequeueBits

ASSUME PoolAssumption ==
    /\ Producer \notin Consumer
    /\ {MaxElt, MaxPush, InitSize, DequeueLimit, IndexMod} \subseteq Nat \ {0}
    /\ InitSize <= DequeueLimit
    /\ 2 * DequeueLimit <= IndexMod         \* poolqueue.go:54-56
    \* All three are powers of 2: the size of a ring divides the range of the indices.
    /\ IndexMod % InitSize = 0 /\ IndexMod % DequeueLimit = 0
    /\ \A n \in 1..DequeueLimit :
          IndexMod % n = 0 /\ 2 * n < DequeueLimit => IndexMod % (2 * n) = 0
    /\ NilItem \in Item /\ DequeueNil \notin Item /\ 0 \notin Item \cup {DequeueNil}

Process == Consumer \cup {Producer}
NilPtr == 0                                 \* a nil pointer
Elt == 1..MaxElt                            \* poolChainElts in the order of allocation

VARIABLES chead, ctail,         \* c.head and c.tail
          headTail,             \* headTail[d] = <<head, tail>>
          typ, val,             \* the two words of the slots of d.vals
          next, prev,
          at,
          d, d2,                \* local variables of the process
          ptrs,                 \* the headTail it has loaded
          v,                    \* the value it pushes, or has popped
          pushes,               \* calls of pushHead so far
          due                   \* auxiliary: due[c] is <<n>> while c seeks a value, of
                                \* which the first n were there when its call began

chain == <<chead, ctail, next, prev>>
ring == <<headTail, typ, val>>
poolVars == <<chain, ring, at, d, d2, ptrs, v, pushes, due>>

ProducerPC == {"idle", "push", "pushTyp", "pushWrite", "pushAdd", "grow",
               "popHead", "popHeadCAS", "popHeadRead", "backUp"}
ConsumerPC == {"idle", "ctail", "next", "popTail", "popTailCAS", "popTailRead",
               "clearVal", "clearTyp", "drained", "clearPrev"}

Stored == (Item \ {NilItem}) \cup {DequeueNil, NilPtr}
Index == 0..(IndexMod - 1)

PoolTypeOK ==
    /\ chead \in Elt \cup {NilPtr} /\ ctail \in Elt \cup {NilPtr}
    /\ headTail \in [Elt -> Index \X Index]
    /\ \A e \in Elt : /\ Len(typ[e]) = Len(val[e])
                      /\ \A i \in 1..Len(typ[e]) : typ[e][i] \in BOOLEAN /\ val[e][i] \in Stored
    /\ next \in [Elt -> Elt \cup {NilPtr}] /\ prev \in [Elt -> Elt \cup {NilPtr}]
    /\ at[Producer] \in ProducerPC \cup {"none", "done"}
    /\ \A c \in Consumer : at[c] \in ConsumerPC \cup {"none", "done"}
    /\ {d, d2} \subseteq [Process -> Elt \cup {NilPtr}]
    /\ ptrs \in [Process -> Index \X Index]
    /\ v \in [Process -> Item \cup {NilPtr}]
    /\ pushes \in 0..MaxPush

PoolInit ==
    /\ chead = NilPtr /\ ctail = NilPtr
    /\ headTail = [e \in Elt |-> <<0, 0>>]
    /\ typ = [e \in Elt |-> <<>>]
    /\ val = [e \in Elt |-> <<>>]
    /\ next = [e \in Elt |-> NilPtr]
    /\ prev = [e \in Elt |-> NilPtr]
    /\ at = [p \in Process |-> "idle"]
    /\ d = [p \in Process |-> NilPtr]
    /\ d2 = [p \in Process |-> NilPtr]
    /\ ptrs = [p \in Process |-> <<0, 0>>]
    /\ v = [p \in Process |-> NilPtr]
    /\ pushes = 0
    /\ due = [c \in Consumer |-> <<>>]

GoesTo(p, l) == at' = [at EXCEPT ![p] = l]
Set(f, p, x) == [f EXCEPT ![p] = x]

\* The end of a call, with its result in v ("done") or without one ("none").
PoolReturn(p) ==
    /\ at[p] \in {"done", "none"}
    /\ GoesTo(p, "idle")
    /\ d' = Set(d, p, NilPtr)
    /\ d2' = Set(d2, p, NilPtr)
    /\ ptrs' = Set(ptrs, p, <<0, 0>>)
    /\ v' = Set(v, p, NilPtr)
    /\ UNCHANGED <<chain, ring, pushes, due>>

head(p) == ptrs[p][1]
tail(p) == ptrs[p][2]

Size(e) == Len(typ[e])

\* The load of headTail; what is loaded is used only if the step does not end the pop.
Loaded(p, used) == ptrs' = Set(ptrs, p, IF used THEN headTail[d[p]] ELSE <<0, 0>>)

\* index & (len(vals) - 1), counted from 1.
Slot(e, index) == (index % Size(e)) + 1

\* Mutant: interface{}(nil) is stored as it is.
BoxedNever(x) == x

\* The sentinel that tells a pushed nil from an empty slot, and back.
Boxed(x) == IF x = NilItem THEN DequeueNil ELSE x
Unboxed(x) == IF x = DequeueNil THEN NilItem ELSE x

\* How many values the ring of e holds.
Count(e) == (headTail[e][1] + IndexMod - headTail[e][2]) % IndexMod

Values(e) ==
    [k \in 1..Count(e) |-> Unboxed(val[e][Slot(e, headTail[e][2] + k - 1)])]

\* The values of e and the dequeues after it, oldest first, in at most n dequeues.
From[n \in Nat] ==
    [e \in Elt \cup {NilPtr} |->
        IF e = NilPtr \/ n = 0 THEN <<>> ELSE Values(e) \o From[n - 1][next[e]]]

Deque == From[MaxElt][ctail]

\* Auxiliary: what is due to the consumers once the last value, or the first one,
\* which c gets, has gone.
DueButLast ==
    [c \in Consumer |-> IF due[c] = <<Len(Deque)>> THEN <<Len(Deque) - 1>> ELSE due[c]]
DueButFirst(c) ==
    [b \in Consumer |->
        IF b = c THEN <<>>
        ELSE IF due[b] \in {<<>>, <<0>>} THEN due[b] ELSE <<due[b][1] - 1>>]

-----------------------------------------------------------------------------
(* poolDequeue.pushHead, by the producer only *)

\* poolChain.pushHead(x): the first push makes the first, empty, dequeue.
PushHead(x) ==
    /\ at[Producer] = "idle"
    /\ pushes < MaxPush
    /\ pushes' = pushes + 1
    /\ GoesTo(Producer, "push")
    /\ v' = Set(v, Producer, x)
    /\ IF chead # NilPtr
       THEN d' = Set(d, Producer, chead) /\ UNCHANGED <<chain, typ, val>>
       ELSE /\ d' = Set(d, Producer, 1)
            /\ chead' = 1 /\ ctail' = 1
            /\ typ' = Set(typ, 1, [i \in 1..InitSize |-> FALSE])
            /\ val' = Set(val, 1, [i \in 1..InitSize |-> NilPtr])
            /\ UNCHANGED <<next, prev>>
    /\ UNCHANGED <<headTail, d2, ptrs, due>>

IsFull(e, ht) == (ht[2] + Size(e)) % IndexMod = ht[1]

PushLoad ==
    LET p == Producer IN
    /\ at[p] = "push"
    /\ Loaded(p, ~IsFull(d[p], headTail[d[p]]))
    /\ GoesTo(p, IF IsFull(d[p], headTail[d[p]]) THEN "grow" ELSE "pushTyp")
    /\ UNCHANGED <<chain, ring, d, d2, v, pushes, due>>

\* Mutant: the slot is taken although a consumer has not left it.
IsReleasedAlways(e, index) == TRUE

\* Has popTail released the slot?
IsReleased(e, index) == ~typ[e][Slot(e, index)]

PushTyp ==
    LET p == Producer IN
    /\ at[p] = "pushTyp"
    /\ \/ IsReleased(d[p], head(p)) /\ GoesTo(p, "pushWrite") /\ UNCHANGED ptrs
       \/ ~IsReleased(d[p], head(p)) /\ GoesTo(p, "grow") /\ ptrs' = Set(ptrs, p, <<0, 0>>)
    /\ UNCHANGED <<chain, ring, d, d2, v, pushes, due>>

PushWrite ==
    LET p == Producer
        i == Slot(d[p], head(p))
    IN
    /\ at[p] = "pushWrite"
    /\ typ' = [typ EXCEPT ![d[p]][i] = Boxed(v[p]) # NilItem]
    /\ val' = [val EXCEPT ![d[p]][i] = Boxed(v[p])]
    /\ GoesTo(p, "pushAdd")
    /\ UNCHANGED <<chain, headTail, d, d2, ptrs, v, pushes, due>>

AddOne(index) == (index + 1) % IndexMod

\* headTail.Add(1 << dequeueBits): the carry out of the head is lost.  The push
\* is over; clearing the locals is the return from both pushHeads.
PushAdd ==
    LET p == Producer IN
    /\ at[p] = "pushAdd"
    /\ headTail' = [headTail EXCEPT ![d[p]][1] = AddOne(@)]
    /\ GoesTo(p, "idle")
    /\ d' = Set(d, p, NilPtr)
    /\ ptrs' = Set(ptrs, p, <<0, 0>>)
    /\ v' = Set(v, p, NilPtr)
    /\ UNCHANGED <<chain, typ, val, d2, pushes, due>>

\* poolChain.pushHead: the dequeue is full, or looks so; a new one of twice the
\* size is published by the store to d.next.
Grow ==
    LET p == Producer
        e == chead + 1
        newSize == IF 2 * Size(d[p]) >= DequeueLimit THEN DequeueLimit ELSE 2 * Size(d[p])
    IN
    /\ at[p] = "grow"
    /\ e \in Elt
    /\ prev' = Set(prev, e, d[p])
    /\ typ' = Set(typ, e, [i \in 1..newSize |-> FALSE])
    /\ val' = Set(val, e, [i \in 1..newSize |-> NilPtr])
    /\ chead' = e
    /\ next' = Set(next, d[p], e)
    /\ d' = Set(d, p, e)
    /\ GoesTo(p, "push")
    /\ UNCHANGED <<ctail, headTail, d2, ptrs, v, pushes, due>>

-----------------------------------------------------------------------------
(* popHead, by the producer only *)

PopHead ==
    /\ at[Producer] = "idle"
    /\ GoesTo(Producer, IF chead = NilPtr THEN "none" ELSE "popHead")
    /\ d' = Set(d, Producer, chead)
    /\ UNCHANGED <<chain, ring, d2, ptrs, v, pushes, due>>

\* Mutant: a single value is overlooked.
IsEmptyOrOne(ht) == ht[1] \in {ht[2], (ht[2] + 1) % IndexMod}

IsEmpty(ht) == ht[1] = ht[2]

PopHeadLoad ==
    LET p == Producer IN
    /\ at[p] = "popHead"
    /\ Loaded(p, ~IsEmpty(headTail[d[p]]))
    /\ GoesTo(p, IF IsEmpty(headTail[d[p]]) THEN "backUp" ELSE "popHeadCAS")
    /\ UNCHANGED <<chain, ring, d, d2, v, pushes, due>>

\* The compare of a compare-and-swap.
Confirmed(e, ht) == headTail[e] = ht

\* The swap takes the slot back, or the loop goes round again.
PopHeadCAS ==
    LET p == Producer
        h == (head(p) + IndexMod - 1) % IndexMod
    IN
    /\ at[p] = "popHeadCAS"
    /\ \/ /\ Confirmed(d[p], ptrs[p])
          /\ headTail' = Set(headTail, d[p], <<h, tail(p)>>)
          /\ ptrs' = Set(ptrs, p, <<h, 0>>)
          /\ GoesTo(p, "popHeadRead")
          /\ due' = DueButLast
       \/ /\ ~Confirmed(d[p], ptrs[p])
          /\ ptrs' = Set(ptrs, p, <<0, 0>>)
          /\ GoesTo(p, "popHead")
          /\ UNCHANGED <<headTail, due>>
    /\ UNCHANGED <<chain, typ, val, d, d2, v, pushes>>

\* Read and zero the slot, which nobody else touches.
PopHeadRead ==
    LET p == Producer
        i == Slot(d[p], head(p))
    IN
    /\ at[p] = "popHeadRead"
    /\ v' = Set(v, p, Unboxed(val[d[p]][i]))
    /\ typ' = [typ EXCEPT ![d[p]][i] = FALSE]
    /\ val' = [val EXCEPT ![d[p]][i] = NilPtr]
    /\ GoesTo(p, "done")
    /\ ptrs' = Set(ptrs, p, <<0, 0>>)
    /\ d' = Set(d, p, NilPtr)
    /\ UNCHANGED <<chain, headTail, d2, pushes, due>>

\* poolChain.popHead: this dequeue is empty, try the one before it.
BackUp ==
    LET p == Producer IN
    /\ at[p] = "backUp"
    /\ d' = Set(d, p, prev[d[p]])
    /\ GoesTo(p, IF prev[d[p]] = NilPtr THEN "none" ELSE "popHead")
    /\ UNCHANGED <<chain, ring, d2, ptrs, v, pushes, due>>

-----------------------------------------------------------------------------
(* popTail, by any number of consumers *)

PopTail(c) ==
    /\ at[c] = "idle"
    /\ GoesTo(c, IF ctail = NilPtr THEN "none" ELSE "next")
    /\ d' = Set(d, c, ctail)
    /\ due' = IF ctail = NilPtr THEN due ELSE Set(due, c, <<Len(Deque)>>)
    /\ UNCHANGED <<chain, ring, d2, ptrs, v, pushes>>

\* next is loaded before the pop: if the pop then fails, d stays empty.
NextLoad(c) ==
    /\ at[c] = "next"
    /\ d2' = Set(d2, c, next[d[c]])
    /\ GoesTo(c, "popTail")
    /\ UNCHANGED <<chain, ring, d, ptrs, v, pushes, due>>

PopTailLoad(c) ==
    /\ at[c] = "popTail"
    /\ Loaded(c, ~IsEmpty(headTail[d[c]]))
    /\ GoesTo(c, IF ~IsEmpty(headTail[d[c]]) THEN "popTailCAS"
                 ELSE IF d2[c] = NilPtr THEN "none" ELSE "drained")
    /\ due' = IF IsEmpty(headTail[d[c]]) /\ d2[c] = NilPtr THEN Set(due, c, <<>>) ELSE due
    /\ UNCHANGED <<chain, ring, d, d2, v, pushes>>

\* Mutant: a consumer that has lost its swap gives up.
PopTailCASOnce(c) ==
    /\ at[c] = "popTailCAS"
    /\ \/ /\ Confirmed(d[c], ptrs[c])
          /\ headTail' = Set(headTail, d[c], <<head(c), AddOne(tail(c))>>)
          /\ GoesTo(c, "popTailRead")
          /\ ptrs' = [ptrs EXCEPT ![c][1] = 0]
          /\ d2' = Set(d2, c, NilPtr)
          /\ due' = DueButFirst(c)
       \/ /\ ~Confirmed(d[c], ptrs[c])
          /\ GoesTo(c, "none")
          /\ ptrs' = Set(ptrs, c, <<0, 0>>)
          /\ due' = Set(due, c, <<>>)
          /\ UNCHANGED <<headTail, d2>>
    /\ UNCHANGED <<chain, typ, val, d, v, pushes>>

PopTailCAS(c) ==
    /\ at[c] = "popTailCAS"
    /\ \/ /\ Confirmed(d[c], ptrs[c])
          /\ headTail' = Set(headTail, d[c], <<head(c), AddOne(tail(c))>>)
          /\ GoesTo(c, "popTailRead")
          /\ ptrs' = [ptrs EXCEPT ![c][1] = 0]
          /\ d2' = Set(d2, c, NilPtr)
          /\ due' = DueButFirst(c)
       \/ /\ ~Confirmed(d[c], ptrs[c])
          /\ GoesTo(c, "popTail")
          /\ ptrs' = Set(ptrs, c, <<0, 0>>)
          /\ UNCHANGED <<headTail, d2, due>>
    /\ UNCHANGED <<chain, typ, val, d, v, pushes>>

PopTailRead(c) ==
    /\ at[c] = "popTailRead"
    /\ v' = Set(v, c, Unboxed(val[d[c]][Slot(d[c], tail(c))]))
    /\ GoesTo(c, "clearVal")
    /\ UNCHANGED <<chain, ring, d, d2, ptrs, pushes, due>>

\* slot.val = nil, and only then slot.typ = nil, which gives the slot back.
ClearVal(c) ==
    /\ at[c] = "clearVal"
    /\ val' = [val EXCEPT ![d[c]][Slot(d[c], tail(c))] = NilPtr]
    /\ GoesTo(c, "clearTyp")
    /\ UNCHANGED <<chain, headTail, typ, d, d2, ptrs, v, pushes, due>>

ClearTyp(c) ==
    /\ at[c] = "clearTyp"
    /\ typ' = [typ EXCEPT ![d[c]][Slot(d[c], tail(c))] = FALSE]
    /\ GoesTo(c, "done")
    /\ ptrs' = Set(ptrs, c, <<0, 0>>)
    /\ d' = Set(d, c, NilPtr)
    /\ UNCHANGED <<chain, headTail, val, d2, v, pushes, due>>

\* poolChain.popTail: d is drained; the one that moves c.tail past it cuts it off.
Drained(c) ==
    /\ at[c] = "drained"
    /\ \/ ctail = d[c] /\ ctail' = d2[c] /\ GoesTo(c, "clearPrev") /\ UNCHANGED d
       \/ ctail # d[c] /\ d' = Set(d, c, d2[c]) /\ GoesTo(c, "next") /\ UNCHANGED ctail
    /\ UNCHANGED <<chead, next, prev, ring, d2, ptrs, v, pushes, due>>

ClearPrev(c) ==
    /\ at[c] = "clearPrev"
    /\ prev' = Set(prev, d2[c], NilPtr)
    /\ d' = Set(d, c, d2[c])
    /\ GoesTo(c, "next")
    /\ UNCHANGED <<chead, ctail, next, ring, d2, ptrs, v, pushes, due>>

-----------------------------------------------------------------------------
ProducerStep ==
    \/ PushLoad \/ PushTyp \/ PushWrite \/ PushAdd \/ Grow
    \/ PopHeadLoad \/ PopHeadCAS \/ PopHeadRead \/ BackUp

ConsumerStep(c) ==
    \/ NextLoad(c) \/ PopTailLoad(c) \/ PopTailCAS(c) \/ PopTailRead(c)
    \/ ClearVal(c) \/ ClearTyp(c) \/ Drained(c) \/ ClearPrev(c)

PoolNext ==
    \/ \E x \in Item : PushHead(x)
    \/ PopHead
    \/ ProducerStep
    \/ \E c \in Consumer : PopTail(c) \/ ConsumerStep(c)
    \/ \E p \in Process : PoolReturn(p)

PoolSpec == PoolInit /\ [][PoolNext]_poolVars

-----------------------------------------------------------------------------
(* Properties *)

InRange(e) == {Slot(e, headTail[e][2] + k) : k \in 0..(Count(e) - 1)}

\* The processes that are between taking a slot out of the range and giving it
\* back, or between testing it and putting it into the range, with that slot.
Owner(e, i) ==
    {p \in Process :
        /\ d[p] = e
        /\ \/ at[p] \in {"pushWrite", "pushAdd", "popHeadRead"} /\ Slot(e, head(p)) = i
           \/ at[p] \in {"popTailRead", "clearVal", "clearTyp"} /\ Slot(e, tail(p)) = i}

\* The ownership rule of poolqueue.go:28-31: a slot is in the range, or one
\* process owns it, or it is free; nobody writes a slot that another one still
\* reads, and a value is held in no other slot (poolqueue.go:16-18: "it nils
\* out unused slots to avoid unnecessary retention").  Also after the indices
\* have wrapped the head is at most the ring's length in front of the tail.
SlotsExact ==
    \A e \in Elt : Count(e) <= Size(e) /\ \A i \in 1..Size(e) :
        /\ Cardinality(Owner(e, i)) + (IF i \in InRange(e) THEN 1 ELSE 0) <= 1
        /\ i \in InRange(e) => typ[e][i] /\ val[e][i] # NilPtr
        /\ typ[e][i] \/ val[e][i] # NilPtr => i \in InRange(e) \/ Owner(e, i) # {}

\* Indices and slots of every ring agree in every state, the indices wrapped or not.
PoolInv ==
    /\ PoolTypeOK
    /\ SlotsExact

\* A dequeue that c.tail has passed is empty for good and is not the one pushed
\* to (poolqueue.go:272-277), so that nothing is lost with it.
DroppedIsEmpty ==
    /\ \A e \in Elt : ctail # NilPtr /\ e < ctail => e # chead /\ Count(e) = 0
    /\ \A c \in Consumer : at[c] \in {"drained", "clearPrev"} => Count(d[c]) = 0

-----------------------------------------------------------------------------
(* Refinement: a deque with stealing. *)

\* A process that has won its swap has its result, although it reads it later.
AbsResult ==
    [p \in Process |->
        CASE at[p] = "none" -> <<"none">>
          [] at[p] \in {"clearVal", "clearTyp", "done"} -> <<v[p]>>
          [] at[p] = "popHeadRead" -> <<Unboxed(val[d[p]][Slot(d[p], head(p))])>>
          [] at[p] = "popTailRead" -> <<Unboxed(val[d[p]][Slot(d[p], tail(p))])>>
          [] OTHER -> <<>>]

\* pushHead's argument until it is published.
AbsArg ==
    IF at[Producer] \in {"push", "pushTyp", "pushWrite", "pushAdd", "grow"}
    THEN <<v[Producer]>> ELSE <<>>

Abs == INSTANCE WorkDeque WITH deque <- Deque, result <- AbsResult, arg <- AbsArg

\* Every pop returns what pushHead was called with, once and in order; popHead is
\* told "none" only of an empty chain, and popTail only if every value that was
\* there when it was called has gone, whatever the interleaving.
ImplementsDeque == Abs!Spec
=============================================================================
