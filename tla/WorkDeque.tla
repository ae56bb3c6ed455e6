----------------------------- MODULE WorkDeque -----------------------------
(***************************************************************************)
(* What sync.Pool expects of a poolChain: one deque per P whose owner       *)
(* pushes and pops at the head while others steal from the tail.  Nothing   *)
(* is lost, duplicated or reordered.  The owner is told that the deque is    *)
(* empty only when it is; a stealer only when everything that was there as   *)
(* its call began has gone, although newer values may have come.             *)
(* PoolChain implements this specification.                                 *)
(***************************************************************************)
EXTENDS Naturals, Sequences

CONSTANTS Producer, Consumer, Item

VARIABLES deque,        \* oldest first
          result,       \* result[p]: what p's call has found: <<>>, <<item>> or <<"none">>
          arg,          \* what the owner is pushing: <<>> or <<item>>
          due           \* due[c]: <<>>, or <<n>> while c seeks a value: the first n were
                        \* there when its call began

vars == <<deque, result, arg, due>>

Process == Consumer \cup {Producer}

Init ==
    /\ deque = <<>>
    /\ result = [p \in Process |-> <<>>]
    /\ arg = <<>>
    /\ due = [c \in Consumer |-> <<>>]

PushHead(x) ==
    /\ arg = <<>>
    /\ result[Producer] = <<>>
    /\ arg' = <<x>>
    /\ UNCHANGED <<deque, result, due>>

\* The value that pushHead was called with becomes visible.
Push ==
    /\ arg # <<>>
    /\ deque' = Append(deque, arg[1])
    /\ arg' = <<>>
    /\ UNCHANGED <<result, due>>

Found(p, r) ==
    /\ result[p] = <<>>
    /\ result' = [result EXCEPT ![p] = r]

PopHead ==
    /\ arg = <<>>
    /\ \/ /\ deque # <<>>
          /\ Found(Producer, <<deque[Len(deque)]>>)
          /\ deque' = SubSeq(deque, 1, Len(deque) - 1)
          /\ due' = [c \in Consumer |->
                        IF due[c] = <<Len(deque)>> THEN <<Len(deque) - 1>> ELSE due[c]]
       \/ /\ deque = <<>>
          /\ Found(Producer, <<"none">>)
          /\ UNCHANGED <<deque, due>>
    /\ UNCHANGED arg

\* c begins to seek, unless there is nothing.
Seek(c) ==
    /\ due[c] = <<>> /\ result[c] = <<>>
    /\ \/ due' = [due EXCEPT ![c] = <<Len(deque)>>] /\ UNCHANGED result
       \/ deque = <<>> /\ Found(c, <<"none">>) /\ UNCHANGED due
    /\ UNCHANGED <<deque, arg>>

PopTail(c) ==
    /\ due[c] # <<>>
    /\ \/ /\ deque # <<>>
          /\ Found(c, <<Head(deque)>>)
          /\ deque' = Tail(deque)
          /\ due' = [b \in Consumer |->
                        IF b = c THEN <<>>
                        ELSE IF due[b] \in {<<>>, <<0>>} THEN due[b] ELSE <<due[b][1] - 1>>]
       \/ /\ due[c] = <<0>>
          /\ Found(c, <<"none">>)
          /\ due' = [due EXCEPT ![c] = <<>>]
          /\ UNCHANGED deque
    /\ UNCHANGED arg

Return(p) ==
    /\ result[p] # <<>>
    /\ result' = [result EXCEPT ![p] = <<>>]
    /\ UNCHANGED <<deque, arg, due>>

Next ==
    \/ \E x \in Item : PushHead(x)
    \/ Push
    \/ PopHead
    \/ \E c \in Consumer : Seek(c) \/ PopTail(c)
    \/ \E p \in Process : Return(p)

Spec == Init /\ [][Next]_vars
=============================================================================
