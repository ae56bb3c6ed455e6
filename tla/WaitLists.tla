----------------------------- MODULE WaitLists -----------------------------
(***************************************************************************)
(* What module Sema assumes of the waiters under one semaRoot: a list of    *)
(* sudogs per address, to which queue adds at either end and from which     *)
(* dequeue takes the head.  SemaTreap implements this specification.        *)
(***************************************************************************)
EXTENDS Naturals, Sequences

CONSTANTS Sudog, Addr, Nil

VARIABLES list,         \* list[a]: the sudogs that wait for address a, head first
          call,         \* the call in progress, <<>> if there is none
          found         \* what the last dequeue returned: a sudog or Nil

vars == <<list, call, found>>

Enqueued(q, s, lifo) == IF lifo THEN <<s>> \o q ELSE Append(q, s)

Waiting == UNION {{list[a][i] : i \in DOMAIN list[a]} : a \in Addr}

Init ==
    /\ list = [a \in Addr |-> <<>>]
    /\ call = <<>>
    /\ found = Nil

Call ==
    /\ call = <<>>
    /\ \E a \in Addr :
          \/ \E s \in Sudog \ Waiting, lifo \in BOOLEAN : call' = <<a, s, lifo>>
          \/ call' = <<a>>
    /\ found' = Nil
    /\ UNCHANGED list

Queue ==
    /\ Len(call) = 3
    /\ list' = [list EXCEPT ![call[1]] = Enqueued(@, call[2], call[3])]
    /\ call' = <<>>
    /\ UNCHANGED found

Dequeue ==
    /\ Len(call) = 1
    /\ LET q == list[call[1]]
       IN  IF q = <<>>
           THEN UNCHANGED <<list, found>>
           ELSE list' = [list EXCEPT ![call[1]] = Tail(q)] /\ found' = Head(q)
    /\ call' = <<>>

Next == Call \/ Queue \/ Dequeue

Spec == Init /\ [][Next]_vars
=============================================================================
