------------------------------- MODULE MCChan -------------------------------
(***************************************************************************)
(* An instance of Chan for TLC: an unbuffered channel (1) and one with a    *)
(* buffer (2), and three goroutines whose calls reach every step of chan.go *)
(* and select.go.                                                           *)
(***************************************************************************)
EXTENDS Chan, TLC

CONSTANTS g1, g2, g3, v1, v2

MCCap == (1 :> 0) @@ (2 :> 2)
MCCap1 == 1 :> 0

S(c, v) == [c |-> c, dir |-> "send", v |-> v]
R(c) == [c |-> c, dir |-> "recv", v |-> Zero]
X(c) == [c |-> c, dir |-> "close", v |-> Zero]
Chan1(k, b) == [kind |-> "chan", block |-> b, cases |-> <<k>>]
Select(ks, b) == [kind |-> "select", block |-> b, cases |-> ks]
Close1(c) == [kind |-> "close", block |-> TRUE, cases |-> <<X(c)>>]

\* g1 sends, or takes what channel 2 holds; g2 receives and closes channel 2; g3 does
\* both and closes channel 1.
\* There are selects over both channels in both orders, with and without default,
\* and over both directions of one channel.
MCProgram ==
    (g1 :> {Chan1(S(1, v1), FALSE), Chan1(R(2), FALSE), Select(<<S(1, v1), S(2, v1)>>, TRUE)})
 @@ (g2 :> {Select(<<R(2), R(1)>>, TRUE), Chan1(R(1), TRUE), Close1(2)})
 @@ (g3 :> {Chan1(S(2, v2), TRUE), Chan1(R(1), FALSE), Select(<<S(1, v2), R(1)>>, FALSE), Close1(1)})

\* One goroutine waits to receive, one tries to send and one closes.
MCCloseProgram ==
    (g1 :> {Chan1(S(1, v1), FALSE)}) @@ (g2 :> {Chan1(R(1), TRUE)}) @@ (g3 :> {Close1(1)})
=============================================================================
