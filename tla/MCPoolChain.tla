----------------------------- MODULE MCPoolChain -----------------------------
(* PoolChain for TLC: consumers are interchangeable. *)
EXTENDS PoolChain, TLC

ConsumerSymmetry == Permutations(Consumer)
=============================================================================
