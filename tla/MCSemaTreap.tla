----------------------------- MODULE MCSemaTreap -----------------------------
(* SemaTreap for TLC: sudogs are interchangeable. *)
EXTENDS SemaTreap

SudogSymmetry == Permutations(Sudog)
=============================================================================
