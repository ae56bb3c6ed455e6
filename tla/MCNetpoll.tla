------------------------------ MODULE MCNetpoll ------------------------------
(***************************************************************************)
(* Netpoll for TLC.  Of two deadlines only their equality matters, and of   *)
(* the number of a timer or callback only whether it is the current rseq or *)
(* wseq: these only grow, so that what is stale stays so.                   *)
(***************************************************************************)
EXTENDS Netpoll, TLC

TimeSymmetry == Permutations(Time)

StaleView ==
    <<phase, fdseq, info, sem, lock, closing, dl, run, count, pc, todo, woken, taken, kernel, sets,
      [m \in Mode |-> <<timer[m].modes, timer[m].n = seq[m]>>],
      [p \in Callback |-> <<arg[p].modes, IsStale(p)>>],
      arg[Poller]>>
=============================================================================
