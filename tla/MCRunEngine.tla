----------------------------- MODULE MCRunEngine -----------------------------
(***************************************************************************)
(* RunEngine for TLC: instances and polls are interchangeable, and in the  *)
(* TUI no definition chooses among them.                                   *)
(***************************************************************************)
EXTENDS RunEngine, TLC

Symmetry == Permutations(Instances) \cup Permutations(Polls)
=============================================================================
