----------------------------- MODULE MCDtestUnix -----------------------------
(* The launcher on small instances, for TLC. *)
EXTENDS DtestUnix, TLC

\* Calls are interchangeable.
Symmetry == Permutations(Calls)
=============================================================================
