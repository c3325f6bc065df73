------------------------------ MODULE MCJudging ------------------------------
(* The judging pipeline on small instances, for TLC. *)
EXTENDS Judging, TLC

\* Solutions, clients and slave threads are interchangeable.
Symmetry == Permutations(Clients) \cup Permutations(Workers)
=============================================================================
