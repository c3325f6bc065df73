--------------------------- MODULE MCContestServer ---------------------------
(* The server of sequence2 and its clients on small instances, for TLC. *)
EXTENDS ContestServer, TLC

\* Names and connections are interchangeable.
Symmetry == Permutations(Names) \cup Permutations(Conns)
=============================================================================
