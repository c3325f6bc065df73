---------------------------- MODULE MCScoreboard ----------------------------
(* The scoreboards of a small contest, for TLC. *)
EXTENDS Scoreboard, TLC

CONSTANTS ann, bob, pa, pb

MCName == ann :> 1 @@ bob :> 2

\* A contest that freezes two instants before its end.
MCFirst == [start |-> 0, duration |-> 4, freeze |-> 2]

\* One that starts later and does not freeze, one without an end, and one
\* whose length does not fit an int (IntMax is 6).
MCContests == {MCFirst,
               [start |-> 1, duration |-> 3, freeze |-> 0],
               [start |-> 0, duration |-> 0, freeze |-> 1],
               [start |-> 0, duration |-> 7, freeze |-> 1]}

Symmetry == Permutations({pa, pb})
=============================================================================
