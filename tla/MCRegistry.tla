----------------------------- MODULE MCRegistry -----------------------------
(* Registry with two roles, both of the configured group, two               *)
(* processes that may train, and three runs, the last with a status the     *)
(* engine refuses.                                                          *)
EXTENDS Registry, TLC

CONSTANTS timer, operator

MCGroup == {1, 2}
MCTrainers == {timer, operator}
MCResearch == {3}
Symmetry == Permutations(MCTrainers)
=============================================================================
