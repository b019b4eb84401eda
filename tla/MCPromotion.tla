---------------------------- MODULE MCPromotion ----------------------------
(* Promotion with two candidates and two Dojo runs beside an operator; the *)
(* changes fall within one unit of time or in two.                         *)
EXTENDS Promotion, TLC

CONSTANTS a, b, daily, recent, operator

MCCandidates == {a, b}
MCDojos == {daily, recent}
MCOperators == {operator}

\* Candidates are alike, and so are Dojo runs.
Symmetry == Permutations(MCCandidates) \cup Permutations(MCDojos)
=============================================================================
