------------------------------- MODULE MCDojo -------------------------------
(* Dojo with three runs over two days and two archetypes, of which one is *)
(* diagnosed at a time.                                                      *)
EXTENDS Dojo, TLC

CONSTANTS daily, recent, weekly, crash, chop

MCRuns == {daily, recent, weekly}
MCArchetypes == {crash, chop}
Symmetry == Permutations(MCRuns) \cup Permutations(MCArchetypes)
=============================================================================
