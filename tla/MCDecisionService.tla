------------------------- MODULE MCDecisionService -------------------------
(* DecisionService with two threads, two requests with candidates and one  *)
(* without, and two promotions.                                            *)
EXTENDS DecisionService

CONSTANTS a, b, t1, t2, r1, r2

MCCandidates == {a, b}
MCThreads == {t1, t2}
MCRequests == {r1, r2}
=============================================================================
