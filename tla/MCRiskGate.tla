----------------------------- MODULE MCRiskGate -----------------------------
(* RiskGate with a spread of loss 3 and a condor of loss 1, a daily limit of *)
(* 6, two traders, and days of four moments, of which two are open for       *)
(* entries.                                                                  *)
EXTENDS RiskGate, TLC

CONSTANTS spread, condor, alice, bob

MCTraders == {alice, bob}
MCCandidates == {spread, condor}
MCLoss == (spread :> 3) @@ (condor :> 1)
MCFamily == (spread :> "vertical") @@ (condor :> "condor")
Symmetry == Permutations(MCTraders)
=============================================================================
