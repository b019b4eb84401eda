------------------------------ MODULE MCAiLoop ------------------------------
(* AiLoop on a debit and a credit order of two contracts at 10.  A quote is *)
(* absent, the stop of one direction, the entry price, or the target of one *)
(* direction, from which the trail can arm; after a loss the second order   *)
(* cannot be paid.                                                          *)
EXTENDS AiLoop

CONSTANTS debit, credit

MCOrders == {debit, credit}
MCCredit == {credit}
MCContracts == {2}
MCPrices == {10}
MCMarks == {0, 6, 10, 15}
MCPolicies == {"trailing", "eod_exit"}
MCReleases == {"release"}
=============================================================================
