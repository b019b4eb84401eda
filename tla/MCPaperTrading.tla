--------------------------- MODULE MCPaperTrading ---------------------------
(* PaperTrading on two orders, one of a credit structure; an order of three *)
(* contracts fills in up to three parts.  The starting cash pays for some   *)
(* of what can be asked for, and does not cover every loss.                 *)
EXTENDS PaperTrading

CONSTANTS debit, credit

MCOrders == {debit, credit}
MCCredit == {credit}
MCContracts == {3}
MCPrices == {6, 12}
MCMarks == {0, 12}
=============================================================================
