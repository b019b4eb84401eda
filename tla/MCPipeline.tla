----------------------------- MODULE MCPipeline -----------------------------
(* Pipeline on one short session.  Ticks 1 .. CloseAt - 1 are in trading   *)
(* hours.  Event types whose multiplicity no property asks about saturate  *)
(* at one.                                                                 *)
EXTENDS Pipeline

\* The second snapshot makes the candidate factory raise.
RaisingShape == [id \in Ids |-> IF id = 2 THEN "raises" ELSE "good"]

\* The second snapshot does not parse, the third has no candidate.
MixedShape == [id \in Ids |-> CASE id = 2 -> "unparsable"
                                [] id = 3 -> "empty"
                                [] OTHER -> "good"]

Twice == {"candidates_generated", "counterfactual_settled", "outcome_settled"}
OutcomeCap == [t \in EventTypes |-> IF t \in Twice THEN 2 ELSE 1]
=============================================================================
