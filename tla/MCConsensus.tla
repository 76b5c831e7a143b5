----------------------------- MODULE MCConsensus -----------------------------
(* Panels for Consensus: one participant, the same model for and against,  *)
(* and three participants with an unknown stance and own instructions.     *)
EXTENDS Consensus

Participant(model, stance, custom) == [model |-> model, stance |-> stance, custom |-> custom]

MCPanels ==
  {<<Participant("m", "neutral", "")>>,
   <<Participant("m", "for", ""), Participant("m", "against", "")>>,
   <<Participant("m", "for", "own"), Participant("n", "odd", ""), Participant("n", "against", "")>>}
=============================================================================
