--------------------------- MODULE MCAdvisorTurn ---------------------------
(* An instance of AdvisorTurn: its constants come from the cfg.            *)
EXTENDS AdvisorTurn
=============================================================================
