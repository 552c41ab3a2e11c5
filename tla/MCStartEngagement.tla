------------------------- MODULE MCStartEngagement -------------------------
(* The instance of StartEngagement on which the claim about keys fails.    *)
EXTENDS StartEngagement, TLC
=============================================================================
