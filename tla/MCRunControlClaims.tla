------------------------- MODULE MCRunControlClaims -------------------------
(* The instance on which the claim of RunControlClaims fails.              *)
EXTENDS RunControlClaims, TLC

CONSTANTS r1, s1, s2

\* Two processes of one runner.
OneOwner == s1 :> r1 @@ s2 :> r1
=============================================================================
