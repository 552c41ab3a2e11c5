---------------------------- MODULE MCRunControl ----------------------------
(* Small instances of RunControl for TLC.                                  *)
EXTENDS RunControlRefinement, TLC

CONSTANTS r1, r2, s1, s2

\* Two processes of one runner, or one process of each of two.
OneOwner == s1 :> r1 @@ s2 :> r1
OneEach  == s1 :> r1 @@ s2 :> r2
=============================================================================
