-------------------------- MODULE MCEvidenceClaims --------------------------
(* The instances on which each claim of EvidenceClaims fails.              *)
EXTENDS EvidenceClaims, TLC
=============================================================================
