----------------------------- MODULE MCEvidence -----------------------------
(* A small instance of EvidencePublication for TLC.                        *)
EXTENDS EvidencePublication, TLC
=============================================================================
