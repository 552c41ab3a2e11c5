--------------------------- MODULE EvidenceClaims ---------------------------
(* A statement the repository makes of evidence publication that its code  *)
(* does not keep, found violated by a run of its own.                      *)
EXTENDS EvidencePublication

\* Leases end, streams go on, and the runner completes what it has uploaded.
FairSpec ==
    /\ Spec
    /\ WF_vars(LoseLease)
    /\ \A g \in Grants :
         /\ WF_vars(InterruptOverflow(g))
         /\ WF_vars(FlushPut(g))
         /\ WF_vars(FinalizePut(g))
         /\ WF_vars(PublishArtifact(g))
         /\ WF_vars(BeginInspection(g))
         /\ WF_vars(CommitInspected(g))

\* Nothing the runner is still entitled to do can finish the upload: its lease
\* holds authority no more, or its PUT ended half way.
LeaseGone(g) == lease.state = "ended" \/ lease.fence # grant[g].fence

Stalled(g) == ~grant[g].finalized /\ put[g] = "idle" /\ file[g].place = "staging"

\* ADR 0003, "In-flight grants whose leases expired become
\* `upload_interrupted`" and "An idle or absolute upload timeout sets the grant
\* to `upload_interrupted`": such a grant does not stay in progress.  Nothing in
\* the server interrupts it, and the name a stalled PUT leaves in staging
\* refuses every further PUT.
DeadUploadsEnd ==
    \A g \in Grants :
      grant[g].state = "in_progress" /\ (LeaseGone(g) \/ Stalled(g))
        ~> grant[g].state # "in_progress"
=============================================================================
