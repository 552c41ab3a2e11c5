------------------------ MODULE RunControlRefinement ------------------------
(* The leases, fences and event rows of RunControl implement RunLifecycle: *)
(* the refinement mapping reads the promise off the rows.                  *)
EXTENDS RunControl

Lifecycle == INSTANCE RunLifecycle WITH
    status    <- [a \in Actions |-> action[a].state],
    latest    <- attempt,
    phase     <- [a \in Actions |-> [n \in Attempts |-> run[a][n].state]],
    token     <- [a \in Actions |-> [n \in Attempts |-> run[a][n].fence]],
    startedBy <- [a \in Actions |-> [n \in Attempts |->
                   {e.fence : e \in {d \in events[a][n] : d.type = "started"}}]]

\* Every step of the rows, under any interleaving of operator, runners, clock
\* and revocation, is a step of the promised lifecycle or changes nothing of it.
ImplementsLifecycle == Lifecycle!Spec
=============================================================================
