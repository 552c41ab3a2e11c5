-------------------------- MODULE RunControlClaims --------------------------
(* A statement the repository makes of the control plane's rows that its   *)
(* code does not keep, found violated by a run of its own.                 *)
EXTENDS RunControl

\* packages/contracts/src/action-planning.ts, "invalid cleanup state": an
\* Action row is cleaning up exactly while its live work is cancelling.  The
\* revocation of a runner that holds a lease writes a row that is not.
ActionsReadable == \A a \in Actions : Readable(action[a])
=============================================================================
