-------------------------- MODULE MCRunnerProcess --------------------------
(* An instance of RunnerProcess: its constants come from the cfg.          *)
EXTENDS RunnerProcess
=============================================================================
