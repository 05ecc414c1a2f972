---------------------------- MODULE MCEngineJobs ----------------------------
(***************************************************************************)
(* Small instances of EngineJobs.                                          *)
(***************************************************************************)
EXTENDS EngineJobs

CONSTANTS j1, j2

=============================================================================
