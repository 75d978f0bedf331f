------------------------ MODULE MCCheckpointRuntime ------------------------
(***************************************************************************)
(* Small instances of CheckpointRuntime for TLC.                           *)
(***************************************************************************)
EXTENDS LedgerRefinement

CONSTANTS a, b
=============================================================================
