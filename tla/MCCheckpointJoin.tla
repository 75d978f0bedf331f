-------------------------- MODULE MCCheckpointJoin --------------------------
(***************************************************************************)
(* Small instances of CheckpointJoin for TLC.                              *)
(***************************************************************************)
EXTENDS CheckpointJoin

CONSTANTS a, b

\* bound: two failures while one approval is prepared, none while two are.
TroubleBound == faults + glitches <= IF Cardinality(issued) < 2 THEN 2 ELSE 0
=============================================================================
