------------------------ MODULE MCCheckpointTransfer ------------------------
(***************************************************************************)
(* A small instance of CheckpointTransfer for TLC.                         *)
(***************************************************************************)
EXTENDS CheckpointTransfer

CONSTANTS a, b

\* An offer takes two pages, and two offers exceed the byte budget.
TwoPages == <<2>>
=============================================================================
