-------------------------- MODULE LedgerRefinement --------------------------
(***************************************************************************)
(* The runtime of every device, seen as the membership ledger: a device    *)
(* holds what a load of its file could return.                             *)
(***************************************************************************)
EXTENDS CheckpointRuntime

\* The snapshots a device's file may turn out to hold.
StoredSnapshots == [n \in Devices |-> {c.snap : c \in Copies(n) \ {None}}]

Ledger == INSTANCE MembershipLedger WITH copies <- StoredSnapshots

\* The runtime implements the ledger: only an active member that surely holds a
\* snapshot extends it, and what a device may hold only moves up in rank.
ImplementsLedger == Ledger!LedgerSpec
=============================================================================
