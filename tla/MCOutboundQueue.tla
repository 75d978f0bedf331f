-------------------------- MODULE MCOutboundQueue ---------------------------
(***************************************************************************)
(* A small instance of OutboundQueue for TLC.                              *)
(***************************************************************************)
EXTENDS OutboundQueue

CONSTANTS a, b

MCPeers == {a, b}

\* An ordered and an unordered flow on shard 1, and a large ordered packet on
\* the shard that probes share.
MCKinds == {[flow |-> 1, ordered |-> TRUE, size |-> 1],
            [flow |-> 1, ordered |-> FALSE, size |-> 1],
            [flow |-> 0, ordered |-> TRUE, size |-> 2]}
=============================================================================
