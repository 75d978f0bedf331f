---------------------------- MODULE MCPeerPaths -----------------------------
(***************************************************************************)
(* Small instances of ConnectionPaths and PacketPlane for TLC.  The two    *)
(* share no state: each runs while the other rests in its initial state.   *)
(***************************************************************************)
EXTENDS ConnectionPaths, PacketPlane

CONSTANTS a, b, tcp, relay

\* bound: three connections are all direct and none is on the LAN.
ConnectionBound ==
    Len(link) = 3 => \A c \in Dialled : link[c].kind \in Direct /\ link[c].lan = {}

\* bound: the third Hello is sent only where no end has changed its endpoint and only
\* the initiator probes.
PlaneBound ==
    hello = 3 => /\ \A d \in Ends : endpoint[d] = 0
                 /\ \A m \in wire : m.payload = "probe" => m.from = Initiator

PeerInit == ConnectionInit /\ PlaneInit

PeerNext ==
    \/ PlaneInit /\ ConnectionNext /\ UNCHANGED planeVars
    \/ /\ ConnectionInit /\ \A d \in Devices : authorized[d]
       /\ PlaneNext /\ UNCHANGED connVars

PeerSpec == PeerInit /\ [][PeerNext]_<<connVars, planeVars>>
=============================================================================
