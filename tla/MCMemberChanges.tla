-------------------------- MODULE MCMemberChanges ---------------------------
(***************************************************************************)
(* Small instances of MutationHandoff and HostnameClaims for TLC.  The two *)
(* share no state: each runs while the other rests in its initial state.   *)
(***************************************************************************)
EXTENDS MutationHandoff, HostnameClaims

CONSTANTS a, b, c

\* bound: three signed changes of the roster, the third only where the named device has
\* no name or the first label.
WireBound ==
    /\ Cardinality(wire) <= 3
    /\ Cardinality(wire) = 3 =>
         \A n \in Named : device[n].names[n] # None => device[n].names[n].label = 1

ChangesInit == HandoffInit /\ HostInit

ChangesNext ==
    \/ HostInit /\ HandoffNext /\ UNCHANGED hostVars
    \/ HandoffInit /\ HostNext /\ UNCHANGED handoffVars

\* The fairness of MutationHandoff.
ChangesSpec ==
    /\ ChangesInit /\ [][ChangesNext]_<<handoffVars, hostVars>>
    /\ WF_handoffVars(HostInit /\ Tick)
    /\ WF_handoffVars(/\ HostInit
                      /\ handoff # NoHandoff /\ now >= handoff.deadline /\ DriveMutations({}))
=============================================================================
