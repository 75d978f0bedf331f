---------------------------- MODULE MCDiscovery -----------------------------
(***************************************************************************)
(* Small instances of RecoveryQueries and AddressRetention for TLC.  The   *)
(* two share no state: each runs while the other rests in its initial      *)
(* state.                                                                  *)
(***************************************************************************)
EXTENDS RecoveryQueries, AddressRetention

CONSTANTS a, b, lan, wan, circuit

KindOf == [x \in {lan, wan, circuit} |->
             CASE x = lan -> "lan" [] x = wan -> "public" [] x = circuit -> "relay"]
Configured == {<<a, wan>>}
Reported == {<<a, lan>>, <<a, wan>>, <<a, circuit>>, <<b, lan>>}

DiscoveryInit == Init /\ BookInit

DiscoveryNext ==
    \/ BookInit /\ members = {} /\ Next /\ UNCHANGED bookVars
    \/ Init /\ BookNext /\ UNCHANGED recoveryVars

\* The fairness of RecoveryQueries.
DiscoverySpec ==
    /\ DiscoveryInit /\ [][DiscoveryNext]_<<recoveryVars, bookVars>>
    /\ WF_due(~due /\ due' = TRUE)
    /\ WF_due(due /\ due' = FALSE)
=============================================================================
