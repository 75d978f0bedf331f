--------------------------- MODULE RecoveryQueries --------------------------
(***************************************************************************)
(* Targeted discovery of the overlay peers that have no usable path        *)
(* (runtime/recovery_queries.rs and its callers in runtime/runner.rs): one *)
(* DHT query at a time, a failure backoff per peer, state that is dropped  *)
(* when idle.  Instants are kept relative to now, in units of the redial   *)
(* tick, and stop counting where the code no longer tells them apart.      *)
(***************************************************************************)
EXTENDS Integers, FiniteSetsExt

CONSTANTS Peers,         \* the configured peers, numbered as their map iterates
          QueryTimeout, BackoffBase, BackoffMax, MaxExponent,
          StateTtl, ConnectedRetry, LanGrace,
          MaxRecords,    \* MAX_MEMBERSHIP_RECORDS
          MaxEvents      \* bound: connections, refused queries, quiet ticks and
                         \* changes of the network or of authority

ASSUME RecoveryAssumption ==
    /\ Peers \in SUBSET Nat /\ IsFiniteSet(Peers)
    /\ {QueryTimeout, BackoffBase, BackoffMax, StateTtl} \subseteq Nat \ {0}
    /\ {MaxExponent, ConnectedRetry, LanGrace, MaxRecords, MaxEvents} \subseteq Nat

VARIABLES
    peers,        \* QueryState of the peers that have one
    queries,      \* the peers whose query is owned
    grace,        \* lan_first_recovery_until
    authorized,   \* configured transport peers
    connected,    \* peers with a usable path
    due,          \* the redial timer has fired
    events,       \* environment events so far
    streak,       \* history: queries since the peer was last forgotten
    rest          \* history: ticks since its last query ended

recovery == <<peers, queries>>
history == <<streak, rest>>
recoveryVars == <<peers, queries, grace, authorized, connected, due, events,
                  streak, rest>>

LongestRest == BackoffMax + StateTtl
MaxAttempts == MaxExponent + 1
LongestAge == Max({QueryTimeout, StateTtl})

-----------------------------------------------------------------------------
(* RecoveryQueries.  An operator takes and returns [peers, queries].       *)

\* Mutant of FailureBackoff: it does not grow.
FailureBackoffFlat(attempts) == BackoffBase

FailureBackoff(attempts) ==
    LET exponent == Min({Max({attempts - 1, 0}), MaxExponent})
    IN  Min({BackoffBase * 2^exponent, BackoffMax})

\* How long the later of the last query and the retry time is past.
Idle(state) == Min({state.age, 0 - state.retry})

\* Mutant of Pruned: idle time is counted from the last query.
PrunedByLastQuery(s) ==
    [s EXCEPT !.peers = [p \in {x \in DOMAIN @ : @[x].pending > 0 \/ @[x].age < StateTtl}
                           |-> @[p]]]

Pruned(s) ==
    [s EXCEPT !.peers = [p \in {x \in DOMAIN @ : @[x].pending > 0 \/ Idle(@[x]) < StateTtl}
                           |-> @[p]]]

\* finished, for each of a set of peers whose query is owned.
Finished(s, done) ==
    [queries |-> s.queries \ done,
     peers |-> [p \in DOMAIN s.peers |->
                  IF p \in done
                  THEN [s.peers[p] EXCEPT !.pending = @ - 1,
                          !.retry = FailureBackoff(s.peers[p].attempts)]
                  ELSE s.peers[p]]]

Expire(s) == Finished(s, {p \in s.queries : s.peers[p].age >= QueryTimeout})

NewState == [age |-> 0, pending |-> 0, attempts |-> 0, retry |-> 0]

Record(s, p) ==
    LET attempts == Min({s.peers[p].attempts + 1, MaxAttempts})
    IN  [queries |-> s.queries \cup {p},
         peers |-> [s.peers EXCEPT ![p] =
                      [age |-> 0, attempts |-> attempts, pending |-> @.pending + 1,
                       retry |-> FailureBackoff(attempts)]]]

\* The asked peers without a state that find room for one, each in its turn.
Admitted(s, asked) ==
    LET new == asked \ DOMAIN s.peers
    IN  {p \in new : Cardinality(DOMAIN s.peers \cup {q \in new : q < p}) < MaxRecords}

Known(s, new) ==
    [s EXCEPT !.peers = [x \in DOMAIN @ \cup new |->
                           IF x \in DOMAIN @ THEN @[x] ELSE NewState]]

Ready(state) == state.pending = 0 /\ state.retry <= 0

\* should_query for the asked peers in turn, and the query of the first that may have
\* the free slot, unless the DHT refuses it.
Queried(s, asked, accepts) ==
    LET known == Known(s, Admitted(s, asked))
        able == {p \in asked \cap DOMAIN known.peers : Ready(known.peers[p])}
    IN  IF known.queries = {} /\ accepts /\ able # {}
        THEN Record(known, CHOOSE p \in able : \A q \in able : p <= q)
        ELSE known

\* query_configured_peer_recovery_discovery_for_peer, for each of the targets: only
\* the first call of a handler finds anything to expire or to prune.
QueryForPeers(s, targets, lan, accepts) ==
    LET current == Expire(s)
        asked == {p \in targets : lan[p] = 0}
    IN  IF targets = {} THEN s
        ELSE IF asked = {} THEN current
        ELSE Queried(Pruned(current), asked, accepts)

\* Mutant of Retained: the queries of removed peers stay owned.
RetainedWithQueries(s, keep) ==
    [s EXCEPT !.peers = [p \in DOMAIN @ \cap keep |-> @[p]]]

Retained(s, keep) ==
    [queries |-> s.queries \cap keep,
     peers |-> [p \in DOMAIN s.peers \cap keep |-> s.peers[p]]]

-----------------------------------------------------------------------------
(* The handlers.                                                           *)

\* The environment disturbs the search, within the bound.
Event == events < MaxEvents /\ events' = events + 1

\* The DHT accepts the query a step may start, or refuses it.
Answer(accepts) == IF accepts THEN UNCHANGED events ELSE Event

Now == [peers |-> peers, queries |-> queries]

\* The history that goes with a change of RecoveryQueries: a query that starts
\* extends the peer's streak unless its state was idle for too long, one that
\* ends starts its rest.
Becomes(s) ==
    /\ peers' = s.peers
    /\ queries' = s.queries
    /\ streak' = [p \in Peers |->
         IF p \notin s.queries \ queries THEN streak[p]
         ELSE IF rest[p] >= FailureBackoff(streak[p]) + StateTtl THEN 1
         ELSE Min({streak[p] + 1, MaxAttempts})]
    /\ rest' = [p \in Peers |-> IF p \in queries \ s.queries THEN 0 ELSE rest[p]]

\* The same when peers in `fresh` have their history forgotten.
BecomesFresh(s, fresh) ==
    /\ peers' = s.peers
    /\ queries' = s.queries
    /\ streak' = [p \in Peers |-> IF p \in fresh THEN 0 ELSE streak[p]]
    /\ rest' = [p \in Peers |-> IF p \in fresh THEN LongestRest ELSE rest[p]]

Init ==
    /\ peers = <<>>
    /\ queries = {}
    /\ grace = [p \in Peers |-> 0]
    /\ authorized = Peers
    /\ connected = {}
    /\ due = FALSE
    /\ events = 0
    /\ streak = [p \in Peers |-> 0]
    /\ rest = [p \in Peers |-> LongestRest]

Targets == authorized \ connected

\* handle_redial_tick with public discovery allowed: every target in turn.
RedialTick(accepts) ==
    /\ due
    /\ due' = FALSE
    /\ Becomes(QueryForPeers(Now, Targets, grace, accepts))
    /\ Answer(accepts)
    /\ UNCHANGED <<grace, authorized, connected>>

\* handle_redial_tick with public discovery suppressed.
QuietTick ==
    /\ Event
    /\ due
    /\ due' = FALSE
    /\ Becomes(Finished(Now, queries))
    /\ UNCHANGED <<grace, authorized, connected>>

\* The last step of a query's Kademlia progress.
QueryProgress(p) ==
    /\ Becomes(Finished(Now, {p}))
    /\ UNCHANGED <<grace, authorized, connected, due, events>>

OutgoingConnectionError(p, accepts) ==
    /\ p \in authorized \ connected
    /\ Becomes(QueryForPeers(Now, {p}, grace, accepts))
    /\ Answer(accepts)
    /\ UNCHANGED <<grace, authorized, connected, due>>

\* record_recovery_connection_at
ConnectionEstablished(p) ==
    /\ Event
    /\ p \in authorized \ connected
    /\ BecomesFresh([Now EXCEPT !.peers = [x \in DOMAIN @ |->
                       IF x = p THEN [@[x] EXCEPT !.attempts = 0, !.retry = ConnectedRetry]
                       ELSE @[x]]], {p})
    /\ connected' = connected \cup {p}
    /\ grace' = [grace EXCEPT ![p] = 0]
    /\ UNCHANGED <<authorized, due>>

\* The last usable path of a peer closes: the LAN gets a head start.
ConnectionClosed(p, accepts) ==
    /\ p \in connected
    /\ connected' = connected \ {p}
    /\ grace' = [grace EXCEPT ![p] = IF @ > 0 THEN @ ELSE LanGrace]
    /\ Becomes(QueryForPeers(Now, {p}, grace', accepts))
    /\ Answer(accepts)
    /\ UNCHANGED <<authorized, due>>

\* reset_recovery_backoff, then the head start for every configured peer.
NetworkChanged ==
    /\ Event
    /\ BecomesFresh([peers |-> <<>>, queries |-> {}], Peers)
    /\ grace' = [p \in Peers |-> IF p \in authorized THEN LanGrace ELSE 0]
    /\ connected' = {}
    /\ UNCHANGED <<authorized, due>>

\* reconcile_recovery_query_authorization
AuthorizationChanged(keep) ==
    /\ Event
    /\ keep # authorized
    /\ authorized' = keep
    /\ connected' = connected \cap keep
    /\ grace' = [p \in Peers |-> IF p \in keep THEN grace[p] ELSE 0]
    /\ BecomesFresh(Retained(Now, keep), Peers \ keep)
    /\ UNCHANGED due

\* One redial interval passes.
Tick ==
    /\ ~due
    /\ due' = TRUE
    /\ peers' = [p \in DOMAIN peers |->
         [peers[p] EXCEPT !.age = Min({@ + 1, LongestAge}),
                          !.retry = Max({@ - 1, 0 - StateTtl})]]
    /\ grace' = [p \in Peers |-> Max({grace[p] - 1, 0})]
    /\ rest' = [p \in Peers |-> Min({rest[p] + 1, LongestRest})]
    /\ UNCHANGED <<queries, authorized, connected, events, streak>>

Next ==
    \/ \E accepts \in BOOLEAN : RedialTick(accepts)
    \/ QuietTick
    \/ \E p \in queries : QueryProgress(p)
    \/ \E p \in Peers, accepts \in BOOLEAN : OutgoingConnectionError(p, accepts)
    \/ \E p \in Peers : ConnectionEstablished(p)
    \/ \E p \in connected, accepts \in BOOLEAN : ConnectionClosed(p, accepts)
    \/ NetworkChanged
    \/ \E keep \in SUBSET Peers : AuthorizationChanged(keep)
    \/ Tick

Spec == Init /\ [][Next]_recoveryVars

\* Time passes and the redial timer is served (Tick is the only step that sets
\* `due`, a redial tick the only one that clears it); whether and when the DHT
\* answers a query is open.
FairSpec ==
    /\ Spec
    /\ WF_due(~due /\ due' = TRUE)
    /\ WF_due(due /\ due' = FALSE)

-----------------------------------------------------------------------------
(* Properties.                                                             *)

\* The two maps of RecoveryQueries agree: a query is owned exactly for the
\* peers that count one as pending, all of them authorized, and never more
\* than MAX_CONCURRENT.  A query owned for nobody holds the slot for good.
OwnershipMatches ==
    /\ queries = {p \in DOMAIN peers : peers[p].pending > 0}
    /\ queries \subseteq authorized
    /\ Cardinality(queries) <= 1

\* "Idle expiry must not erase a long failure cooldown": whatever state other
\* peers' checks prune, a peer's next query waits out the backoff that its
\* streak of queries has earned.
CooldownsHold ==
    [][\A p \in queries' \ queries :
         streak[p] > 0 => rest[p] >= FailureBackoff(streak[p])]_recoveryVars

\* The one slot goes round: a peer that stays authorized and without a path is
\* queried again and again, though the others are always asked first.
NoPeerStarves ==
    \A p \in Peers : []<>(p \in queries \cup connected \/ p \notin authorized)
=============================================================================
