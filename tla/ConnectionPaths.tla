-------------------------- MODULE ConnectionPaths ---------------------------
(***************************************************************************)
(* The connections between two overlay peers and what each end makes of    *)
(* them (path.rs and the connection events of runtime/runner.rs).          *)
(*                                                                         *)
(* libp2p reports a connection to either end on its own: it is started,    *)
(* established and, once either end or the network cut it, closed.  Each   *)
(* end remembers the network epoch a connection was started in, gives up   *)
(* duplicates of a direct path, and keeps per path the connections that    *)
(* packets may be pinned to.  No message settles which duplicate survives. *)
(***************************************************************************)
EXTENDS Integers, SequencesExt

CONSTANTS Devices,
          Preferred,   \* the end with the lower peer id
          Direct,      \* the direct stream kinds of a path
          Kinds,       \* these and the kind of a relayed path
          MaxTracked,  \* MAX_TRACKED_PATH_CONNECTION_IDS
          Gated,       \* bound: the ends that may be without authorization
          MaxEvents    \* bound: dialled connections, and connections that are
                       \* lost, fail or time out, changes of the network and
                       \* withdrawn authorizations

ASSUME ConnectionAssumption ==
    /\ Preferred \in Devices /\ Cardinality(Devices) = 2 /\ Gated \subseteq Devices
    /\ Direct \subseteq Kinds
    /\ MaxTracked \in Nat \ {0} /\ MaxEvents \in Nat

Connections == 1..MaxEvents

VARIABLES
    link,        \* the dialled connections: who dialled, kind, ends that see
                 \* the other's address in a network of their own
    cut,         \* connections that are going down
    phase,       \* what an end was last told of a connection
    started,     \* the connections an end saw start, in the order of their ids
    epoch,       \* ConnectionEpochs.current
    born,        \* ConnectionEpochs.connections
    retiring,    \* ConnectionEpochs.retiring
    authorized,  \* the other end is a configured transport peer
    paths,       \* PathSet: health and tracked connections of each kind
    dropped,     \* history: usable connections an end stopped tracking
    faults

endVars == <<phase, started, epoch, born, retiring, authorized, paths, dropped>>
connVars == <<link, cut, endVars, faults>>

Dialled == 1..Len(link)
Other(d) == CHOOSE e \in Devices : e # d

\* "gated" is "active" for a connection that was established unauthorized;
\* "stale" is established but rejected.
Established == {"active", "gated", "stale"}
Active(d) == {c \in Dialled : phase[d][c] \in {"active", "gated"}}

IsCurrent(d, c) == born[d][c] = epoch[d]

Usable(d) == {c \in Active(d) : IsCurrent(d, c) /\ c \notin retiring[d]}

(* -------------------------------- paths -------------------------------- *)

NoPath == [healthy |-> FALSE, tracked |-> <<>>]

\* record_connection_id: the newest is last, and the oldest makes room.
RecordId(ids, c) ==
    LET rest == SelectSeq(ids, LAMBDA i : i # c)
    IN  Append(IF Len(rest) = MaxTracked THEN Tail(rest) ELSE rest, c)

RecordEstablished(p, c) == [healthy |-> TRUE, tracked |-> RecordId(p.tracked, c)]

\* Mutant of ConnectionLost: a failure of any connection demotes the path.
ConnectionLostStale(p, c) ==
    LET rest == SelectSeq(p.tracked, LAMBDA i : i # c)
    IN  IF rest = p.tracked THEN NoPath
        ELSE [healthy |-> p.healthy /\ rest # <<>>, tracked |-> rest]

\* record_connection_lost: only a tracked connection changes the path.
ConnectionLost(p, c) ==
    LET rest == SelectSeq(p.tracked, LAMBDA i : i # c)
    IN  [healthy |-> p.healthy /\ rest # <<>>, tracked |-> rest]

\* Mutant of RecordStreamRtt: any answer proves the path.
RecordStreamRttUntracked(p, c) == [p EXCEPT !.healthy = TRUE]

\* record_stream_rtt: an answer proves a path that still tracks its connection.
RecordStreamRtt(p, c) == [p EXCEPT !.healthy = @ \/ c \in ToSet(p.tracked)]

\* The paths of one end once the connections of the sequence s are recorded.
Recording(ps, s) ==
    FoldLeft(LAMBDA acc, c : [acc EXCEPT ![link[c].kind] = RecordEstablished(@, c)], ps, s)

TrackedBy(ps) == UNION {ToSet(ps[k].tracked) : k \in Kinds}

\* What an end records is no longer dropped; what had to make room is.
RecordAll(d, s) ==
    LET after == Recording(paths[d], s)
    IN  /\ paths' = [paths EXCEPT ![d] = after]
        /\ dropped' = [dropped EXCEPT ![d] =
                         (@ \cup TrackedBy(paths[d]) \cup ToSet(s)) \ TrackedBy(after)]

(* ---------------------------- deduplication ---------------------------- *)

Latest(S) == {c \in S : \A o \in S : o <= c}

\* endpoint_is_on_current_lan: each end asks its own interfaces, and behind a nested
\* NAT the two answers differ.
OnCurrentLan(d, c) == d \in link[c].lan

\* Mutant of RedundantOfKind: either end keeps the connections it dialled.
RedundantOfKindSelfish(d, live) ==
    LET lan == {c \in live : OnCurrentLan(d, c)}
        preferred == IF lan = {} THEN live ELSE lan
        desired == {c \in preferred : link[c].by = d}
    IN  (live \ preferred) \cup
        (IF desired = {} THEN {} ELSE (preferred \ desired) \cup (desired \ Latest(desired)))

\* redundant_direct_connection_ids, for the usable connections of one kind: a
\* connection the end sees on its LAN before any other, then the preferred initiator's.
RedundantOfKind(d, live) ==
    LET lan == {c \in live : OnCurrentLan(d, c)}
        preferred == IF lan = {} THEN live ELSE lan
        initiated == {c \in preferred : link[c].by = d}
        desired == IF d = Preferred THEN initiated ELSE preferred \ initiated
    IN  (live \ preferred) \cup
        IF desired = {} THEN initiated \ Latest(initiated)
        ELSE (preferred \ desired) \cup
             (IF d = Preferred THEN desired \ Latest(desired) ELSE {})

Redundant(d, live) ==
    UNION {RedundantOfKind(d, {c \in live : link[c].kind = k}) : k \in Direct}

Retire(d, S) ==
    /\ retiring' = [retiring EXCEPT ![d] = @ \cup S]
    /\ cut' = cut \cup S

(* ------------------------------- actions ------------------------------- *)

ConnectionInit ==
    /\ link = <<>> /\ cut = {} /\ faults = 0
    /\ phase = [d \in Devices |-> [c \in Connections |-> "none"]]
    /\ started = [d \in Devices |-> <<>>]
    /\ epoch = [d \in Devices |-> 0]
    /\ born = [d \in Devices |-> [c \in Connections |-> 0]]
    /\ retiring = [d \in Devices |-> {}]
    /\ authorized \in {f \in [Devices -> BOOLEAN] : \A d \in Devices \ Gated : f[d]}
    /\ paths = [d \in Devices |-> [k \in Kinds |-> NoPath]]
    /\ dropped = [d \in Devices |-> {}]

Told(d, c, p) == phase' = [phase EXCEPT ![d][c] = p]

Fault == Len(link) + faults < MaxEvents /\ faults' = faults + 1

\* record_started: the epoch of a connection is the one its dial began in.
RecordStarted(d, c) ==
    /\ Told(d, c, "started")
    /\ started' = [started EXCEPT ![d] = Append(@, c)]
    /\ born' = [born EXCEPT ![d][c] = epoch[d]]

Dial(d, k, lan) ==
    /\ Len(link) + faults < MaxEvents
    /\ lan # {} => k \in Direct
    /\ link' = Append(link, [by |-> d, kind |-> k, lan |-> lan])
    /\ RecordStarted(d, Len(link) + 1)
    /\ UNCHANGED <<cut, epoch, retiring, authorized, paths, dropped, faults>>

IncomingConnection(d, c) ==
    /\ phase[d][c] = "none"
    /\ c \notin cut
    /\ RecordStarted(d, c)
    /\ UNCHANGED <<link, cut, epoch, retiring, authorized, paths, dropped, faults>>

\* ConnectionEstablished: a connection of an earlier epoch is rejected.  Others
\* are deduplicated and, when they survive that, become the path's latest.
ConnectionEstablished(d, c) ==
    /\ phase[d][c] = "started"
    /\ phase[Other(d)][c] # "none"
    /\ \/ /\ ~IsCurrent(d, c)
          /\ Told(d, c, "stale")
          /\ Retire(d, {c})
          /\ UNCHANGED <<paths, dropped>>
       \/ /\ IsCurrent(d, c) /\ ~authorized[d]
          /\ Told(d, c, "gated")
          /\ UNCHANGED <<cut, retiring, paths, dropped>>
       \/ /\ IsCurrent(d, c) /\ authorized[d]
          /\ Told(d, c, "active")
          /\ LET redundant == Redundant(d, Usable(d) \cup {c})
             IN  /\ Retire(d, redundant)
                 /\ RecordAll(d, IF c \in redundant THEN <<>> ELSE <<c>>)
    /\ UNCHANGED <<link, started, epoch, born, authorized, faults>>

\* ConnectionClosed, and an error of a connection that was never established.
ConnectionClosed(d, c) ==
    /\ c \in cut
    /\ phase[d][c] \in Established \cup {"started"}
    /\ Told(d, c, "gone")
    /\ retiring' = [retiring EXCEPT ![d] = @ \ {c}]
    /\ paths' = IF phase[d][c] \in Established /\ authorized[d]
                THEN [paths EXCEPT ![d][link[c].kind] = ConnectionLost(@, c)] ELSE paths
    /\ started' = [started EXCEPT ![d] = SelectSeq(@, LAMBDA i : i # c)]
    /\ born' = [born EXCEPT ![d][c] = 0]
    /\ dropped' = [dropped EXCEPT ![d] = @ \ {c}]
    /\ UNCHANGED <<link, cut, epoch, authorized, faults>>

\* The network takes a connection down.
Lose(c) ==
    /\ Fault
    /\ c \notin cut
    /\ cut' = cut \cup {c}
    /\ UNCHANGED <<link, endVars>>

(* ----------------------- requests and their answers -------------------- *)

\* The connections a request of this end may have been pinned to: each was the
\* latest of its path once (send_dequeued_pinned_stream).
Pinned(d) ==
    TrackedBy(paths[d]) \cup
    {c \in Dialled : phase[d][c] = "gone" \/ (phase[d][c] = "active" /\ c \in dropped[d])}

\* An accepted pinned request; the answer of an unusable connection is ignored.
Answered(d, c) ==
    /\ c \in Usable(d) \cap Pinned(d)
    /\ paths' = [paths EXCEPT ![d][link[c].kind] = RecordStreamRtt(@, c)]
    /\ UNCHANGED <<link, cut, phase, started, epoch, born, retiring, authorized, dropped, faults>>

\* OutboundFailure of a pinned request.  The path loses the connection; a
\* transport error also retires it, so that it cannot win deduplication.
PinnedFailed(d, c, transport) ==
    /\ Fault
    /\ c \in Pinned(d)
    /\ paths' = [paths EXCEPT ![d][link[c].kind] = ConnectionLost(@, c)]
    /\ dropped' = [dropped EXCEPT ![d] = @ \cup ({c} \cap Active(d))]
    /\ Retire(d, IF transport /\ authorized[d] THEN {c} \cap Usable(d) ELSE {})
    /\ UNCHANGED <<link, phase, started, epoch, born, authorized>>

\* has_newer_direct_connection
HasNewerDirect(d, c) ==
    /\ link[c].kind \in Direct
    /\ \E w \in Usable(d) :
         /\ link[w].kind = link[c].kind
         /\ \E i, j \in DOMAIN started[d] : i < j /\ started[d][i] = c /\ started[d][j] = w

\* A control request timed out on a connection that a newer one replaces.
ControlTimedOut(d, c) ==
    /\ Fault
    /\ authorized[d]
    /\ c \in Usable(d)
    /\ HasNewerDirect(d, c)
    /\ Retire(d, {c})
    /\ UNCHANGED <<link, phase, started, epoch, born, authorized, paths, dropped>>

(* --------------------- network and authorization ----------------------- *)

\* handle_runtime_network_change: everything connected to the old network is
\* disconnected, and an own dial under way is aborted if it is not too late.
NetworkChanged(d) ==
    /\ Fault
    /\ epoch' = [epoch EXCEPT ![d] = @ + 1]
    /\ cut' = cut \cup {c \in Dialled :
                          \/ phase[d][c] \in Established
                          \/ phase[d][c] = "started" /\ link[c].by = d}
    /\ paths' = [paths EXCEPT ![d] = [k \in Kinds |-> NoPath]]
    /\ dropped' = [dropped EXCEPT ![d] = {}]
    /\ UNCHANGED <<link, phase, started, born, retiring, authorized>>

\* reconcile_packet_plane_authorization: the peer's paths are forgotten.
Deauthorized(d) ==
    /\ Fault
    /\ authorized[d] /\ d \in Gated
    /\ authorized' = [authorized EXCEPT ![d] = FALSE]
    /\ paths' = [paths EXCEPT ![d] = [k \in Kinds |-> NoPath]]
    /\ dropped' = [dropped EXCEPT ![d] = {}]
    /\ UNCHANGED <<link, cut, phase, started, epoch, born, retiring>>

\* A finished resync records the connections opened behind its gate, in the
\* order of a hash map (reconcile_checkpoint_connection_paths).
AuthorizedByResync(d) ==
    /\ ~authorized[d]
    /\ authorized' = [authorized EXCEPT ![d] = TRUE]
    /\ \E s \in SetToSeqs(Usable(d)) : RecordAll(d, s)
    /\ UNCHANGED <<link, cut, phase, started, epoch, born, retiring, faults>>

\* A finished pairing promotes them: they are also deduplicated
\* (promote_all_authenticated_overlay_connections).
AuthorizedByPairing(d) ==
    /\ ~authorized[d]
    /\ authorized' = [authorized EXCEPT ![d] = TRUE]
    /\ LET redundant == Redundant(d, Usable(d))
       IN  /\ Retire(d, redundant)
           /\ \E s \in SetToSeqs(Usable(d) \ redundant) : RecordAll(d, s)
    /\ phase' = [phase EXCEPT ![d] =
                   [c \in Connections |-> IF @[c] = "gated" THEN "active" ELSE @[c]]]
    /\ UNCHANGED <<link, started, epoch, born, faults>>

\* A change that another member handed over authorizes the peer and leaves its
\* open connections without a path.
AuthorizedByMutation(d) ==
    /\ ~authorized[d]
    /\ authorized' = [authorized EXCEPT ![d] = TRUE]
    /\ dropped' = [dropped EXCEPT ![d] = Usable(d)]
    /\ UNCHANGED <<link, cut, phase, started, epoch, born, retiring, paths, faults>>

ConnectionNext ==
    \/ \E c \in Dialled : Lose(c)
    \/ \E d \in Devices :
         \/ \E k \in Kinds, lan \in SUBSET Devices : Dial(d, k, lan)
         \/ \E c \in Dialled :
              \/ IncomingConnection(d, c) \/ ConnectionEstablished(d, c)
              \/ ConnectionClosed(d, c) \/ ControlTimedOut(d, c)
              \/ Answered(d, c)
              \/ \E transport \in BOOLEAN : PinnedFailed(d, c, transport)
         \/ NetworkChanged(d) \/ Deauthorized(d)
         \/ AuthorizedByResync(d) \/ AuthorizedByPairing(d) \/ AuthorizedByMutation(d)

ConnectionSpec == ConnectionInit /\ [][ConnectionNext]_connVars

(* ------------------------------ properties ----------------------------- *)

\* A selectable stream path has a connection to send on, and every connection
\* it tracks is one the end still holds, started in the current network epoch:
\* late answers, failures and closes of other connections cannot revive it, and
\* a path never survives its connections or its network.
PathsAreBacked ==
    \A d \in Devices, k \in Kinds :
        /\ paths[d][k].healthy <=> paths[d][k].tracked # <<>>
        /\ \A c \in ToSet(paths[d][k].tracked) : c \in Active(d) /\ IsCurrent(d, c)

\* An authorized end tracks every usable connection, unless that connection
\* failed, made room, or was open when a handed-over change authorized the peer:
\* a stale failure cannot demote a healthy replacement, and a connection opened
\* behind the resync gate gets its path when the gate opens.
UsableAreTracked ==
    \A d \in Devices :
        authorized[d] => Usable(d) \subseteq TrackedBy(paths[d]) \cup dropped[d]

Quiet ==
    \A d \in Devices, c \in Dialled :
        /\ phase[d][c] # "started"
        /\ c \in cut => phase[d][c] \in {"none", "gone"}

\* The direct connections of a kind that either end still holds.
Held(k) == {c \in Dialled : link[c].kind = k /\ \E d \in Devices : c \in Active(d)}

\* Both ends have heard of everything, and authorize each other.
Settled == Quiet /\ \A d \in Devices : authorized[d]

\* No connection is on the LAN for one end only.
LanAgreed == \A c \in Dialled : link[c].lan \in {{}, Devices}

\* Once both ends have heard of everything, at most one connection of a direct
\* kind is left, unless one was opened behind a gate.  When nothing failed and the
\* ends agree on what is on the LAN, one is left: both gave up the same duplicates
\* without a word (close_redundant_direct_connections), and both send on it.
DuplicatesSettle ==
    Settled => \A k \in Direct :
        /\ (\A d \in Devices, c \in Held(k) : phase[d][c] = "active")
              => Cardinality(Held(k)) <= 1
        /\ LanAgreed /\ faults = 0 /\ (\E c \in Dialled : link[c].kind = k) =>
             /\ Held(k) # {}
             /\ \A d \in Devices : paths[d][k].healthy \/ dropped[d] # {}

\* "both peers must retain a common connection", says a test of
\* redundant_direct_connection_ids: when nothing failed, the ends of direct connections
\* keep one of them.  It does not hold where only one end sees a connection on its LAN:
\* each end closes what the other keeps.
CommonConnectionRetained ==
    Settled /\ faults = 0 =>
        \A k \in Direct : (\E c \in Dialled : link[c].kind = k) => Held(k) # {}
=============================================================================
