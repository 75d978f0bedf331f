---------------------------- MODULE OutboundQueue ---------------------------
(***************************************************************************)
(* The outbound data plane between the TUN device and the transports:      *)
(* the per-peer packet queues (queue.rs) and the packets in flight on      *)
(* stream transports with the drain loop that moves packets from one to    *)
(* the other (runtime/runner.rs).  A handler of the runner that drains     *)
(* sets `draining`; the packets are then sent one step at a time, and no   *)
(* other handler runs until the drain ends.  Which transport a peer can    *)
(* use at the moment (path.rs) is an input.                                *)
(***************************************************************************)
EXTENDS Naturals, FiniteSets, SequencesExt

CONSTANTS Peers,
          Kinds,          \* packets from the TUN: [flow, ordered, size]
          ProbeFlow,      \* flow shard 0, which path probes are counted under
          MaxPackets, MaxBytes, MaxAge,            \* limits of one peer's queue
          Limit, OrderedWindow, InFlightTimeout,   \* limits on the streams
          MaxOffered,     \* bound: packets read from the TUN
          MaxNow          \* bound: the clock

ASSUME OutboundAssumption ==
    /\ Kinds \subseteq [flow : {k.flow : k \in Kinds}, ordered : BOOLEAN, size : Nat]
    /\ {MaxPackets, MaxBytes, Limit, OrderedWindow} \subseteq Nat \ {0}
    /\ {MaxAge, InFlightTimeout, MaxOffered, MaxNow} \subseteq Nat

Flows == {k.flow : k \in Kinds} \cup {ProbeFlow}
Decisions == {"PacketPlaneDatagram", "StreamFallback", "Blocked"}

VARIABLES
    now,
    out,        \* PeerQueues: the queues, the ready ring, the retired drops
    window,     \* PacketInFlight: the requests and their counts
    decision,   \* packet_transport_decision of each peer
    draining,   \* drain_outbound_queue is running
    offered,    \* packets read from the TUN so far
    left        \* packets the drain took from the queues

outboundVars == <<now, out, window, decision, draining, offered, left>>

-----------------------------------------------------------------------------
(* PeerQueue and PeerQueues.                                               *)

EmptyQueue == [packets |-> <<>>, count |-> 0, bytes |-> 0, dropped |-> 0]

Queued(o, p) == p \in DOMAIN o.queues /\ o.queues[p].count > 0

Admits(q, k) ==
    /\ k.size <= MaxBytes
    /\ Len(q.packets) < MaxPackets
    /\ q.bytes + k.size <= MaxBytes

Accepted(q, k) ==
    [q EXCEPT !.packets = Append(@, k), !.count = @ + 1, !.bytes = @ + k.size]

\* A packet of the queue, by its position, without counting it as dropped.
Taken(q, i) ==
    [q EXCEPT !.packets = RemoveAt(@, i), !.count = @ - 1,
              !.bytes = @ - q.packets[i].size]

Enqueue(o, p, k) ==
    LET q == IF p \in DOMAIN o.queues THEN o.queues[p] ELSE EmptyQueue
        r == IF Admits(q, k) THEN Accepted(q, k) ELSE [q EXCEPT !.dropped = @ + 1]
    IN  [o EXCEPT !.queues = [x \in DOMAIN @ \cup {p} |-> IF x = p THEN r ELSE @[x]],
                  !.ready = IF Admits(q, k) /\ ~Queued(o, p) THEN Append(@, p) ELSE @]

Expired(k) == now - k.at > MaxAge

\* The packets before the first fresh one go.
ExpiredCount(q) ==
    LET fresh == {i \in 1..Len(q.packets) : ~Expired(q.packets[i])}
    IN  IF fresh = {} THEN Len(q.packets) ELSE Min(fresh) - 1

\* Mutant of WithoutExpired: a queue without a fresh packet is left alone.
WithoutExpiredIfFresh(q) ==
    IF ExpiredCount(q) = Len(q.packets) THEN q
    ELSE LET n == ExpiredCount(q)
         IN  [q EXCEPT !.packets = SubSeq(@, n + 1, Len(@)), !.count = @ - n,
                       !.dropped = @ + n]

WithoutExpired(q) ==
    LET n == ExpiredCount(q)
        gone == SubSeq(q.packets, 1, n)
    IN  [packets |-> SubSeq(q.packets, n + 1, Len(q.packets)),
         count |-> q.count - n, dropped |-> q.dropped + n,
         bytes |-> q.bytes - FoldSeq(LAMBDA k, sum : sum + k.size, 0, gone)]

\* Mutant of DropExpired: a queue that expired whole stays in the ring.
DropExpiredKeepingRing(o) ==
    [o EXCEPT !.queues = [p \in DOMAIN @ |->
                            IF Contains(o.ready, p) THEN WithoutExpired(@[p]) ELSE @[p]]]

DropExpired(o) ==
    LET after == [o EXCEPT !.queues = [p \in DOMAIN @ |->
                    IF Contains(o.ready, p) THEN WithoutExpired(@[p]) ELSE @[p]]]
    IN  [after EXCEPT !.ready = SelectSeq(@, LAMBDA p : Queued(after, p))]

\* Mutant of RetainPeers: the removed peers' drops are forgotten.
RetainPeersUncounted(o, authorized) ==
    [o EXCEPT !.queues = [p \in DOMAIN @ \cap authorized |-> @[p]],
              !.ready = SelectSeq(@, LAMBDA p : p \in authorized)]

RetainPeers(o, authorized) ==
    LET Drops(p) == o.queues[p].dropped + o.queues[p].count
    IN  [queues |-> [p \in DOMAIN o.queues \cap authorized |-> o.queues[p]],
         ready |-> SelectSeq(o.ready, LAMBDA p : p \in authorized),
         retired |-> o.retired + MapThenSumSet(Drops, DOMAIN o.queues \ authorized)]

-----------------------------------------------------------------------------
(* PacketInFlight.                                                         *)

NoWindow == [requests |-> {}, total |-> [p \in Peers |-> 0],
             shards |-> [p \in Peers |-> [f \in Flows |-> 0]]]

RecordRequest(w, r) ==
    [requests |-> w.requests \cup {r},
     total |-> [w.total EXCEPT ![r.peer] = @ + 1],
     shards |-> [w.shards EXCEPT ![r.peer][r.flow] = @ + 1]]

\* Mutant of Complete: the shard is not released.
CompleteTotalOnly(w, done) ==
    LET Of(p) == {r \in done : r.peer = p}
    IN  [requests |-> w.requests \ done,
         total |-> [p \in Peers |-> w.total[p] - Cardinality(Of(p))],
         shards |-> w.shards]

\* complete, for each of a set of requests that are in flight.
Complete(w, done) ==
    LET Of(p) == {r \in done : r.peer = p}
        On(p, f) == {r \in Of(p) : r.flow = f}
    IN  [requests |-> w.requests \ done,
         total |-> [p \in Peers |-> w.total[p] - Cardinality(Of(p))],
         shards |-> [p \in Peers |-> [f \in Flows |->
                       w.shards[p][f] - Cardinality(On(p, f))]]]

ExpireInFlight(w) ==
    Complete(w, {r \in w.requests : now - r.at > InFlightTimeout})

\* Mutant of PacketInFlightAllows: a datagram may pass the streams.
PacketInFlightAllowsMixed(p, k) ==
    /\ window.total[p] < Limit
    /\ k.ordered => window.shards[p][k.flow] < OrderedWindow

PacketInFlightAllows(p, k) ==
    /\ window.total[p] < Limit
    /\ \/ decision[p] = "StreamFallback" /\ ~k.ordered
       \/ window.shards[p][k.flow] <
            (IF decision[p] = "StreamFallback" THEN OrderedWindow ELSE 1)

Ready(p, k) == decision[p] # "Blocked" /\ PacketInFlightAllows(p, k)

-----------------------------------------------------------------------------
(* The drain.                                                              *)

\* What drain_outbound_queue does before its loop.
BeginDrain(o, w) ==
    /\ window' = ExpireInFlight(w)
    /\ out' = DropExpired(o)
    /\ draining' = TRUE

\* Mutant of FirstReady: the newest ready packet is taken.
LastReady(p) == Max({i \in 1..Len(out.queues[p].packets) :
                       Ready(p, out.queues[p].packets[i])})

FirstReady(p) == Min({i \in 1..Len(out.queues[p].packets) :
                        Ready(p, out.queues[p].packets[i])})

HasReadyPacket(p) ==
    \E i \in 1..Len(out.queues[p].packets) : Ready(p, out.queues[p].packets[i])

ReadyPositions == {i \in 1..Len(out.ready) : HasReadyPacket(out.ready[i])}

\* dequeue_ready_packet: the peers passed over go behind the others, and so
\* does the peer that is served when packets of its are left.
Dequeued(o, i, n) ==
    LET p == o.ready[i]
        rotated == SubSeq(o.ready, i + 1, Len(o.ready)) \o SubSeq(o.ready, 1, i - 1)
    IN  [o EXCEPT !.queues[p] = Taken(@, n),
                  !.ready = IF o.queues[p].count > 1 THEN Append(rotated, p) ELSE rotated]

StreamRequest(p, k) == [peer |-> p, flow |-> k.flow, at |-> now, seq |-> k.seq]

\* One pass of the loop.  A datagram that cannot be sent may demote the path
\* and fall back to a stream; a packet that cannot be sent at all is dropped.
SendNext ==
    /\ draining
    /\ ReadyPositions # {}
    /\ LET i == Min(ReadyPositions)
           p == out.ready[i]
           k == out.queues[p].packets[FirstReady(p)]
           handOver == /\ out' = Dequeued(out, i, FirstReady(p))
                       /\ left' = left + 1
       IN  /\ handOver
           /\ \/ /\ decision[p] = "PacketPlaneDatagram"
                 /\ UNCHANGED <<window, decision>>
              \/ /\ decision[p] = "PacketPlaneDatagram"
                 /\ \E d \in Decisions : decision' = [decision EXCEPT ![p] = d]
                 /\ \E w \in {window, RecordRequest(window, StreamRequest(p, k))} :
                       window' = w
              \/ /\ decision[p] = "StreamFallback"
                 /\ \E w \in {window, RecordRequest(window, StreamRequest(p, k))} :
                       window' = w
                 /\ UNCHANGED decision
    /\ UNCHANGED <<now, draining, offered>>

FinishDrain ==
    /\ draining
    /\ ReadyPositions = {}
    /\ draining' = FALSE
    /\ UNCHANGED <<now, out, window, decision, offered, left>>

-----------------------------------------------------------------------------
(* The handlers.                                                           *)

Init ==
    /\ now = 0
    /\ out = [queues |-> <<>>, ready |-> <<>>, retired |-> 0]
    /\ window = NoWindow
    /\ decision = [p \in Peers |-> "Blocked"]
    /\ draining = FALSE
    /\ offered = 0
    /\ left = 0

\* A packet from the TUN for a routed peer.
TunPacket(p, kind) ==
    /\ ~draining
    /\ offered < MaxOffered
    /\ now + MaxAge < MaxNow
    /\ offered' = offered + 1
    /\ LET k == [flow |-> kind.flow, ordered |-> kind.ordered, size |-> kind.size,
                 seq |-> offered + 1, at |-> now]
       IN  BeginDrain(Enqueue(out, p, k), window)
    /\ UNCHANGED <<now, decision, left>>

\* A response or an outbound failure for a request in flight; a failure may
\* demote the path.
PacketEvent(r) ==
    /\ ~draining
    /\ BeginDrain(out, Complete(window, {r}))
    /\ \E d \in Decisions : decision' = [decision EXCEPT ![r.peer] = d]
    /\ UNCHANGED <<now, offered, left>>

\* Any other swarm event, one that changes a path included.  An answer to a
\* request that is no longer in flight is one of them.
SwarmEvent(p, d) ==
    /\ ~draining
    /\ BeginDrain(out, window)
    /\ decision' = [decision EXCEPT ![p] = d]
    /\ UNCHANGED <<now, offered, left>>

QueueExpiryTick ==
    /\ ~draining
    /\ out' = DropExpired(out)
    /\ UNCHANGED <<now, window, decision, draining, offered, left>>

\* send_path_probes: a probe counts against the window without asking it.
PathProbe(p) ==
    LET probe == [peer |-> p, flow |-> ProbeFlow, at |-> now, seq |-> 0]
    IN  /\ ~draining
        /\ decision[p] = "StreamFallback"
        /\ probe \notin window.requests      \* one probe per tick
        /\ window' = RecordRequest(window, probe)
        /\ UNCHANGED <<now, out, decision, draining, offered, left>>

\* handle_runtime_network_change
NetworkChanged ==
    /\ ~draining
    /\ window' = NoWindow
    /\ decision' = [p \in Peers |-> "Blocked"]
    /\ UNCHANGED <<now, out, draining, offered, left>>

\* reconcile_packet_cache_authorization: the capabilities of a removed peer go
\* too, so nothing can be sent to it; its requests stay in flight.
AuthorizationChanged(authorized) ==
    /\ ~draining
    /\ out' = RetainPeers(out, authorized)
    /\ decision' = [p \in Peers |-> IF p \in authorized THEN decision[p] ELSE "Blocked"]
    /\ UNCHANGED <<now, window, draining, offered, left>>

Tick ==
    /\ ~draining
    /\ now < MaxNow
    /\ now' = now + 1
    /\ UNCHANGED <<out, window, decision, draining, offered, left>>

Next ==
    \/ SendNext
    \/ FinishDrain
    \/ \E p \in Peers, kind \in Kinds : TunPacket(p, kind)
    \/ \E r \in window.requests : PacketEvent(r)
    \/ \E p \in Peers, d \in Decisions : SwarmEvent(p, d)
    \/ QueueExpiryTick
    \/ \E p \in Peers : PathProbe(p)
    \/ NetworkChanged
    \/ \E authorized \in SUBSET Peers : AuthorizationChanged(authorized)
    \/ Tick

Spec == Init /\ [][Next]_outboundVars

\* The runner's loop finishes the drain it is in (every pass takes a packet off a
\* queue, so it can), the expiry timer fires when no event keeps the loop busy,
\* and time passes in any case (the model has it stand still during a drain, hence
\* SF); nothing is assumed of peers, paths or the TUN.
FairSpec ==
    /\ Spec
    /\ WF_draining(draining /\ draining' = FALSE)
    /\ WF_out(QueueExpiryTick)
    /\ SF_now(~draining /\ now < MaxNow /\ now' = now + 1)

-----------------------------------------------------------------------------
(* Properties.                                                             *)

\* The ready ring of PeerQueues names exactly the peers that have packets,
\* each once: a peer missing from it would never be served again, one that is
\* there twice would be served out of turn.
RingIsQueuedPeers ==
    /\ IsInjective(out.ready)
    /\ ToSet(out.ready) = {p \in Peers : Queued(out, p)}

\* Every packet read from the TUN is in a queue, was counted as dropped
\* (retired peers included) or was handed to a transport, and the counters of
\* a queue match what it holds.
PacketsAreAccounted ==
    LET Held(p) == out.queues[p].count + out.queues[p].dropped
    IN  /\ offered = left + out.retired + MapThenSumSet(Held, DOMAIN out.queues)
        /\ \A p \in DOMAIN out.queues :
             /\ out.queues[p].count = Len(out.queues[p].packets)
             /\ out.queues[p].bytes =
                  FoldSeq(LAMBDA k, sum : sum + k.size, 0, out.queues[p].packets)

\* PacketInFlight's counts are those of the requests in flight, and at most Limit
\* packets of a peer are in flight on streams, whatever responses, timeouts, path
\* probes and changes of transport do to the counts: a count that leaks closes a flow
\* for good, one that is lost opens the window.
WindowCountsRequests ==
    \A p \in Peers :
      /\ window.total[p] = Cardinality({r \in window.requests : r.peer = p})
      /\ \A f \in Flows : window.shards[p][f] =
           Cardinality({r \in window.requests : r.peer = p /\ r.flow = f})
      /\ Cardinality({r \in window.requests : r.peer = p /\ r.seq # 0}) <= Limit

\* Ordered packets of one flow leave a peer's queue in the order they came in,
\* though the drain may pass over packets whose flow is full
\* (requires_ordered_delivery, dequeue_ready).
OrderedFlowsKeepOrder ==
    [][\A p \in DOMAIN out.queues :
         LET before == out.queues[p].packets
             Stays(k) == /\ p \in DOMAIN out'.queues
                         /\ Contains(out'.queues[p].packets, k)
         IN  \A i, j \in 1..Len(before) :
               /\ i < j
               /\ before[i].ordered /\ before[j].ordered
               /\ before[i].flow = before[j].flow
               /\ ~Stays(before[j])
               => ~Stays(before[i])]_outboundVars

\* A packet is sent as a datagram only when no stream request of its flow is
\* in flight, so a change of transport does not reorder a flow.
DatagramsDoNotOvertake ==
    [][\A p \in DOMAIN out.queues :
         (left' > left /\ decision[p] = "PacketPlaneDatagram") =>
           \A k \in ToSet(out.queues[p].packets) \ ToSet(out'.queues[p].packets) :
             ~\E r \in window.requests : r.peer = p /\ r.flow = k.flow]_outboundVars

\* A packet never waits in a queue for ever: the drain hands it over, or the
\* expiry timer drops it.
QueuesEmpty ==
    \A p \in Peers : Queued(out, p) ~> ~Queued(out, p)
=============================================================================
