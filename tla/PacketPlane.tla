----------------------------- MODULE PacketPlane ----------------------------
(***************************************************************************)
(* Packet-plane sessions over UDP between two peers (packet_plane.rs and   *)
(* the negotiation in runtime/runner.rs).                                  *)
(*                                                                         *)
(* The peer with the lower id sends a Hello over the control protocol, the *)
(* other installs the session and answers with an Accept.  Before a        *)
(* session expires the initiator negotiates the next one; each end keeps   *)
(* the previous keys for what is still under way.  Control requests are    *)
(* lost and arrive late, datagrams are lost, duplicated and reordered.     *)
(***************************************************************************)
EXTENDS ReplayWindow, FiniteSets

CONSTANTS Initiator, Responder,
          Nobody,
          Ttl,         \* session_ttl
          Lead,        \* renewal lead: min(ttl / 4, 60 s)
          MaxHellos,   \* bound: Hellos sent
          MaxFrames,   \* bound: the datagrams of each end
          MaxTrouble   \* bound: failed requests and sends, unanswered probes, refused
                       \* datagrams, forgotten peers

ASSUME PlaneAssumption ==
    /\ Initiator # Responder
    /\ {Ttl, Lead, MaxHellos, MaxFrames, MaxTrouble} \subseteq Nat
    /\ 0 < Lead /\ 2 * Lead < Ttl

VARIABLES
    session,    \* sessions: key, endpoint of the peer, age, replay window
    previous,   \* retiring_sessions, with tx for use_for_tx
    pending,    \* the initiator's PendingPacketPlaneHello
    endpoint,   \* the advertised UDP endpoint of each end
    known,      \* the endpoint each end has in the other's capabilities
    healthy,    \* the path DirectUdpDatagram is healthy
    probe,      \* the datagram of the pending path probe
    hellos,     \* Hellos that may still be handled
    replies,    \* Accepts and rejections under way
    open,       \* control requests of the initiator that have not ended
    hello,      \* Hellos so far
    wire,       \* datagrams sent; any may arrive at any time, or again
    frame,      \* take_outbound_sequence: datagrams so far
    got,        \* history: key and sequence of every accepted datagram
    replayed,   \* history: one was accepted twice
    outrun,     \* history: a Hello was handled after a later one
    lost,       \* history: keys that expired at an end or were forgotten there
    steady,     \* history: the initiator's path has been healthy since a probe was
                \* answered
    trouble

controlVars == <<pending, hellos, replies, open, hello>>
planeVars == <<session, previous, endpoint, known, healthy, probe, controlVars,
               wire, frame, got, replayed, outrun, lost, steady, trouble>>

Ends == {Initiator, Responder}
Peer(d) == IF d = Initiator THEN Responder ELSE Initiator

(* ------------------------------- sessions ------------------------------ *)

\* has_retiring_session
Overlaps(d) ==
    /\ session[d] # Nobody /\ previous[d] # Nobody
    /\ previous[d].endpoint = session[d].endpoint
    /\ previous[d].age < Ttl

\* The session send_frame_to_peer_from seals with.
Sealing(d) == IF Overlaps(d) /\ previous[d].tx THEN previous[d] ELSE session[d]

\* The keys open_session_datagram tries.
Opens(d) == {s.key : s \in ({session[d]} \ {Nobody}) \cup
                            (IF Overlaps(d) THEN {previous[d]} ELSE {})}

NewSession(key, remote) ==
    [key |-> key, endpoint |-> remote, age |-> 0, window |-> NewWindow, tx |-> FALSE]

\* Mutant of Retired: the replaced session retires, confirmed or not.
RetiredAlways(d, remote) ==
    IF session[d] # Nobody /\ session[d].endpoint = remote /\ session[d].age < Ttl
    THEN [session[d] EXCEPT !.tx = (d = Responder)]
    ELSE Nobody

\* Mutant of Retired: the retiring session starts with new replay windows.
RetiredFresh(d, remote) ==
    IF RetiredAlways(d, remote) = Nobody THEN Nobody
    ELSE [RetiredAlways(d, remote) EXCEPT !.window = NewWindow]

\* What install_session keeps: the responder's previous keys while it still sends
\* with them, else the replaced session, with its age and its replay window.
Retired(d, remote) ==
    IF /\ d = Responder /\ previous[d] # Nobody
       /\ previous[d].tx /\ previous[d].endpoint = remote /\ previous[d].age < Ttl
    THEN previous[d]
    ELSE IF session[d] # Nobody /\ session[d].endpoint = remote /\ session[d].age < Ttl
         THEN [session[d] EXCEPT !.tx = (d = Responder)]
         ELSE Nobody

\* establish_session_overlapping, and the path and probe state that goes with it.
Install(d, key, remote) ==
    /\ session' = [session EXCEPT ![d] = NewSession(key, remote)]
    /\ previous' = [previous EXCEPT ![d] = Retired(d, remote)]
    /\ healthy' = [healthy EXCEPT ![d] = @ /\ Retired(d, remote) # Nobody]
    /\ probe' = [probe EXCEPT ![d] = 0]
    /\ steady' = (steady /\ healthy'[Initiator])

Forgotten(d) ==
    /\ session' = [session EXCEPT ![d] = Nobody]
    /\ previous' = [previous EXCEPT ![d] = Nobody]
    /\ healthy' = [healthy EXCEPT ![d] = FALSE]
    /\ lost' = [lost EXCEPT ![d] = @ \cup Opens(d)]
    /\ steady' = (steady /\ healthy'[Initiator])

(* ------------------------------ negotiation ---------------------------- *)

\* renewal_due_for_peer
RenewalDue ==
    /\ session[Initiator] # Nobody
    /\ session[Initiator].age >= Ttl - Lead /\ session[Initiator].age < Ttl

\* packet_plane_negotiation_backend chooses UDP.
NeedsHello ==
    \/ session[Initiator] = Nobody
    \/ session[Initiator].endpoint # known[Initiator]
    \/ ~healthy[Initiator]
    \/ RenewalDue

\* maybe_send_packet_plane_hello, in the state the handler has reached; p is the
\* Hello pending there.  Only the initiator sends one.
Negotiate(d, p) ==
    IF d = Initiator /\ p = 0 /\ NeedsHello'
    THEN /\ hello < MaxHellos
         /\ hello' = hello + 1
         /\ pending' = hello + 1
         /\ hellos' = hellos \cup {[id |-> hello + 1, endpoint |-> endpoint[d]]}
         /\ open' = open \cup {hello + 1}
    ELSE pending' = p /\ UNCHANGED <<hello, hellos, open>>

\* accept_packet_plane_hello answers the Hello and installs the session, unless it
\* refuses: the endpoint is not the advertised one, or the sender has no authority
\* or no direct path here (admitted is FALSE).
AcceptHello(h, admitted) ==
    /\ hellos' = hellos \ {h}
    /\ LET ok == admitted /\ h.endpoint = known[Responder]
       IN /\ outrun' = (outrun \/ (ok /\ \E k \in Opens(Responder) : k.hello > h.id))
          /\ IF ok THEN Install(Responder, [hello |-> h.id, accept |-> h.id], h.endpoint)
                   ELSE UNCHANGED <<session, previous, healthy, probe, steady>>
          /\ replies' = IF h.id \notin open THEN replies
                        ELSE replies \cup {[id |-> h.id, ok |-> ok, endpoint |-> endpoint[Responder]]}
    /\ trouble' = IF admitted THEN trouble ELSE trouble + 1
    /\ UNCHANGED <<pending, open, hello, endpoint, known, wire, frame, got, replayed, lost>>

\* owns_request
OwnsReply(r) == pending = r.id

\* A reply arrives.  One to a Hello that is no longer pending is ignored; otherwise
\* complete_packet_plane_hello installs the session or the Hello is cancelled.
HearReply(r) ==
    /\ open' = open \ {r.id}
    /\ replies' = replies \ {r}
    /\ pending' = IF OwnsReply(r) THEN 0 ELSE pending
    /\ IF OwnsReply(r) /\ r.ok /\ r.endpoint = known[Initiator]
       THEN Install(Initiator, [hello |-> pending, accept |-> r.id], r.endpoint)
       ELSE UNCHANGED <<session, previous, healthy, probe, steady>>
    /\ UNCHANGED <<hellos, hello, endpoint, known, wire, frame, got, replayed, outrun, lost, trouble>>

\* finish_failed_request: the request times out or its connection closes.  The peer
\* may handle it nevertheless, or have handled it; what it answers is lost.
RequestFails(id) ==
    /\ trouble < MaxTrouble /\ trouble' = trouble + 1
    /\ open' = open \ {id}
    /\ pending' = IF pending = id THEN 0 ELSE pending
    /\ replies' = {r \in replies : r.id # id}
    /\ UNCHANGED <<session, previous, healthy, probe, hellos, hello, endpoint, known,
                   wire, frame, got, replayed, outrun, lost, steady>>

\* The capabilities of the peer arrive.
LearnEndpoint(d) ==
    /\ known[d] # endpoint[Peer(d)]
    /\ known' = [known EXCEPT ![d] = endpoint[Peer(d)]]
    /\ UNCHANGED <<session, healthy>>
    /\ Negotiate(d, pending)
    /\ UNCHANGED <<previous, probe, replies, endpoint, wire, frame, got, replayed, outrun, lost,
                   steady, trouble>>

(* -------------------------- time and forgetting ------------------------ *)

Older(s) == IF s # Nobody /\ s.age < Ttl THEN [s EXCEPT !.age = @ + 1] ELSE s

\* A unit of time is longer than PATH_PROBE_INTERVAL and PATH_PROBE_TIMEOUT: where no
\* probe stayed unanswered, one sent with keys that old was answered.
Elapse ==
    /\ steady /\ session[Initiator].age > 0 => session[Initiator].window # NewWindow
    /\ \E d \in Ends : session[d] # Older(session[d])
    /\ session' = [d \in Ends |-> Older(session[d])]
    /\ previous' = [d \in Ends |-> Older(previous[d])]
    /\ lost' = [d \in Ends |-> lost[d] \cup
           {s.key : s \in {x \in {session'[d], previous'[d]} \ {Nobody} : x.age >= Ttl}}]
    /\ UNCHANGED <<healthy, probe, controlVars, endpoint, known, wire, frame, got, replayed,
                   outrun, steady, trouble>>

\* The maintenance tick: expire_pending_packet_plane_hellos (stale says that the
\* pending Hello timed out) and expire_packet_plane_sessions.
Expire(d, stale) ==
    LET expired == session[d] # Nobody /\ session[d].age >= Ttl
        lapsed == previous[d] # Nobody /\ previous[d].age >= Ttl
        left == IF stale THEN 0 ELSE pending
    IN /\ stale => d = Initiator /\ pending # 0 /\ trouble < MaxTrouble
       /\ stale \/ expired \/ lapsed \/ RenewalDue
       /\ session' = [session EXCEPT ![d] = IF expired THEN Nobody ELSE @]
       /\ previous' = [previous EXCEPT ![d] = IF expired \/ lapsed THEN Nobody ELSE @]
       /\ healthy' = [healthy EXCEPT ![d] = @ /\ ~expired]
       /\ steady' = (steady /\ healthy'[Initiator])
       /\ trouble' = IF stale THEN trouble + 1 ELSE trouble
       /\ UNCHANGED known
       /\ IF stale \/ expired \/ RenewalDue THEN Negotiate(d, left)
                                            ELSE UNCHANGED <<pending, hello, hellos, open>>
       /\ UNCHANGED <<probe, replies, endpoint, wire, frame, got, replayed, outrun, lost>>

\* The end changes its network (moved: and with it its endpoint), or withdraws and
\* restores the peer's authority: forget_all_sessions, or forget_peer.
Forget(d, moved) ==
    /\ trouble < MaxTrouble /\ trouble' = trouble + 1
    /\ Forgotten(d)
    /\ probe' = [probe EXCEPT ![d] = 0]
    /\ pending' = IF d = Initiator THEN 0 ELSE pending
    /\ endpoint' = [endpoint EXCEPT ![d] = IF moved THEN @ + 1 ELSE @]
    /\ UNCHANGED <<known, hellos, replies, open, hello, wire, frame, got, replayed, outrun>>

(* ------------------------------ datagrams ------------------------------ *)

\* send_frame_to_peer, in the state the handler has reached: a "packet", a "probe", or
\* the "ack" of the datagram ack.
Send(d, payload, ack) ==
    /\ frame[d] < MaxFrames
    /\ frame' = [frame EXCEPT ![d] = @ + 1]
    /\ wire' = wire \cup {[from |-> d, key |-> Sealing(d)'.key, source |-> endpoint[d],
                            target |-> Sealing(d)'.endpoint, sequence |-> frame[d] + 1,
                            payload |-> payload, ack |-> ack]}

\* send_dequeued_packet_plane_datagram, where packet_transport_decision takes the healthy
\* UDP path; a send that fails demotes it.
SendPacket(d, failed) ==
    /\ session[d] # Nobody /\ healthy[d]
    /\ failed => trouble < MaxTrouble
    /\ trouble' = IF failed THEN trouble + 1 ELSE trouble
    /\ healthy' = [healthy EXCEPT ![d] = ~failed]
    /\ steady' = (steady /\ healthy'[Initiator])
    /\ UNCHANGED <<session, previous, endpoint>>
    /\ IF failed THEN UNCHANGED <<wire, frame>> ELSE Send(d, "packet", 0)
    /\ UNCHANGED <<probe, known, controlVars, got, replayed, outrun, lost>>

\* The probe tick: a probe not answered in time demotes the path, negotiation is
\* retried, and a probe goes out unless one is pending.
ProbeTick(d, unanswered) ==
    /\ unanswered => probe[d] # 0 /\ trouble < MaxTrouble
    /\ trouble' = IF unanswered THEN trouble + 1 ELSE trouble
    /\ healthy' = [healthy EXCEPT ![d] = @ /\ ~unanswered]
    /\ steady' = (steady /\ healthy'[Initiator])
    /\ UNCHANGED <<session, previous, known, endpoint>>
    /\ Negotiate(d, pending)
    /\ IF session[d] # Nobody /\ (unanswered \/ probe[d] = 0)
       THEN Send(d, "probe", 0) /\ probe' = [probe EXCEPT ![d] = frame[d] + 1]
       ELSE /\ probe' = [probe EXCEPT ![d] = IF unanswered THEN 0 ELSE @]
            /\ UNCHANGED <<wire, frame>>
    /\ UNCHANGED <<replies, got, replayed, outrun, lost>>

\* handle_packet_plane_received: a probe is acknowledged; the answer to the pending probe
\* makes the path healthy, and so does every packet, under whichever keys it came
\* (refresh_packet_plane_path).
HandleReceived(d, m) ==
    LET answers == m.payload = "ack" /\ m.ack = probe[d]
    IN /\ healthy' = [healthy EXCEPT ![d] = @ \/ answers \/ m.payload = "packet"]
       /\ probe' = [probe EXCEPT ![d] = IF answers THEN 0 ELSE @]
       /\ steady' = (steady \/ (d = Initiator /\ answers))
       /\ IF m.payload = "probe" THEN Send(d, "ack", m.sequence) ELSE UNCHANGED <<wire, frame>>

\* recv_frame_from_session_on and open_session_datagram: the current keys first, then
\* the previous ones; the first datagram under the current keys ends sending with the
\* previous.  The rate limiter or the forwarder may then refuse the frame.
Receive(d, m, refused) ==
    LET current == m.key = session[d].key
        held == IF current THEN session[d] ELSE previous[d]
    IN /\ session[d] # Nobody
       /\ m.target = endpoint[d] /\ m.source = session[d].endpoint
       /\ m.key \in Opens(d)
       /\ Accepts(held.window, m.sequence)
       /\ refused => trouble < MaxTrouble
       /\ trouble' = IF refused THEN trouble + 1 ELSE trouble
       /\ IF current
          THEN /\ session' = [session EXCEPT ![d].window = Accept(@, m.sequence)]
               /\ previous' = IF previous[d] = Nobody THEN previous
                              ELSE [previous EXCEPT ![d].tx = FALSE]
          ELSE /\ previous' = [previous EXCEPT ![d].window = Accept(@, m.sequence)]
               /\ UNCHANGED session
       /\ got' = [got EXCEPT ![d] = @ \cup {<<m.key, m.sequence>>}]
       /\ replayed' = (replayed \/ <<m.key, m.sequence>> \in got[d])
       /\ UNCHANGED <<controlVars, endpoint, known, outrun, lost>>
       /\ IF refused THEN UNCHANGED <<healthy, probe, steady, wire, frame>>
                     ELSE HandleReceived(d, m)

(* ---------------------------- specification ---------------------------- *)

PlaneInit ==
    /\ session = [d \in Ends |-> Nobody] /\ previous = [d \in Ends |-> Nobody]
    /\ endpoint = [d \in Ends |-> 0] /\ known = [d \in Ends |-> 0]
    /\ healthy = [d \in Ends |-> FALSE] /\ probe = [d \in Ends |-> 0]
    /\ pending = 0 /\ hellos = {} /\ replies = {} /\ open = {} /\ hello = 0
    /\ wire = {} /\ frame = [d \in Ends |-> 0]
    /\ got = [d \in Ends |-> {}] /\ replayed = FALSE
    /\ outrun = FALSE /\ lost = [d \in Ends |-> {}] /\ steady = FALSE /\ trouble = 0

PlaneNext ==
    \/ \E h \in hellos : AcceptHello(h, TRUE)
    \/ \E h \in hellos : trouble < MaxTrouble /\ AcceptHello(h, FALSE)
    \/ \E r \in replies : HearReply(r)
    \/ \E id \in open : RequestFails(id)
    \/ \E d \in Ends : LearnEndpoint(d)
    \/ Elapse
    \/ \E d \in Ends, stale \in BOOLEAN : Expire(d, stale)
    \/ \E d \in Ends, moved \in BOOLEAN : Forget(d, moved)
    \/ \E d \in Ends, failed \in BOOLEAN : SendPacket(d, failed)
    \/ \E d \in Ends, unanswered \in BOOLEAN : ProbeTick(d, unanswered)
    \/ \E d \in Ends, refused \in BOOLEAN :
           \E m \in {x \in wire : x.from = Peer(d)} : Receive(d, m, refused)

PlaneSpec == PlaneInit /\ [][PlaneNext]_planeVars

(* ------------------------------ properties ----------------------------- *)

\* No end accepts a datagram twice, however often and in whatever order datagrams
\* arrive and however often the session is renewed in between: the replay windows
\* of accept_datagram_at move to the retiring session with install_session.
DeliveredOnce == ~replayed

\* The keys under which an end accepted a datagram.
HeardKeys(d) == {g[1] : g \in got[d]}

\* The responder never moves to keys it has not heard while it holds some it has: not
\* when an Accept is lost and it installs one session after the other, and not when
\* Hellos come late (install_session, use_for_tx).
SealsWithHeardKeys ==
    session[Responder] # Nobody /\ Opens(Responder) \cap HeardKeys(Responder) # {} =>
        Sealing(Responder).key \in HeardKeys(Responder)

\* Keys outlive the renewal that replaces them: while the initiator's path stays as
\* healthy as its last answered probe left it, each end can open what the other sends,
\* or has dropped the keys by expiry or by forgetting the peer (install_session,
\* open_session_datagram, owns_request).  Only a responder that holds no key it ever
\* heard the initiator use may send with one the initiator lacks.  A Hello handled after
\* a later one is excluded.
KeysOutliveRenewal ==
    \A d \in Ends : session[d] # Nobody /\ steady /\ ~outrun =>
        \/ Sealing(d).key \in Opens(Peer(d)) \cup lost[Peer(d)]
        \/ d = Responder /\ Opens(d) \cap HeardKeys(d) = {}
=============================================================================
