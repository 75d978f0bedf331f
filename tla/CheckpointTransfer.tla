------------------------- MODULE CheckpointTransfer -------------------------
(***************************************************************************)
(* Paged transfer of snapshot offers (runtime/control/checkpoint.rs and    *)
(* the transport half of checkpoint_runtime.rs): publication and assembly  *)
(* sessions, retired nonces and the byte budget, under failures,           *)
(* restarts and the clock; a lost message is one that never arrives.       *)
(* Sizes count in pages.                                                   *)
(***************************************************************************)
EXTENDS Naturals, Sequences, FiniteSets, FiniteSetsExt, Functions

CONSTANTS Devices,
          Sizes,          \* pages of the offer made from state version i
          MaxSessions, MaxSessionsPerPeer, MaxBuffered, MaxResponses,
          SessionTimeout,
          None,
          MaxNonces,      \* bound: rounds of a device
          MaxNow,         \* bound: the clock
          MaxRestarts     \* bound: restarts

ASSUME TransferAssumption ==
    /\ {MaxSessions, MaxSessionsPerPeer, MaxBuffered, MaxResponses,
        SessionTimeout} \subseteq Nat \ {0}
    /\ {MaxNonces, MaxNow, MaxRestarts} \subseteq Nat
    /\ Sizes \in Seq(Nat \ {0})
    /\ None \notin [nonce : Nat, attempted : SUBSET Devices, deadline : Nat]

VARIABLES
    now,
    sync,       \* CheckpointSync of each device
    round,      \* the open resync round: nonce, deadline, attempted
    requests,   \* outbound page requests
    responses,  \* pages being sent
    wire,
    nonces,     \* nonces used
    restarts

transferVars ==
    <<now, sync, round, requests, responses, wire, nonces, restarts>>

\* The publisher's state at a request; 0 when it may not publish.
Versions == DOMAIN Sizes \cup {0}

-----------------------------------------------------------------------------
(* Sessions and their budget.                                              *)

Key(peer, nonce, direction) == <<peer, nonce, direction>>
PeerOf(key) == key[1]
DirectionOf(key) == key[3]

NoSessions == [open |-> << >>, retired |-> << >>, buffered |-> 0]

Charged(open) == MapThenSumSet(LAMBDA k : open[k].total, DOMAIN open)

\* Mutant of Cleanup: the bytes of an expired session stay charged.
CleanupUncharged(s) ==
    [s EXCEPT !.open = Restrict(@, {k \in DOMAIN @ : now < @[k].deadline}),
              !.retired = Restrict(@, {k \in DOMAIN @ : now < @[k]})]

\* Mutant of Cleanup: only publications expire.
CleanupPublications(s) ==
    LET live == {k \in DOMAIN s.open : \/ now < s.open[k].deadline
                                       \/ DirectionOf(k) = "Assemble"}
    IN  [open |-> Restrict(s.open, live),
         retired |-> Restrict(s.retired, {k \in DOMAIN s.retired : now < s.retired[k]}),
         buffered |-> s.buffered - Charged(Restrict(s.open, DOMAIN s.open \ live))]

\* cleanup, at the head of every operation.
Cleanup(s) ==
    LET live == {k \in DOMAIN s.open : now < s.open[k].deadline}
    IN  [open |-> Restrict(s.open, live),
         retired |-> Restrict(s.retired, {k \in DOMAIN s.retired : now < s.retired[k]}),
         buffered |-> s.buffered - Charged(Restrict(s.open, DOMAIN s.open \ live))]

Slots(s) == DOMAIN s.open \cup DOMAIN s.retired

\* reserve_slot: neither Replay nor ResourceLimit.
CanReserve(s, key) ==
    /\ key \notin Slots(s)
    /\ Cardinality(Slots(s)) < MaxSessions
    /\ Cardinality({k \in Slots(s) : PeerOf(k) = PeerOf(key)}) < MaxSessionsPerPeer

CanBuffer(s, pages) == s.buffered + pages <= MaxBuffered

Open(s, key, session) ==
    [open |-> [k \in DOMAIN s.open \cup {key} |-> IF k = key THEN session ELSE s.open[k]],
     retired |-> s.retired,
     buffered |-> s.buffered + session.total]

\* Mutant of Retire: the nonce is forgotten with its session.
RetireForgotten(s, keys) ==
    [s EXCEPT !.open = Restrict(@, DOMAIN @ \ keys),
              !.buffered = @ - Charged(Restrict(s.open, keys \cap DOMAIN s.open))]

\* retire of each of these keys: an open session leaves its nonce reserved.
Retire(s, keys) ==
    LET gone == keys \cap DOMAIN s.open
    IN  [open |-> Restrict(s.open, DOMAIN s.open \ gone),
         retired |-> [k \in gone \cup DOMAIN s.retired |->
                        IF k \in gone THEN s.open[k].deadline ELSE s.retired[k]],
         buffered |-> s.buffered - Charged(Restrict(s.open, gone))]

BothWays(peer, nonce) == {Key(peer, nonce, "Publish"), Key(peer, nonce, "Assemble")}

Cancel(s, peer, nonce) == Retire(Cleanup(s), BothWays(peer, nonce))

Request(from, to, nonce, cursor, digest) ==
    [kind |-> "Request", from |-> from, to |-> to, nonce |-> nonce,
     cursor |-> cursor, digest |-> digest]

-----------------------------------------------------------------------------
(* The requester.                                                          *)

\* begin_resync, with a fresh nonce.
BeginResync(d) ==
    /\ round[d] = None
    /\ nonces < MaxNonces
    /\ now + SessionTimeout <= MaxNow
    /\ nonces' = nonces + 1
    /\ round' = [round EXCEPT ![d] = [nonce |-> nonces + 1, attempted |-> {},
                                      deadline |-> now + SessionTimeout]]
    /\ UNCHANGED <<now, sync, requests, responses, wire, restarts>>

\* drive_sync without a round: it cleans up.
Idle(d) ==
    /\ sync' = [sync EXCEPT ![d] = Cleanup(@)]
    /\ UNCHANGED <<now, round, requests, responses, wire, nonces, restarts>>

\* drive_sync for one connected peer: start_request.
StartRequest(d, p) ==
    LET s == Cleanup(sync[d])
        key == Key(p, round[d].nonce, "Assemble")
        m == Request(d, p, round[d].nonce, 0, 0)
    IN  /\ round[d] # None
        /\ now < round[d].deadline
        /\ d # p
        /\ p \notin round[d].attempted
        /\ CanReserve(s, key)
        /\ sync' = [sync EXCEPT ![d] =
             Open(s, key, [digest |-> 0, total |-> 0, cursor |-> 0,
                           deadline |-> round[d].deadline])]
        /\ round' = [round EXCEPT ![d].attempted = @ \cup {p}]
        /\ requests' = [requests EXCEPT ![d] = @ \cup {m}]
        /\ wire' = wire \cup {m}
        /\ UNCHANGED <<now, responses, nonces, restarts>>

\* assemble_page accepts this page in answer to request r.
Assembles(s, key, r, m) ==
    /\ key \in DOMAIN s.open
    /\ m.kind = "Page"
    /\ r.cursor = s.open[key].cursor
    /\ r.digest = s.open[key].digest
    /\ m.cursor = r.cursor
    /\ IF r.digest = 0 THEN CanBuffer(s, m.total)
       ELSE m.digest = r.digest /\ m.total = s.open[key].total

\* The first page reserves the bytes of the whole offer.
Extended(s, key, m) ==
    LET session == s.open[key]
    IN  [s EXCEPT !.open[key] = [session EXCEPT !.digest = m.digest, !.total = m.total,
                                                !.cursor = @ + 1],
                  !.buffered = @ + (m.total - session.total)]

\* A response arrives: without its request it is dropped; a refused or invalid page
\* ends the session, the last page completes it and any other asks for the next.
AcceptResponse(d, m) ==
    LET r == Request(d, m.from, m.nonce, m.cursor, m.sought)
        key == Key(m.from, m.nonce, "Assemble")
        s == Cleanup(sync[d])
        more == Request(d, m.from, m.nonce, m.cursor + 1, m.digest)
        owned == r \in requests[d]
        valid == owned /\ Assembles(s, key, r, m)
        last == valid /\ m.cursor + 1 = m.total
    IN  /\ m.to = d
        /\ sync' = [sync EXCEPT ![d] =
             CASE ~owned -> @
               [] owned /\ ~valid -> Cancel(@, m.from, m.nonce)
               [] valid -> IF last THEN Retire(Extended(s, key, m), {key})
                           ELSE Extended(s, key, m)]
        /\ requests' = [requests EXCEPT ![d] =
             (@ \ {r}) \cup (IF valid /\ ~last THEN {more} ELSE {})]
        /\ wire' = (wire \ {m}) \cup (IF valid /\ ~last THEN {more} ELSE {})
        /\ UNCHANGED <<now, round, responses, nonces, restarts>>

\* retire_outbound: the request failed, or its response is discarded.
OutboundFailure(d, r) ==
    /\ requests' = [requests EXCEPT ![d] = @ \ {r}]
    /\ sync' = [sync EXCEPT ![d] = Cancel(@, r.to, r.nonce)]
    /\ UNCHANGED <<now, round, responses, wire, nonces, restarts>>

\* Mutant of RetireResync: the requests of the round are only forgotten.
RetireResyncForgetting(d) ==
    /\ round[d] # None
    /\ round' = [round EXCEPT ![d] = None]
    /\ requests' = [requests EXCEPT ![d] = {}]
    /\ UNCHANGED <<now, sync, responses, wire, nonces, restarts>>

\* retire_resync: finish_due after the deadline, or install_gated before it.  The
\* requests are cancelled one by one, all at the same time.
RetireResync(d) ==
    /\ round[d] # None
    /\ round' = [round EXCEPT ![d] = None]
    /\ requests' = [requests EXCEPT ![d] = {}]
    /\ sync' = [sync EXCEPT ![d] =
         IF requests[d] = {} THEN @
         ELSE Retire(Cleanup(@), UNION {BothWays(r.to, r.nonce) : r \in requests[d]})]
    /\ UNCHANGED <<now, responses, wire, nonces, restarts>>

-----------------------------------------------------------------------------
(* The publisher.                                                          *)

\* publish_page: the sessions after it, or None when it refuses.
Published(s, key, m, v) ==
    LET first == [digest |-> v, total |-> Sizes[v], cursor |-> 0,
                  deadline |-> now + SessionTimeout]
    IN  IF key \in DOMAIN s.open
        THEN IF /\ s.open[key].cursor = m.cursor
                /\ m.cursor # 0 => m.digest = s.open[key].digest
             THEN s ELSE None
        ELSE IF /\ CanReserve(s, key)
                /\ m.cursor = 0
                /\ v # 0
                /\ CanBuffer(s, Sizes[v])
             THEN Open(s, key, first) ELSE None

Rejected(m) ==
    [kind |-> "Rejected", from |-> m.to, to |-> m.from, nonce |-> m.nonce,
     cursor |-> m.cursor, sought |-> m.digest]

\* respond_at and the reply of handle_wire_event, in state version v.
RespondAt(m, v) ==
    LET d == m.to
        key == Key(m.from, m.nonce, "Publish")
        s == Cleanup(sync[d])
        after == Published(s, key, m, v)
        session == after.open[key]
        page == [kind |-> "Page", from |-> d, to |-> m.from, nonce |-> m.nonce,
                 cursor |-> m.cursor, sought |-> m.digest,
                 digest |-> session.digest, total |-> session.total]
        advanced == [after EXCEPT !.open[key].cursor = @ + 1]
    IN  /\ m.kind = "Request"
        /\ IF Cardinality(responses[d]) >= MaxResponses
           THEN /\ wire' = (wire \ {m}) \cup {Rejected(m)}
                /\ UNCHANGED <<sync, responses>>
           ELSE IF after = None
           THEN /\ wire' = (wire \ {m}) \cup {Rejected(m)}
                /\ sync' = [sync EXCEPT ![d] = Retire(s, {key})]
                /\ UNCHANGED responses
           ELSE /\ wire' = (wire \ {m}) \cup {page}
                /\ sync' = [sync EXCEPT ![d] =
                     IF m.cursor + 1 = session.total THEN Retire(advanced, {key})
                     ELSE advanced]
                /\ responses' = [responses EXCEPT ![d] = @ \cup {page}]
        /\ UNCHANGED <<now, round, requests, nonces, restarts>>

ResponseSent(d, page) ==
    /\ responses' = [responses EXCEPT ![d] = @ \ {page}]
    /\ UNCHANGED <<now, sync, round, requests, wire, nonces, restarts>>

InboundFailure(d, page) ==
    /\ responses' = [responses EXCEPT ![d] = @ \ {page}]
    /\ sync' = [sync EXCEPT ![d] = Cancel(@, page.to, page.nonce)]
    /\ UNCHANGED <<now, round, requests, wire, nonces, restarts>>

-----------------------------------------------------------------------------
(* The surroundings.                                                       *)

Restart(d) ==
    /\ restarts < MaxRestarts
    /\ restarts' = restarts + 1
    /\ sync' = [sync EXCEPT ![d] = NoSessions]
    /\ round' = [round EXCEPT ![d] = None]
    /\ requests' = [requests EXCEPT ![d] = {}]
    /\ responses' = [responses EXCEPT ![d] = {}]
    /\ UNCHANGED <<now, wire, nonces>>

Tick ==
    /\ now < MaxNow
    /\ now' = now + 1
    /\ UNCHANGED <<sync, round, requests, responses, wire, nonces, restarts>>

-----------------------------------------------------------------------------
(* Specification.                                                          *)

TransferInit ==
    /\ now = 0
    /\ sync = [d \in Devices |-> NoSessions]
    /\ round = [d \in Devices |-> None]
    /\ requests = [d \in Devices |-> {}]
    /\ responses = [d \in Devices |-> {}]
    /\ wire = {}
    /\ nonces = 0
    /\ restarts = 0

TransferNext ==
    \/ \E d \in Devices :
         \/ BeginResync(d) \/ Idle(d) \/ RetireResync(d) \/ Restart(d)
         \/ \E p \in Devices : StartRequest(d, p)
         \/ \E r \in requests[d] : OutboundFailure(d, r)
         \/ \E page \in responses[d] : ResponseSent(d, page) \/ InboundFailure(d, page)
    \/ \E m \in wire :
         \/ \E v \in Versions : RespondAt(m, v)
         \/ m.kind # "Request" /\ AcceptResponse(m.to, m)
    \/ Tick

TransferSpec == TransferInit /\ [][TransferNext]_transferVars

\* Time passes and the checkpoint tick of every device cleans up.
FairTransferSpec ==
    /\ TransferSpec
    /\ WF_transferVars(Tick)
    /\ \A d \in Devices : WF_transferVars(Idle(d))

-----------------------------------------------------------------------------
(* Properties.                                                             *)

\* buffered_bytes is what the open sessions hold, whichever of expiry, completion,
\* refusal or cancellation ended the others: it never underflows, and the budget
\* is neither exceeded nor leaked away.
BufferIsAccounted ==
    \A d \in Devices :
      /\ sync[d].buffered = Charged(sync[d].open)
      /\ sync[d].buffered <= MaxBuffered

\* An assembly under way always waits for exactly one request that continues it;
\* one without would hold its slot and bytes with nobody to finish it.
AssembliesAreAwaited ==
    \A d \in Devices : \A k \in DOMAIN sync[d].open :
      DirectionOf(k) = "Assemble" =>
        {r \in requests[d] : r.to = PeerOf(k) /\ r.nonce = k[2]}
          = {Request(d, PeerOf(k), k[2], sync[d].open[k].cursor, sync[d].open[k].digest)}

\* A nonce stays taken until the deadline its session was opened with, also after
\* the session was completed or cancelled ("reserved until their original
\* deadline"); only a restart forgets it.
NoncesStayReserved ==
    [][\A d \in Devices :
         restarts' = restarts =>
           /\ \A k \in DOMAIN sync[d].open : now < sync[d].open[k].deadline =>
                 k \in Slots(sync'[d])
           /\ \A k \in DOMAIN sync[d].retired : now < sync[d].retired[k] =>
                 k \in DOMAIN sync'[d].retired]_transferVars

\* Every assembly ends by its deadline, whatever is lost: its slot and bytes
\* become free again.
AssembliesEnd ==
    \A d \in Devices :
      (\E k \in DOMAIN sync[d].open : DirectionOf(k) = "Assemble")
        ~> (\A k \in DOMAIN sync[d].open : DirectionOf(k) # "Assemble")
=============================================================================
