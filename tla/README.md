# Verification of p2p-vpn

TLA+ models of the parts of p2p-vpn that keep state across messages, failures and
time, the TLC runs that check them on small instances, and proofs, checked by
TLAPS, of the safety properties that matter most. `PROJECT.json` lists the runs,
the theorems, the source lines behind every definition, the hazards the properties
were chosen for, and for each property a mutation of the model that breaks it.

To repeat a run: `tlc -workers 2 -config MCTransfer.cfg MCCheckpointTransfer`.
To repeat a proof: `tlapm CheckpointRuntimeProofs.tla` (minutes from nothing;
`CheckpointJoinProofs` takes about twenty).

## The system and its models

A device runs one daemon. An event loop (`runtime/runner.rs`) owns all state and
runs one handler at a time, so a handler is one step of a model; concurrency comes
from other devices, from messages under way, from the disk and from time.

| Part of the system | Source | Module |
|---|---|---|
| Checkpoints: rank-ordered rosters and signed changes | `membership/checkpoint.rs` | `Checkpoint` (operators) |
| What membership promises, without processes or files | | `MembershipLedger` (abstract), `LedgerRefinement` (the mapping) |
| The daemon's membership state, its file and the restart gate | `runtime/checkpoint_runtime.rs`, `membership_store/checkpoint.rs`, `forward.rs` | `CheckpointRuntime` |
| Joining by pairing: a transaction over two files | `runtime/runner.rs`, `runner/checkpoint_pairing.rs`, `pairing_sessions.rs`, `pairing_store.rs` | `CheckpointJoin` |
| Self-signed hostnames beside the roster | `membership/checkpoint.rs` and the store | `HostnameClaims` |
| Delivery of a signed command to its recipients | `runtime/checkpoint_handoff.rs` | `MutationHandoff` |
| Paged transfer of offers | `runtime/control/checkpoint.rs` | `CheckpointTransfer` |
| Packet queues and the window of packets on streams | `queue.rs`, `runtime/runner.rs` | `OutboundQueue` |
| Connections, network epochs, stream paths | `path.rs`, `runtime/runner.rs` | `ConnectionPaths` |
| Datagram sessions, their renewal, path probes | `runtime/packet_plane.rs`, `runtime/runner.rs` | `PacketPlane`, `ReplayWindow` |
| DHT queries for lost peers | `runtime/recovery_queries.rs` | `RecoveryQueries` |
| Addresses kept of peers, and the copies of them | `runtime/address_retention.rs`, `runtime/runner.rs` | `AddressRetention` |

How they interact. `CheckpointJoin` extends `CheckpointRuntime`: every membership
step may happen during a join, and a join stages, floors, blocks and releases the
membership runtime. `CheckpointRuntime` and `HostnameClaims` both extend
`Checkpoint`. `MutationHandoff` and `CheckpointTransfer` are the transports below
the commands and offers of `CheckpointRuntime`, which itself only assumes that
messages are lost, delayed and duplicated; each is checked on its own.
`OutboundQueue` takes the transport decision of each peer as an input that may
change at any time; `ConnectionPaths` and `PacketPlane` are where it comes from.

### State and actions

- **CheckpointRuntime.** `disk[n]` is the membership file: what the file system
  shows (`file`) and what a power loss may bring back because the directory was not
  synced after the rename (`shadow`). `node[n]` is the daemon: installed snapshot,
  sync state, the open resync round, the enrollment floor, the activation barrier
  and the forwarder's projection. Each save is `ok`, `failed`, or `uncertain`
  (visible, not confirmed), which is what `persist_then_install` distinguishes. The
  actions are the round (begin, ask, collect, finish), signed changes and their
  receipt, pruning, and the environment (stop, power loss, restart, expiry).
  SHA-256 is a random oracle over the set `book` of all snapshots that exist.
- **CheckpointJoin.** Adds the pairing file `vault`, with the same two-part disk, and
  the enrollments of inviter and joiner. `issued` and `sent` are the grants prepared and
  those a joiner may fetch; `gated` is history.
  Actions follow the handlers: approve, accept, retry, stage again, finalize,
  reconcile an uncertain completion, cancel and abort on either side, release the
  barrier, start.
- **HostnameClaims.** Claims are an incarnation, a sequence and a label; offers carry
  them and the store refuses a claim that falls back.
- **MutationHandoff.** One delivery ledger, requests named by handoff, peer and
  attempt, and answers that arrive at any later time. Peers are external.
- **CheckpointTransfer.** Sessions in both directions keyed by peer and nonce,
  retired nonces, the byte budget (in pages), responses being sent.
- **OutboundQueue.** Per-peer queues, the ready ring, the stream window. A handler
  that drains sets `draining`; packets then leave one step at a time and no other
  handler runs until the drain ends.
- **ConnectionPaths.** libp2p reports a connection to either end on its own; each
  end has its epoch, its record of when a connection began, the connections it is
  giving up, and per path kind the bounded inventory of connections. Each end judges
  from its own networks whether a connection is on the LAN (`link[c].lan` is the set
  of ends that see it there), so the two may disagree.
- **PacketPlane.** The initiator's Hello, the responder's session and Accept,
  overlapping previous keys, expiry, probes and their answers, packets. An answered
  probe makes the path healthy, and so does a packet, whichever of the two keys it came
  under (`refresh_packet_plane_path`); an unanswered probe and a failed send demote it.
  Control requests fail and arrive late; datagrams stay on the wire and may arrive at
  any time, repeatedly, and may be refused after their session opened them.
- **RecoveryQueries.** The two maps of the code, the LAN head start, and the redial
  timer. Instants are relative to now and stop counting where the code no longer
  tells them apart, so the model is finite without a bound on time.
- **AddressRetention.** The index with its two budgets, the protected addresses, and
  three copies: recovery cache, overlay routing table, pairing routing table.

## Runs

Twelve runs; each finishes within five minutes on two workers.

| Run | What it shows |
|---|---|
| `runtime_faults` | What a device authorizes, publishes or acknowledges survives every failed write, stop and power loss; a round's result is never refused as a rollback; a membership that ended is never continued; the runtime implements `MembershipLedger`. |
| `runtime_convergence` | Devices that forked and failed end on one snapshot, and no device stays behind the restart gate. |
| `join_faults` | A gated joiner carries packets only when no loadable copy of its pairing file reopens the transaction and what it applied is reached in every copy of its roster; a grant that can be fetched cannot be lost by its inviter; the barrier's release never meets a staged enrollment. |
| `join_liveness` | A pending join completes or is withdrawn while another device takes part. |
| `hostname_stall` | Violation, see Findings. |
| `join_activation` | Violation, see Findings. |
| `member_changes` | Handoff: late answers find no owner; an acknowledged recipient installed this very command; the report adds up; a handoff ends. Hostnames: claims fit the roster beside them and never fall back, whatever order offers arrive in. |
| `transfer` | The byte budget is exact; an assembly always waits for exactly one request; nonces stay reserved until their deadline; assemblies end. |
| `outbound` | The ring names exactly the queued peers; packets and windows are accounted for; ordered flows keep their order, also across a change to datagrams; queues empty. |
| `discovery` | Query ownership is exact, cooldowns are waited out and neither peer starves; every copy of an address goes with its index entry and admissions respect other peers' shares. |
| `peer_paths` | Paths are backed by current connections, usable connections are tracked, both ends keep the same duplicate where they agree on the LAN; no datagram is accepted twice and keys outlive their renewal. |
| `duplicates` | Violation, see Findings. |

`member_changes`, `discovery` and `peer_paths` each put two components side by side that share no
state. A component moves only while the other rests in its initial state, so the
reachable states are those of the two components and not their product.

### Bounds

Constants that the code fixes are small but keep their order: a timeout longer than
a tick stays longer. The bounds that only limit TLC are named in the modules.

- *Membership*: two devices, one of them a temporary member where expiry matters,
  two revisions and two forks of each, two faults. Two forks per revision are what
  two signers of one base produce; two faults allow an unconfirmed write followed
  by a power loss. Convergence uses one revision and one fault, with two rounds
  open at once. The proofs do away with these bounds for the safety properties.
- *Join*: one founder and one joiner. `join_faults` has two approvals, so that
  a device whose first join was cancelled or aborted, before or after it was admitted,
  starts another; a device that was removed cannot complete a second admission within
  two revisions. `TroubleBound` allows two failures while there is one approval, and the
  second approval only without failures.
  The proofs do away with that bound for the safety properties.
  Liveness has one approval and no faults: it is about cancellation, revocation
  and the order of ticks.
- *Hostnames*: three devices, because the interesting rounds hear two publishers
  that disagree; only the named device renames itself and opens rounds, and there
  are at most three signed changes of the roster, enough for a fork and a re-admission,
  the third only under one of the two labels (`WireBound`). The proofs do away with these
  bounds.
- *Handoff, transfer*: two peers, two commands or nonces, one slot in flight, a
  budget of three pages against two-page offers (two do not fit), one restart.
- *Outbound*: three packets of two flows for two peers, queues of two packets, a
  window of two with one ordered request per flow. Packets arrive before the clock's one
  step, so those of a queue expire together.
- *Connections*: three connections, the least with which a third arrives while two
  duplicates are being settled, and inventories of two, so that a connection has to
  make room; three connections are all direct and none is on anyone's LAN
  (`ConnectionBound`).
- *Packet plane*: three Hellos (a session, its renewal, and one that is late), two
  datagrams per end, a replay window of two bits, one failure; the third Hello only
  where no end changed its endpoint and only the initiator probes (`PlaneBound`). The
  instance without that bound, and one with three datagrams per end (36 million states),
  were checked once by hand and pass. Two datagrams and two bits reach a repeat and a shift
  by one, but no sequence a whole window behind: `AcceptedOnce` and `RefusedForCause`
  are proved for every width.
- *Discovery*: two peers, of which the first is always asked before the second, and
  three events; for addresses two peers, four reported addresses of three categories,
  budgets of two, one static address, one infrastructure peer. An instance in which every address may be
  reported of either peer was checked once by hand and passes (1.1 million states).

No symmetry is used. Deadlock is checked except where a system really may stop: in
`member_changes`, `outbound`, `peer_paths` and `duplicates` the bounds on time,
revisions, packets, Hellos and connections run out.

### Fairness

- *Membership and join*: the service manager restarts a stopped daemon and its ticks
  run (weak fairness of restart, begin, finish and the join's retries). A peer that
  stays reachable is eventually asked and heard (strong fairness of asking and
  collecting). Completion and abort are tried on ticks much more frequent than
  rounds, so a chance that keeps coming back is taken (strong fairness). Nothing is
  assumed of faults, changes or the operator.
- *Handoff, transfer*: time passes and the checkpoint tick runs. No answer is assumed.
- *Outbound*: a drain ends, the expiry timer fires, time passes. Nothing is assumed of
  peers, paths or the TUN.
- *Recovery queries*: time passes and the redial timer is served. Whether the DHT
  answers is open.

## Proofs

Checked by TLAPS for every value of the constants that the named assumptions allow:
bounds are naturals, a window or a limit is at least one, `None`, `NoHandoff` and
the like are not values of the type they stand beside, and a set of devices has a number of elements
(`CheckpointAssumption`). TLC evaluates them in every run.

- `CheckpointRuntimeProofs`: `TypeCorrect`, `LiveAuthority`, `Acknowledged`,
  `Offered`, `RoundsFinish` and `RollbackNever`, from the inductive
  `DurabilityInvariant`. None of the properties is inductive alone. That what is
  acknowledged or offered stays durable needs to know that the installed snapshot,
  the forwarder and the file agree while a device is up (`RoundsCanFinish`), and that
  a device leaves the gate only after a confirmed write, with no floor
  (`ConfirmedOutsideGate`): then everything a power loss may bring back ranks at least
  as high as what was answered. The step is proved once per action from three lemmas:
  what a save can leave on the disk (`SaveEffect`), that no copy falls in rank
  (`SaveRises`), and that an answer stays below whatever rises (`AboveStable`).
- `MembershipLedgerProofs`: `RuntimeImplementsLedger` is the refinement of
  `MembershipLedger`. Every step of the runtime is first shown to adopt a snapshot of
  the book, to issue a change of one, or to leave both alone (`StepShape`); each shape
  is then a step of the ledger or a stutter. That needs `LedgerInvariant`: rounds
  select among snapshots of the book, and the visible file ranks at least as high as
  every copy a power loss can bring back. `IncarnationsUnbroken` rests on
  `BookSound`: a snapshot's incarnations are older than the snapshot, its revision and
  digest determine it, its base is in the book, and a device missing from the base has
  the incarnation of that boundary. Only issuing adds to the book, and it keeps all four.
- `CheckpointJoinProofs`: `GateOutlives`, `AppliedStaysDurable`, `GrantsStayDurable`,
  `BarrierIsReleased` and `LiveAuthorityWithJoins`, from `JoinInvariant`. It adds to the
  `DurabilityInvariant` of the runtime what the pairing state of a device, in memory and
  in every copy of its file, has to do with the membership side.
  `GateInv`: an operation the device was gated for is pending or closed in all of them, and
  where it is open the running device is blocked. `ReleaseInv`: an admission is released
  only after every copy of the membership file lost its floor. `UncertainInv`: while a
  completion is uncertain the file holds the state before or after it. `ViewInv` and
  `SentInv`: what is applied or can be fetched is reached in every copy of the membership
  file. `IssuedInv`: an operation has one grant. Every action of the runtime keeps the
  pairing half (`MembershipStepKeeps`). The actions of the join come down to a few shapes: a
  state that keeps what was pending (`KeepStep`, `KeepTwiceStep`), one that closes the
  transaction (`ClosedStep`), one that stages (`StagedStep`), one that goes down (`DownStep`).
- `HostnameClaimsProofs`: `NamesFit`, `NamesAdvance` and `MergeIgnoresOrder`. Merging the
  claims that fit one snapshot is commutative, associative and idempotent, so neither the
  order nor the repetition of offers matters. `HostInvariant` adds to `NamesFitRoster` that every
  claim retained, selected or in an offer on its way can be compared with any other of
  its member, which is what a merge rests on.
- `MutationHandoffProofs`: `OneRequestPerDelivery`, `AcknowledgementsAreEarned` and
  `ReportsAreComplete`, from `HandoffInvariant`: the requests under way are exactly those
  of the latest attempts of the deliveries in flight. The property alone does not say
  which attempt a request belongs to, and a late answer is told apart by just that.
- `PacketPlaneProofs`: `AcceptedOnce` and `RefusedForCause` about the replay window of
  every width: a window that tracks a set of accepted sequences accepts none of them
  again, goes on tracking, and refuses only repeats and sequences a whole window behind.
  `DatagramsDeliveredOnce` follows from `PlaneInvariant`: every window tracks
  what was accepted under its key, the two sessions of an end have different
  keys, and a key an end has used is never installed again (`Spent`). The last part is
  what carries the argument over renewals: a window may only start empty for a key
  under which nothing was accepted. `UnheardKeysWait` (`SealsWithHeardKeys`: a responder that
  holds keys it has heard sends with such keys) adds `Confirmation`: the responder sends with
  its previous keys exactly until a datagram under the current ones was accepted.
- `CheckpointTransferProofs`: `AssembliesAwaited` and `NoncesReserved`, from
  `TransferInvariant`: an assembly has exactly one request that continues it, at its cursor
  and of its digest, and the requests of a device are those of its open round, to peers
  the round has asked. The second half is what makes the first inductive: a round never
  asks a peer twice, so no second request can come to continue the same assembly. That a
  nonce stays reserved is shown operation by operation: a session that is completed,
  replaced or cancelled leaves its key in the retired table with its own deadline, and
  `cleanup` drops only what expired.
- `DiscoveryProofs`: `SlotsAreOwned` and `CooldownsAreWaitedOut` of `RecoveryQueries`, from
  `RecoveryInvariant`: owners and pending peers agree for the maps a handler passes from
  one of its calls to the next, and a peer that failed has a deadline as late as its
  streak earned, less the time that has passed. `CopiesRetained` of `AddressRetention` is
  inductive as it stands; `SharesKept` follows from what an admission can evict
  (`AdmissionKeeps`).

The leaves name Zenon where it is enough: the SMT encoding of a leaf is costly in a module
with many definitions.

Model-checked only, and why:

- the liveness properties: TLAPS has no support for fairness and ENABLED here;
- `BufferIsAccounted`, `PacketsAreAccounted` and `RingIsQueuedPeers`: sums over sets and
  filtered sequences, whose values would take an induction over data;
- `PathsAreBacked`, `UsableAreTracked` and `DuplicatesSettle`: the inventories are
  folds over sequences of connections, for the same reason;
- `WindowCountsRequests`, `OrderedFlowsKeepOrder` and `DatagramsDoNotOvertake`: they
  read the order of packets out of filtered sequences;
- `KeysOutliveRenewal`: it relates both ends, the control requests under way and the time
  since a probe was answered; its inductive invariant has not been found. The responder's
  half of the argument is `UnheardKeysWait`.

## Findings

Three statements do not hold of the code; the first two are from
`docs/developer/membership-checkpoints.md`.

1. `hostname_stall`. "Cosmetic conflicts cannot stall membership reconciliation"
   (line 181). `collect_offer` filters the round's claims by the best snapshot so far.
   An offer without a member, followed by a higher one that has the member again from
   a publisher that never learned its claim, loses the claim; the store refuses the
   result (`HostnameRollback`) and the error of `finish_due` ends the runner.
2. `join_activation`. "Completion requires authenticated current state and a durable
   final pairing save" (lines 299-300). Startup stages the membership file from a
   pairing file that is visible but may never have been confirmed. A power loss can
   lose the pairing file and keep the staged membership; after the restart nothing
   blocks activation and an ordinary resync authorizes packets.
3. `duplicates`. "both peers must retain a common connection" (a test of
   `redundant_direct_connection_ids`, `runtime/runner.rs:40096`) and "Both endpoints retain
   the same LAN connection" (`docs/developer/lan-first-routing-audit.md:179`). The ends
   judge the LAN each from its own networks. Where one sees a connection on its LAN
   and the other does not (nested NAT), the first keeps that one, the other keeps the one
   the preferred initiator dialled, and both connections close although nothing failed.
   `DuplicatesSettle` therefore asks for a surviving connection only where the ends agree;
   that at most one is left holds without that.

Observations that no run reports as a violation, because no text promises otherwise:

- A Hello that its sender gave up, handled after the one that replaced it and before
  the new key was heard, makes the responder drop the new key. `KeysOutliveRenewal`
  excludes this order (`outrun`); path probes repair the path afterwards.
- While the initiator's path is unhealthy, repeated negotiation can leave the responder
  with a previous key the initiator never confirmed or has dropped. A packet under the
  previous keys then makes the path healthy again (`refresh_packet_plane_path`), although the
  responder may never have had the initiator's current keys: with a healthy path as its
  only premise the property does not hold. It asks that the initiator's path has not been
  demoted since its last answered probe (`steady`), and allows a responder that holds no
  key it has heard to send with an unconfirmed one.
- When a class of addresses is full, an admission evicts its own peer's oldest
  address of that class, whatever its category, so churn can displace a peer's only
  LAN or relayed address. The comment in `address_retention.rs` that speaks of
  categories is about the budget per peer.
- mDNS expiry takes an address out of the overlay's routing table even when the
  address is protected.
- A peer that a handed-over change authorizes gets no path for connections already
  open until the next resync, pairing or connection.
- A device that removes itself, and whose handoff is lost, is not heard of again:
  `Convergence` is about the devices that take part.

## Abstractions

- A crash inside a handler leaves what a failed next write followed by a stop leaves,
  and has no action of its own. A power loss may bring back any copy in `shadow`.
- A lost message is one that is never delivered.
- *Join*: at most one enrollment per role and device; applied and discarded ones are
  kept as their operation only, and finished artifacts are never retired. A cancel
  request's trailing cleanup is the following `AbortJoin` or `FinishAbort`. The save that
  ends startup succeeds: one that fails leaves no daemon, the pairing file as it was and
  the staged membership file, and each of these copies can also be left by a staging that
  is visible but unconfirmed, which `Start` has.
- *Hostnames*: writes do not fail; that is the subject of `CheckpointRuntime`.
- *Handoff*: time counts in retry delays; what a peer answers is external.
- *Outbound*: transport decisions are inputs. A late answer finds its request gone from
  `PacketInFlight` (`complete` returns early) and is one of the `SwarmEvent`s. Path probes count in the window without
  asking it, so `WindowCountsRequests` bounds packets and not probes by `Limit`.
- *Connections*: whether a connection is on an end's LAN is fixed when it is dialled; the
  set of requests pinned to a connection is over-approximated.
- *Packet plane*: the UDP backend; one frame session per process. A unit of time is
  the renewal lead (60 s by default), longer than a probe interval and its timeout
  together. So where no probe stayed unanswered, one sent with keys that are a unit old
  was answered (the guard of `Elapse`, for a `steady` path only).
  This needs a session lifetime above about 68 s; the default is ten minutes. Keepalives,
  which refresh a path like packets, are received by this code and never sent. MTU probes
  are left out.
- *Recovery queries*: a query is named by its peer. DHT query ids are never reused, so the
  late result of a query that is no longer owned finds no entry in `finished` and changes
  nothing; the model has no step for it. `NoPeerStarves` needs the longest backoff to exceed the time the
  other peers' queries take to run out, and idle state to outlive the contention;
  the instance keeps both relations.
- *Addresses*: entries seen at the same instant leave the victim open (the code takes
  the lowest index). Static addresses are the configured ones of peers.

## Not modelled

The models cover a small share of the repository's lines, a few percent once tests are
counted: most of the code is configuration, command line, platform glue, encodings,
reports, metrics and tests. A larger share would take modules that transcribe it
without a property that a model checker could usefully decide. By part:

- *Pairing before the approval* (codes, lookups, rate limits, SPAKE2): no authority and
  no membership on disk yet; a table with independent deadlines around cryptography.
  An expiry during an approval is a hazard that is listed and not covered.
- *The owner of an unanswered acknowledgement* in `checkpoint_runtime.rs`: a receiver
  that refuses for want of one looks to the issuer like a busy peer, which
  `MutationHandoff` has.
- *Scores, RTT, penalties, MTU* in `path.rs`: they order healthy paths by measured
  values. *Keep-alive leases* are callbacks inside libp2p's connection handlers.
- *The QUIC backend, key derivation, the bounded table of replay windows per frame
  session* of the packet plane.
- *Recovery dials, their attempt table and quarantines*, which run beside the queries.
- *Auto relay, reservations, DCUtR, AutoNAT, DHT maintenance*: mostly libp2p.
- *Legacy signed-record membership and its one-time migration*: replaced by checkpoints.
- *Forwarding and routes, DNS answers, endpoint choice, recovery reports*: pure
  functions of state that is modelled.
- *TUN, control socket, service, command line, metrics, Android glue*: input and output,
  or a supervisor that starts and stops the runtime.
