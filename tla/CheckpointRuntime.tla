-------------------------- MODULE CheckpointRuntime --------------------------
(***************************************************************************)
(* The devices of one checkpoint network (src/runtime/checkpoint_runtime.rs*)
(* over membership/checkpoint.rs, membership_store/checkpoint.rs and       *)
(* forward.rs): resync rounds, signed changes and their handoff, saving    *)
(* before installing, failed and unconfirmed writes, crashes and restarts. *)
(*                                                                         *)
(* A device is one process whose event loop runs one handler at a time, so *)
(* a handler is one step.  Messages are never removed from `wire`, which   *)
(* covers duplicated, delayed and lost requests.                           *)
(***************************************************************************)
EXTENDS Checkpoint

CONSTANTS None,       \* an absent value (Option::None)
          MaxFaults,  \* bound: failed writes, stops and power losses
          MaxRounds   \* bound: resync rounds open at the same time

ASSUME RuntimeAssumption ==
    /\ None \notin Snapshots
    /\ None \notin Ranks
    /\ None \notin [snap : Snapshots, floor : Ranks \cup {None}]
    /\ MaxFaults \in Nat
    /\ MaxRounds \in Nat

VARIABLES
    book,    \* every snapshot content that exists, with its digest
    disk,    \* the membership state file of each device
    node,    \* the CheckpointRuntime and Forwarder of each device, None if down
    wire,    \* signed commands handed to the network
    acks,    \* history: <<device, snapshot>> a device answered as installed
    late,    \* the wall clock has passed the expiry of temporary members
    faults   \* faults injected so far

vars == <<book, disk, node, wire, acks, late, faults>>

-----------------------------------------------------------------------------
(* State.                                                                  *)

\* CheckpointEnvelope: retained snapshot and enrollment floor.
Contents == [snap : Snapshots, floor : Ranks \cup {None}]

\* `file` is what the file system shows; `shadow` is what a power loss may
\* bring back because the directory was not synced after a rename.
Disks == [file : Contents \cup {None}, shadow : SUBSET (Contents \cup {None})]

Offers == [publisher : Devices, snap : Snapshots]

\* PendingResync and its candidate, with the offers still in flight.
Rounds == [base : Snapshots, best : Snapshots, observed : BOOLEAN,
           attempted : SUBSET Devices, inbox : SUBSET Offers]

\* CheckpointProjection of the forwarder.
Projections == [snap : Snapshots,
                sync : {"ResyncRequired", "Participating", "Excluded"}]

Nodes == [current : Snapshots,
          sync : {"ResyncRequired", "Participating", "Excluded"},
          pending : Rounds \cup {None},
          floor : Ranks \cup {None},
          blocked : BOOLEAN,
          ready : BOOLEAN,
          forwarder : Projections,
          handoff : Snapshots \cup {None}]

ASSUME DownAssumption == None \notin Nodes

\* SignedMembershipMutation on its way to one recipient; `snap` is the
\* boundary the issuer's handoff expects in the acknowledgement.
Commands == [issuer : Devices, to : Devices, base : (0..MaxRevision) \X Digests,
             change : Changes, snap : Snapshots]

Up(n) == node[n] # None

Participates(n) ==
    /\ node[n].sync = "Participating"
    /\ ActiveIn(node[n].current, n, late)

\* The packet authority the forwarder applies (checkpoint_sync_state and
\* membership_at): empty unless the device itself takes part.
Live(n) ==
    /\ Up(n)
    /\ node[n].forwarder.sync = "Participating"
    /\ ActiveIn(node[n].forwarder.snap, n, late)

\* Another device may open a round (a bound of the model).
RoundAvailable ==
    Cardinality({d \in Devices : Up(d) /\ node[d].pending # None}) < MaxRounds

\* What the state file may hold after a power loss.
Copies(n) == {disk[n].file} \cup disk[n].shadow

-----------------------------------------------------------------------------
(* Constructors for what a handler leaves behind.                          *)

\* CooperativeMembershipState::begin_resync on a clone of the state.
NewRound(current) ==
    [base |-> current, best |-> current, observed |-> FALSE,
     attempted |-> {}, inbox |-> {}]

\* CheckpointRuntime::restore with the gated projection of the forwarder.
Restored(content, blocked, pending) ==
    [current |-> content.snap, sync |-> "ResyncRequired", pending |-> pending,
     floor |-> content.floor, blocked |-> blocked, ready |-> FALSE,
     forwarder |-> [snap |-> content.snap, sync |-> "ResyncRequired"],
     handoff |-> None]

\* The projection of a candidate: gated while a pairing blocks activation.
Projection(n, snap, blocked) ==
    [snap |-> snap,
     sync |-> IF blocked THEN "ResyncRequired" ELSE Participation(snap, n, late)]

\* persist_then_install after a confirmed write: forwarder, state, floor, and
\* a handoff of another boundary is cancelled.
Installed(n, nd, snap) ==
    [nd EXCEPT !.current = snap,
               !.sync = Participation(snap, n, late),
               !.floor = None,
               !.forwarder = Projection(n, snap, nd.blocked),
               !.handoff = IF @ = snap THEN @ ELSE None]

\* install_gated: a replacement may be on disk, nothing is authorized.
InstalledGated(nd, snap) ==
    [nd EXCEPT !.current = snap,
               !.sync = "ResyncRequired",
               !.floor = IF @ # None /\ AtLeast(Rank(snap), @) THEN None ELSE @,
               !.pending = None,
               !.forwarder = [snap |-> snap, sync |-> "ResyncRequired"],
               !.handoff = None]

\* save_checkpoint_with_floor_and_sync: the guard of the store.
Storable(content, file) ==
    file # None =>
      /\ file.floor # None =>
           AtLeast(IF content.floor # None THEN content.floor
                                           ELSE Rank(content.snap), file.floor)
      /\ AtLeast(Rank(content.snap), Rank(file.snap))

\* Mutant of Saved: the file is rewritten in place, without a rename.
SavedInPlace(d, content, io) ==
    IF io = "failed" THEN [d EXCEPT !.file = None]
    ELSE [file |-> content, shadow |-> IF io = "ok" THEN {} ELSE d.shadow \cup {d.file}]

\* The file after a save whose outcome is io: "ok", "failed" before the
\* rename, or "uncertain" because the directory sync failed after it.
Saved(d, content, io) ==
    IF io = "failed" THEN d
    ELSE [file |-> content, shadow |-> IF io = "ok" THEN {} ELSE d.shadow \cup {d.file}]

\* Mutant of Persisted: an unconfirmed write is installed like a confirmed one.
PersistedUnconfirmed(n, nd, snap, io) ==
    IF io = "failed" THEN nd ELSE Installed(n, nd, snap)

\* What the running device is after persist_then_install of snap.
Persisted(n, nd, snap, io) ==
    IF io = "failed" THEN nd
    ELSE IF io = "ok" THEN Installed(n, nd, snap) ELSE InstalledGated(nd, snap)

\* A write may fail while faults are left; the store refuses a rollback, and
\* prepare_checkpoint_reconfigure refuses one before it.
Outcomes(n, content) ==
    IF /\ Storable(content, disk[n].file)
       /\ Up(n) => AtLeast(Rank(content.snap), Rank(node[n].forwarder.snap))
    THEN {"ok"} \cup (IF faults < MaxFaults THEN {"failed", "uncertain"} ELSE {})
    ELSE {"failed"}

Charge(io) == faults' = IF io = "ok" \/ faults = MaxFaults THEN faults ELSE faults + 1

SaveTo(n, content, io) ==
    /\ disk' = [disk EXCEPT ![n] = Saved(@, content, io)]
    /\ Charge(io)

Set(n, nd) == node' = [node EXCEPT ![n] = nd]

Plain(snap) == [snap |-> snap, floor |-> None]

-----------------------------------------------------------------------------
(* Resync rounds.                                                          *)

\* begin_resync from drive_sync: a gated device at once, any other when a
\* peer advertises a higher rank or a minute has passed.
BeginResync(n) ==
    /\ Up(n)
    /\ node[n].pending = None
    /\ RoundAvailable
    /\ Set(n, [node[n] EXCEPT !.pending = NewRound(node[n].current)])
    /\ UNCHANGED <<book, disk, wire, acks, late, faults>>

\* drive_sync asks each peer once per round and respond_at publishes the
\* peer's snapshot (make_offer_at requires participation).
AskOffer(n, p) ==
    /\ Up(n) /\ Up(p) /\ n # p
    /\ node[n].pending # None
    /\ p \notin node[n].pending.attempted
    /\ Participates(p)
    /\ Set(n, [node[n] EXCEPT
                 !.pending.attempted = @ \cup {p},
                 !.pending.inbox = @ \cup {[publisher |-> p,
                                            snap |-> node[p].current]}])
    /\ UNCHANGED <<book, disk, wire, acks, late, faults>>

\* collect_offer: an offer below the installed rank is rejected.
CollectOffer(n, o) ==
    /\ Up(n)
    /\ node[n].pending # None
    /\ o \in node[n].pending.inbox
    /\ LET round == node[n].pending
           taken == AtLeast(Rank(o.snap), Rank(round.base))
       IN  Set(n, [node[n] EXCEPT !.pending =
             [round EXCEPT !.inbox = @ \ {o},
                           !.best = IF taken THEN Higher(o.snap, @) ELSE @,
                           !.observed = @ \/ taken]])
    /\ UNCHANGED <<book, disk, wire, acks, late, faults>>

\* Mutant of FinishDue: a round without a remote offer is not installed.
FinishDueRemoteOnly(n) ==
    /\ Up(n)
    /\ node[n].pending # None
    /\ LET nd == node[n]
           round == nd.pending
       IN  IF ~round.observed
           THEN Set(n, [nd EXCEPT !.pending = None]) /\ UNCHANGED <<disk, faults>>
           ELSE \E io \in Outcomes(n, Plain(round.best)) :
                  /\ SaveTo(n, Plain(round.best), io)
                  /\ Set(n, IF io = "ok"
                            THEN [Installed(n, nd, round.best) EXCEPT !.pending = None]
                            ELSE None)
    /\ UNCHANGED <<book, wire, acks, late>>

\* finish_due after the window.  A staged enrollment gives the round up unless
\* a remote offer reached its floor.  An error ends the process (the tick
\* propagates it out of the event loop).
FinishDue(n) ==
    /\ Up(n)
    /\ node[n].pending # None
    /\ LET nd == node[n]
           round == nd.pending
           short == /\ nd.floor # None
                    /\ ~round.observed \/ Less(Rank(round.best), nd.floor)
       IN  \/ /\ short
              /\ Set(n, [nd EXCEPT !.pending = None])
              /\ UNCHANGED <<disk, faults>>
           \/ /\ ~short
              /\ \E io \in Outcomes(n, Plain(round.best)) :
                   /\ SaveTo(n, Plain(round.best), io)
                   /\ Set(n, IF io = "ok"
                             THEN [Installed(n, nd, round.best) EXCEPT
                                     !.pending = None, !.ready = round.observed]
                             ELSE None)
    /\ UNCHANGED <<book, wire, acks, late>>

-----------------------------------------------------------------------------
(* Signed changes.                                                         *)

\* A snapshot that was written, or may have been, exists from then on.
Record(snap, io) == book' = IF io = "failed" THEN book ELSE book \cup {snap}

\* Mutant of ApplyWithHandoff: a gated device may sign a change.
ApplyWithHandoffGated(n, change) ==
    /\ node[n].pending = None
    /\ node[n].handoff = None
    /\ \E snap \in ChangedSnapshots(book, node[n].current, change, late) :
       \E io \in Outcomes(n, Plain(snap)) :
         /\ SaveTo(n, Plain(snap), io)
         /\ Record(snap, io)
         /\ Set(n, Persisted(n, node[n], snap, io))
    /\ UNCHANGED <<wire, acks, late>>

\* What apply_change_with_handoff leaves behind: the save, the installation and,
\* once it is confirmed, the command for the members active in the base.
HandedOff(n, nd, change, snap, io) ==
    LET recipients == {p \in Devices \ {n} : ActiveIn(nd.current, p, late)}
        next == Persisted(n, nd, snap, io)
    IN  /\ SaveTo(n, Plain(snap), io)
        /\ IF io = "ok"
           THEN /\ Set(n, [next EXCEPT !.handoff =
                             IF recipients = {} THEN None ELSE snap])
                /\ wire' = wire \cup
                     [issuer : {n}, to : recipients, base : {Boundary(nd.current)},
                      change : {change}, snap : {snap}]
           ELSE Set(n, next) /\ UNCHANGED wire

\* The conditions of apply_change_with_handoff and sign_mutation_at.
MaySign(n) ==
    /\ node[n].pending = None
    /\ node[n].handoff = None
    /\ Participates(n)

\* apply_change_with_handoff.
ApplyWithHandoff(n, change) ==
    /\ MaySign(n)
    /\ \E snap \in ChangedSnapshots(book, node[n].current, change, late) :
       \E io \in Outcomes(n, Plain(snap)) :
         HandedOff(n, node[n], change, snap, io) /\ Record(snap, io)
    /\ UNCHANGED <<acks, late>>

\* apply_checkpoint_membership_revocation.
Revoke(n, d) ==
    /\ Up(n)
    /\ ~node[n].blocked
    /\ ApplyWithHandoff(n, [op |-> "RemoveMember", subject |-> d])

\* The admission half of a pairing approval: can_accept_pairing, and the
\* joiner is not an active member yet.
Admit(n, d) ==
    /\ Up(n)
    /\ node[n].floor = None
    /\ ~node[n].blocked
    /\ ~ActiveIn(node[n].current, d, late)
    /\ ApplyWithHandoff(n, [op |-> "UpsertMember", subject |-> d])

\* The handoff window closes, or every delivery is resolved.
FinishHandoff(n) ==
    /\ Up(n)
    /\ node[n].handoff # None
    /\ Set(n, [node[n] EXCEPT !.handoff = None])
    /\ UNCHANGED <<book, disk, wire, acks, late, faults>>

\* prune_expired, on the tick: a failed save ends the process.
PruneExpired(n) ==
    /\ Up(n)
    /\ node[n].pending = None
    /\ node[n].handoff = None
    /\ Participates(n)
    /\ \E snap \in ChangedSnapshots(book, node[n].current, [op |-> "PruneExpired"], late) :
       \E io \in Outcomes(n, Plain(snap)) :
         /\ SaveTo(n, Plain(snap), io)
         /\ Record(snap, io)
         /\ Set(n, IF io = "ok" THEN Installed(n, node[n], snap) ELSE None)
    /\ UNCHANGED <<wire, acks, late>>

\* Mutant of Rebased: the round goes on from the superseded base.
RebasedNever(round, installed) == round

\* rebase_live_resync_on_installed; None where it refuses.
Rebased(round, installed) ==
    IF round = None THEN None
    ELSE [round EXCEPT !.base = installed, !.best = Higher(installed, @)]

Rebasable(round, installed) ==
    round # None => /\ installed.revision = round.base.revision + 1
                    /\ installed.parent = round.base.digest

\* incoming_mutation_outcome, the applying path.  The answer Applied is sent
\* only after a confirmed write.
ReceiveMutation(m) ==
    LET p == m.to
        nd == node[p]
    IN  /\ Up(p)
        /\ Participates(p)
        /\ ValidMutation(nd.current, m.issuer, m.base, late)
        /\ \E snap \in ChangedSnapshots(book, nd.current, m.change, late) :
           \E io \in Outcomes(p, Plain(snap)) :
             /\ Rebasable(nd.pending, snap)
             /\ SaveTo(p, Plain(snap), io)
             /\ Record(snap, io)
             /\ Set(p, IF io = "ok"
                       THEN [Installed(p, nd, snap) EXCEPT
                               !.pending = Rebased(nd.pending, snap)]
                       ELSE Persisted(p, nd, snap, io))
             /\ acks' = IF io = "ok" THEN acks \cup {<<p, snap>>} ELSE acks
        /\ UNCHANGED <<wire, late>>

\* Mutant of ConfirmMutation: answered by a device that is gated.
ConfirmMutationGated(m) ==
    LET p == m.to
    IN  /\ Up(p)
        /\ m.base # Boundary(node[p].current)
        /\ node[p].current = m.snap
        /\ acks' = acks \cup {<<p, m.snap>>}
        /\ UNCHANGED <<book, disk, node, wire, late, faults>>

\* The StaleBase answer that names the current boundary; the issuer counts it
\* as an acknowledgement when it is the boundary it handed off.
ConfirmMutation(m) ==
    LET p == m.to
    IN  /\ Up(p)
        /\ Participates(p)
        /\ m.base # Boundary(node[p].current)
        /\ node[p].current = m.snap
        /\ acks' = acks \cup {<<p, m.snap>>}
        /\ UNCHANGED <<book, disk, node, wire, late, faults>>

-----------------------------------------------------------------------------
(* Faults and time.                                                        *)

\* The process ends; what the file system shows stays.
Stop(n) ==
    /\ Up(n)
    /\ faults < MaxFaults
    /\ faults' = faults + 1
    /\ Set(n, None)
    /\ UNCHANGED <<book, disk, wire, acks, late>>

\* A power loss ends the process and may undo renames that were not synced.
PowerLoss(n, content) ==
    /\ faults < MaxFaults
    /\ faults' = faults + 1
    /\ content \in Copies(n)
    /\ disk' = [disk EXCEPT ![n] = [file |-> content, shadow |-> {}]]
    /\ Set(n, None)
    /\ UNCHANGED <<book, wire, acks, late>>

\* load_checkpoint_runtime: gated, and the first round begins at once.
Restart(n) ==
    /\ ~Up(n)
    /\ disk[n].file # None
    /\ RoundAvailable
    /\ Set(n, Restored(disk[n].file, FALSE, NewRound(disk[n].file.snap)))
    /\ UNCHANGED <<book, disk, wire, acks, late, faults>>

ExpiryPasses ==
    /\ ~late
    /\ Temporary # {}
    /\ late' = TRUE
    /\ UNCHANGED <<book, disk, node, wire, acks, faults>>

-----------------------------------------------------------------------------
(* Specification.                                                          *)

Init ==
    /\ book = {FoundingSnapshot}
    /\ disk = [d \in Devices |->
                 [file |-> IF d \in Founders THEN Plain(FoundingSnapshot) ELSE None,
                  shadow |-> {}]]
    /\ node = [d \in Devices |-> None]
    /\ wire = {}
    /\ acks = {}
    /\ late = FALSE
    /\ faults = 0

Resync ==
    \E n \in Devices :
      \/ BeginResync(n)
      \/ \E p \in Devices : AskOffer(n, p)
      \/ Up(n) /\ node[n].pending # None
           /\ \E o \in node[n].pending.inbox : CollectOffer(n, o)
      \/ FinishDue(n)

Mutate ==
    \/ \E n, d \in Devices : Revoke(n, d) \/ Admit(n, d)
    \/ \E n \in Devices : PruneExpired(n) \/ FinishHandoff(n)
    \/ \E m \in wire : ReceiveMutation(m) \/ ConfirmMutation(m)

Environment ==
    \/ ExpiryPasses
    \/ \E n \in Devices : Stop(n) \/ Restart(n)
    \/ \E n \in Devices : \E content \in Copies(n) : PowerLoss(n, content)

Next == Resync \/ Mutate \/ Environment

Spec == Init /\ [][Next]_vars

CollectFrom(n, p) ==
    /\ Up(n)
    /\ node[n].pending # None
    /\ \E o \in node[n].pending.inbox : o.publisher = p /\ CollectOffer(n, o)

\* The service manager restarts a stopped daemon and the tick keeps running;
\* a peer that keeps being reachable is eventually asked and heard in a round.
Fairness ==
    \A n \in Devices :
      /\ WF_vars(Restart(n)) /\ WF_vars(BeginResync(n)) /\ WF_vars(FinishDue(n))
      /\ \A p \in Devices : SF_vars(AskOffer(n, p)) /\ SF_vars(CollectFrom(n, p))

FairSpec == Spec /\ Fairness

-----------------------------------------------------------------------------
(* Properties.                                                             *)

\* Every variable keeps its type; rounds, projections and files hold snapshots
\* of the model's bounded universe.
TypeOK ==
    /\ book \in SUBSET Snapshots
    /\ disk \in [Devices -> Disks]
    /\ node \in [Devices -> Nodes \cup {None}]
    /\ wire \in SUBSET Commands
    /\ acks \in SUBSET (Devices \X Snapshots)
    /\ late \in BOOLEAN
    /\ faults \in 0..MaxFaults

\* A forwarder that authorizes packets applies exactly the roster that is
\* confirmed on disk, without an enrollment floor: no power loss can bring back
\* another roster under it (persist_then_install, install_gated).
LiveAuthorityIsDurable ==
    \A n \in Devices : Live(n) =>
      disk[n] = [file |-> Plain(node[n].forwarder.snap), shadow |-> {}]

\* A device that answered a command as installed (Applied, or StaleBase with
\* its current boundary) can never again load a roster that ranks below it,
\* whatever writes fail and whenever power is lost afterwards.
AcknowledgedIsDurable ==
    \A a \in acks : \A c \in Copies(a[1]) :
      c # None /\ AtLeast(Rank(c.snap), Rank(a[2]))

\* The snapshot in a published offer is one its publisher cannot fall behind:
\* a device never tells others of authority that it could itself lose.
OffersAreDurable ==
    \A n \in Devices : Up(n) /\ node[n].pending # None =>
      \A o \in node[n].pending.inbox : \A c \in Copies(o.publisher) :
        c # None /\ AtLeast(Rank(c.snap), Rank(o.snap))

\* A round's candidate starts from the installed snapshot and never selects
\* below it or below the file, so neither the store (CheckpointRollback) nor
\* the forwarder (StaleSnapshot) ever refuses what finish_due selected and a
\* rebase never meets a foreign base, however commands arrive in between.
RoundsCanFinish ==
    \A n \in Devices : Up(n) =>
      /\ disk[n].file # None
      /\ disk[n].file.snap = node[n].current
      /\ disk[n].file.floor = node[n].floor
      /\ node[n].forwarder.snap = node[n].current
      /\ node[n].pending # None =>
           /\ node[n].pending.base = node[n].current
           /\ AtLeast(Rank(node[n].pending.best), Rank(node[n].current))

\* Only a device whose last write was confirmed is out of the gate, and the
\* forwarder is never ahead of it (persist_then_install, install_gated).
ConfirmedOutsideGate ==
    \A n \in Devices : Up(n) =>
      /\ node[n].sync # "ResyncRequired" =>
           disk[n].shadow = {} /\ node[n].floor = None
      /\ node[n].forwarder.sync = "Participating" => node[n].sync = "Participating"

\* The inductive strengthening behind the safety proofs.
DurabilityInvariant ==
    /\ TypeOK
    /\ RoundsCanFinish
    /\ ConfirmedOutsideGate
    /\ AcknowledgedIsDurable
    /\ OffersAreDurable

\* t is the snapshot s was derived from.
Derives(t, s) == s.revision = t.revision + 1 /\ s.parent = t.digest

\* A membership that ended is not continued: when a snapshot and the next but one
\* of its branch hold a device under the same incarnation, the one between them
\* has the device too (admission_incarnation binds a new admission to its base).
IncarnationsAreUnbroken ==
    \A a, b, c \in book : Derives(a, b) /\ Derives(b, c) =>
      \A d \in DOMAIN a.members \cap DOMAIN c.members :
        a.members[d].incarnation = c.members[d].incarnation =>
          d \in DOMAIN b.members

\* The lowest rank a device could load never falls, and neither does the rank
\* a running device has installed (store and forwarder rollback guards).
NoStepBack ==
    \A n \in Devices :
      /\ \A c \in Copies(n)' : \E b \in Copies(n) :
           b # None => c # None /\ AtLeast(Rank(c.snap), Rank(b.snap))
      /\ Up(n) /\ Up(n)' => AtLeast(Rank(node[n].current)', Rank(node[n].current))

NeverRollsBack == [][NoStepBack]_vars

\* Once changes stop, the devices that take part end up on one snapshot: no
\* fork among them survives resync (SnapshotRank is a total order).
Convergence ==
    <>[](\A n, p \in Devices :
           Up(n) /\ Up(p) /\ Participates(n) /\ Participates(p) =>
             node[n].current = node[p].current)

\* A device that was gated by a restart or by an unconfirmed write does not
\* stay gated, also when it hears from nobody.
EventuallyUngated ==
    \A n \in Devices :
      (Up(n) /\ node[n].sync = "ResyncRequired") ~>
        (Up(n) /\ node[n].sync # "ResyncRequired")
=============================================================================
