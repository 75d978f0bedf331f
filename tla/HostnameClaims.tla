--------------------------- MODULE HostnameClaims ---------------------------
(***************************************************************************)
(* Self-signed hostname claims beside the checkpoint roster: renaming,     *)
(* merging in resync rounds, and the store's guard against a rollback      *)
(* (membership/checkpoint.rs, checkpoint_runtime.rs, membership_store/     *)
(* checkpoint.rs).  Saves succeed here unless the store refuses them;      *)
(* failing writes are the subject of CheckpointRuntime.                    *)
(***************************************************************************)
EXTENDS Checkpoint

CONSTANTS None,
          Named,        \* devices that configure a hostname
          Labels,       \* canonical labels, as their lexicographic order
          MaxSequence,  \* stands for u64::MAX
          Resyncing     \* bound: devices that open resync rounds

ASSUME HostnameAssumption ==
    /\ Named \in SUBSET Founders
    /\ Resyncing \in SUBSET Founders
    /\ Labels \in SUBSET Nat
    /\ MaxSequence \in Nat
    /\ None \notin [incarnation : Incarnations, sequence : Nat, label : Labels]

VARIABLES
    book,     \* every snapshot content that exists
    device,   \* each device: retained state (memory and file), gate and round
    wire,     \* signed commands
    refused   \* history: devices whose store refused a resynced state

hostVars == <<book, device, wire, refused>>

-----------------------------------------------------------------------------
(* Claims and their merge.                                                 *)

\* HostnameClaimPayload; the subject is the index in Names.
Claims == [incarnation : Incarnations, sequence : 1..MaxSequence, label : Labels]
Names == [Devices -> Claims \cup {None}]

NoNames == [d \in Devices |-> None]

\* A claim verifies against a snapshot.
Fits(claim, snap, d) ==
    d \in DOMAIN snap.members /\ snap.members[d].incarnation = claim.incarnation

FitRoster(names, snap) ==
    \A d \in Devices : names[d] # None => Fits(names[d], snap, d)

\* Mutant of CompatibleNames: the incarnation is not compared.
CompatibleNamesOfMembers(snap, names) ==
    [d \in Devices |-> IF d \in DOMAIN snap.members THEN names[d] ELSE None]

CompatibleNames(snap, names) ==
    [d \in Devices |-> IF names[d] # None /\ Fits(names[d], snap, d)
                       THEN names[d] ELSE None]

\* The incoming claim replaces the current one.
Supersedes(incoming, current) ==
    \/ incoming.sequence > current.sequence
    \/ incoming.sequence = current.sequence /\ incoming.label > current.label

NewerClaim(current, incoming) ==
    IF incoming = None THEN current
    ELSE IF current = None \/ Supersedes(incoming, current) THEN incoming
    ELSE current

MergeNames(current, incoming) ==
    [d \in Devices |-> NewerClaim(current[d], incoming[d])]

\* validate_hostname_progress, from the names on file to the next state.
HostnameProgress(old, snap, names) ==
    \A d \in Devices : old[d] # None /\ Fits(old[d], snap, d) =>
      names[d] # None /\ ~Supersedes(old[d], names[d])

-----------------------------------------------------------------------------
(* Devices.                                                                *)

Offers == [publisher : Devices, snap : Snapshots, names : Names]

Rounds == [best : Snapshots, names : Names,
           attempted : SUBSET Devices, inbox : SUBSET Offers]

DeviceStates == [snap : Snapshots, names : Names, open : BOOLEAN,
                 round : Rounds \cup {None}]

Participates(n) == device[n].open /\ ActiveIn(device[n].snap, n, FALSE)

Become(n, s) == device' = [device EXCEPT ![n] = s]

\* reconcile_local_hostname after the configured hostname became `label`.
Rename(n, label) ==
    LET own == device[n].names[n]
        claim == [incarnation |-> device[n].snap.members[n].incarnation,
                  sequence |-> IF own = None THEN 1 ELSE own.sequence + 1,
                  label |-> label]
    IN  /\ Participates(n)
        /\ device[n].round = None
        /\ own # None => own.label # label /\ own.sequence < MaxSequence
        /\ Become(n, [device[n] EXCEPT
                        !.names = MergeNames(@, [NoNames EXCEPT ![n] = claim])])
        /\ UNCHANGED <<book, wire, refused>>

\* apply_change, with its command for the other members.
Change(n, change) ==
    /\ Participates(n)
    /\ device[n].round = None
    /\ \E snap \in ChangedSnapshots(book, device[n].snap, change, FALSE) :
         /\ book' = book \cup {snap}
         /\ Become(n, [device[n] EXCEPT !.snap = snap,
                                        !.names = CompatibleNames(snap, @)])
    /\ wire' = wire \cup {[issuer |-> n, base |-> Boundary(device[n].snap),
                           change |-> change]}
    /\ UNCHANGED refused

\* rebase_live_resync_on_installed.
RebasedRound(round, snap, names) ==
    IF round = None THEN None
    ELSE LET best == Higher(snap, round.best)
         IN  [round EXCEPT !.best = best,
                !.names = MergeNames(CompatibleNames(best, @),
                                     CompatibleNames(best, names))]

\* incoming_mutation_outcome, the applying path.
Receive(n, m) ==
    /\ Participates(n)
    /\ m.issuer # n
    /\ ValidMutation(device[n].snap, m.issuer, m.base, FALSE)
    /\ \E snap \in ChangedSnapshots(book, device[n].snap, m.change, FALSE) :
         LET names == CompatibleNames(snap, device[n].names)
         IN  /\ book' = book \cup {snap}
             /\ Become(n, [device[n] EXCEPT !.snap = snap, !.names = names,
                             !.round = RebasedRound(@, snap, names)])
    /\ UNCHANGED <<wire, refused>>

Begin(n) ==
    /\ device[n].round = None
    /\ Become(n, [device[n] EXCEPT !.round =
                    [best |-> device[n].snap, names |-> device[n].names,
                     attempted |-> {}, inbox |-> {}]])
    /\ UNCHANGED <<book, wire, refused>>

\* make_offer_at for a round of n.
Ask(n, p) ==
    /\ n # p
    /\ device[n].round # None
    /\ p \notin device[n].round.attempted
    /\ Participates(p)
    /\ Become(n, [device[n] EXCEPT
                    !.round.attempted = @ \cup {p},
                    !.round.inbox = @ \cup {[publisher |-> p, snap |-> device[p].snap,
                                             names |-> device[p].names]}])
    /\ UNCHANGED <<book, wire, refused>>

Inbox(n) == IF device[n].round = None THEN {} ELSE device[n].round.inbox

\* collect_offer: the names are those of the best snapshot so far.
Collect(n, o) ==
    /\ LET round == device[n].round
           best == Higher(o.snap, round.best)
           names == MergeNames(CompatibleNames(best, round.names),
                               CompatibleNames(best, o.names))
           stale == Less(Rank(o.snap), Rank(device[n].snap))
       IN  Become(n, [device[n] EXCEPT !.round =
             [round EXCEPT !.inbox = @ \ {o},
                           !.best = IF stale THEN @ ELSE best,
                           !.names = IF stale THEN @ ELSE names]])
    /\ UNCHANGED <<book, wire, refused>>

\* Mutant of Finish: what the round selected is installed without the guard.
FinishUnguarded(n) ==
    /\ device[n].round # None
    /\ Become(n, [snap |-> device[n].round.best, names |-> device[n].round.names,
                  open |-> TRUE, round |-> None])
    /\ UNCHANGED <<book, wire, refused>>

\* finish_due with the store's guard; a refusal ends the process, which starts
\* again from its file, gated.
Finish(n) ==
    /\ device[n].round # None
    /\ LET round == device[n].round
       IN  IF HostnameProgress(device[n].names, round.best, round.names)
           THEN /\ Become(n, [snap |-> round.best, names |-> round.names,
                              open |-> TRUE, round |-> None])
                /\ UNCHANGED refused
           ELSE /\ Become(n, [device[n] EXCEPT !.open = FALSE, !.round = None])
                /\ refused' = refused \cup {n}
    /\ UNCHANGED <<book, wire>>

-----------------------------------------------------------------------------
(* Specification.                                                          *)

HostInit ==
    /\ book = {FoundingSnapshot}
    /\ device = [d \in Devices |->
                   [snap |-> FoundingSnapshot, names |-> NoNames,
                    open |-> d \in Founders, round |-> None]]
    /\ wire = {}
    /\ refused = {}

HostNext ==
    \/ \E n \in Named, label \in Labels : Rename(n, label)
    \/ \E n \in Founders, change \in Changes : Change(n, change)
    \/ \E n \in Founders, m \in wire : Receive(n, m)
    \/ \E n \in Resyncing :
         \/ Begin(n)
         \/ \E p \in Founders : Ask(n, p)
         \/ \E o \in Inbox(n) : Collect(n, o)
         \/ Finish(n)

HostSpec == HostInit /\ [][HostNext]_hostVars

-----------------------------------------------------------------------------
(* Properties.                                                             *)

\* Every claim a device retains or collects verifies against the snapshot beside
\* it, so the file always restores and no merge fails (validate_names).
NamesFitRoster ==
    \A n \in Founders :
      /\ FitRoster(device[n].names, device[n].snap)
      /\ device[n].round # None => FitRoster(device[n].round.names, device[n].round.best)

\* While a membership lasts, no step of a device replaces a claim it retains by
\* an older one or forgets it, whatever offers arrive in whatever order.
NamesNeverRegress ==
    [][\A n \in Founders :
         HostnameProgress(device[n].names, device'[n].snap, device'[n].names)]_hostVars

\* "Cosmetic conflicts cannot stall membership reconciliation"
\* (docs/developer/membership-checkpoints.md): the store never refuses what a
\* round selected because of a hostname.
HostnamesNeverStall == refused = {}
=============================================================================
