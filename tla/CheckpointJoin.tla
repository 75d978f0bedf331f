--------------------------- MODULE CheckpointJoin ---------------------------
(***************************************************************************)
(* Joining a checkpoint network by pairing (runner.rs, runner/checkpoint_  *)
(* pairing.rs, pairing_sessions.rs, pairing_store.rs) on top of the        *)
(* membership runtime.  A join is a transaction over two files: the        *)
(* pairing file holds the enrollment, the membership file the authority.   *)
(*                                                                         *)
(* A crash inside a handler needs no action of its own: it leaves what a   *)
(* failed next write followed by StopDaemon leaves.                        *)
(***************************************************************************)
EXTENDS CheckpointRuntime

CONSTANTS MaxGrants,   \* bound: approvals that are ever prepared
          MaxGlitches  \* bound: failed writes of a pairing file

ASSUME JoinAssumption == MaxGrants \in Nat /\ MaxGlitches \in Nat

VARIABLES
    sessions,   \* CodePairingSessions of each daemon, None if it is not running
    vault,      \* the pairing state file of each device
    uncertain,  \* daemons with an uncertain_checkpoint_completion
    issued,     \* the grants that were ever prepared
    sent,       \* operations whose response a joiner may fetch
    gated,      \* history: <<device, operation>> whose activation gate was set
    glitches    \* failed pairing writes so far

joinVars == <<sessions, vault, uncertain, issued, sent, gated, glitches>>
allVars == <<vars, joinVars>>

-----------------------------------------------------------------------------
(* State.                                                                  *)

Ops == 1..MaxGrants

\* PairingCheckpointGrant: `snap` stands for its minimum rank and its two
\* members, which all come from the candidate snapshot of the approval.
Grants == [op : Ops, inviter : Devices, joiner : Devices, snap : Snapshots]

Phases == {"Prepared", "Aborting"}

\* PairingEnrollment of either role.  An applied one is kept as its operation in
\* `applied` (completion or receipt), a discarded one in `aborted` (the aborted
\* operation of its replay token).
Joins == [grant : Grants, state : Phases, ownership : {"Fresh", "Repair", "Released"}]
Invites == [grant : Grants, state : Phases, owned : BOOLEAN]
Sessions == [join : Joins \cup {None}, invite : Invites \cup {None},
             applied : SUBSET Ops, aborted : SUBSET Ops]

ASSUME SessionAssumption == None \notin Joins \cup Invites \cup Sessions

NoSessions == [join |-> None, invite |-> None, applied |-> {}, aborted |-> {}]

\* The operations that cannot be prepared again.
Closed(s) == s.applied \cup s.aborted

Running(n) == sessions[n] # None

Minimum(g) == Rank(g.snap)

\* What the pairing file may hold after a power loss.
VaultCopies(n) == {vault[n].file} \cup vault[n].shadow

\* PairingStateStore::save replaces the file like the membership store does.
Writes == {"ok"} \cup (IF glitches < MaxGlitches THEN {"failed", "uncertain"} ELSE {})

ChargeWrite(io) == glitches' = IF io = "ok" THEN glitches ELSE glitches + 1

\* The in-memory sessions become s, and are saved with outcome io.
Keep(n, s, io) ==
    /\ sessions' = [sessions EXCEPT ![n] = s]
    /\ vault' = [vault EXCEPT ![n] = Saved(@, s, io)]
    /\ ChargeWrite(io)

\* A save of s that succeeds, and then one of t with outcome io.
KeepTwice(n, s, t, io) ==
    /\ sessions' = [sessions EXCEPT ![n] = t]
    /\ vault' = [vault EXCEPT ![n] = Saved(Saved(@, s, "ok"), t, io)]
    /\ ChargeWrite(io)

\* persist_code_pairing_sessions refuses while a completion is uncertain.
MayKeep(n) == Running(n) /\ n \notin uncertain

-----------------------------------------------------------------------------
(* The activation gate.                                                    *)

\* set_pairing_activation_blocked(true): the first block forgets the last
\* selection, so that a remote offer has to be seen under the gate.
Gated(nd) ==
    [nd EXCEPT !.blocked = TRUE,
               !.ready = nd.blocked /\ @,
               !.forwarder = [snap |-> nd.current, sync |-> "ResyncRequired"]]

\* set_pairing_activation_blocked(false).
Ungated(nd) ==
    [nd EXCEPT !.blocked = FALSE,
               !.forwarder = [snap |-> nd.current, sync |-> nd.sync]]

\* covers_grant of stage_prepared.
Covers(file, g) ==
    IF file.floor # None THEN AtLeast(file.floor, Minimum(g))
    ELSE AtLeast(Rank(file.snap), Minimum(g))

\* stage_pairing_enrollment_inner: the contents it may save.  Without a
\* checkpoint it bootstraps a seed roster of inviter and joiner.
SeedMembers(g) == [d \in {g.inviter, g.joiner} |-> g.snap.members[d]]

Stagings(file, g) ==
    IF file = None
    THEN {[snap |-> s, floor |-> Minimum(g)] :
            s \in Digested(book, 0, NoParent, SeedMembers(g))}
    ELSE {[snap |-> file.snap,
           floor |-> IF file.floor # None /\ Less(Minimum(g), file.floor)
                     THEN file.floor ELSE Minimum(g)]}

\* stage_prepared for the pending join e: the gate closes first; a join that is
\* neither released nor covered is staged, and after a failed save the runtime
\* is restored from whatever the file system shows.  `nd` is the runtime so far;
\* a daemon that is only starting does not survive the error.
StagePrepared(n, e, nd, survives) ==
    /\ \/ /\ nd # None
          /\ e.ownership = "Released" \/ Covers(disk[n].file, e.grant)
          /\ Set(n, Gated(nd))
          /\ UNCHANGED <<disk, book, faults>>
       \/ /\ e.ownership # "Released"
          /\ nd # None => ~Covers(disk[n].file, e.grant)
          /\ \E content \in Stagings(disk[n].file, e.grant) :
             \E io \in Outcomes(n, content) :
               LET visible == Saved(disk[n], content, io).file
               IN  /\ SaveTo(n, content, io)
                   /\ Record(content.snap, io)
                   /\ Set(n, IF visible = None \/ ~(io = "ok" \/ survives) THEN None
                             ELSE Restored(visible, TRUE, None))
    /\ gated' = IF node'[n] = None THEN gated ELSE gated \cup {<<n, e.grant.op>>}

-----------------------------------------------------------------------------
(* The inviter: approval.                                                  *)

CanAcceptPairing(n) ==
    /\ Up(n)
    /\ node[n].sync = "Participating"
    /\ node[n].pending = None
    /\ node[n].handoff = None
    /\ node[n].floor = None
    /\ ~node[n].blocked

Upsert(d) == [op |-> "UpsertMember", subject |-> d]

\* PairingCheckpointGrant::validate_at for a grant taken from snap.
Grantable(snap, n, d) ==
    /\ n # d
    /\ snap.revision # 0
    /\ ActiveIn(snap, n, late)
    /\ ActiveIn(snap, d, late)

\* Mutant of Approved: the response is handed out although the admission
\* was not installed.
ApprovedEarly(n, g, owned, changed) ==
    LET entry == [grant |-> g, state |-> "Prepared", owned |-> owned]
        prepared == [sessions[n] EXCEPT !.invite = entry]
        applied == [sessions[n] EXCEPT !.invite = None, !.applied = @ \cup {g.op}]
    IN  /\ issued' = issued \cup {g}
        /\ book' = book \cup {g.snap}
        /\ \E io \in IF changed THEN Outcomes(n, Plain(g.snap)) ELSE {"ok"} :
             /\ IF changed THEN HandedOff(n, node[n], Upsert(g.joiner), g.snap, io)
                           ELSE UNCHANGED <<disk, node, wire, faults>>
             /\ KeepTwice(n, prepared, applied, "ok") /\ sent' = sent \cup {g.op}
        /\ UNCHANGED <<uncertain, gated>>

\* The transaction of the approval: the enrollment is saved, then the
\* admission (when it changes the roster) is saved and installed, and then the
\* response is completed; a failed last save is only logged.
Approved(n, g, owned, changed) ==
    LET entry == [grant |-> g, state |-> "Prepared", owned |-> owned]
        prepared == [sessions[n] EXCEPT !.invite = entry]
        applied == [sessions[n] EXCEPT !.invite = None, !.applied = @ \cup {g.op}]
    IN  /\ issued' = issued \cup {g}
        /\ book' = book \cup {g.snap}
        /\ \/ \E io \in Writes \ {"ok"} :
                /\ Keep(n, prepared, io)
                /\ UNCHANGED <<disk, node, wire, faults, sent>>
           \/ \E io \in IF changed THEN Outcomes(n, Plain(g.snap)) ELSE {"ok"} :
                /\ IF changed THEN HandedOff(n, node[n], Upsert(g.joiner), g.snap, io)
                              ELSE UNCHANGED <<disk, node, wire, faults>>
                /\ IF io = "ok"
                   THEN /\ \E last \in Writes : KeepTwice(n, prepared, applied, last)
                        /\ sent' = sent \cup {g.op}
                   ELSE Keep(n, prepared, "ok") /\ UNCHANGED sent
        /\ UNCHANGED <<uncertain, gated>>

\* fresh_pairing_operation_id
NewOps == {op \in Ops : \A g \in issued : g.op # op}

\* PairApprove for a new request.  An active member is granted its entry as it
\* stands; any other device is admitted.
Approve(n, d) ==
    /\ MayKeep(n)
    /\ CanAcceptPairing(n)
    /\ sessions[n].invite = None
    /\ NewOps # {}
    /\ LET current == node[n].current
           active == ActiveIn(current, d, late)
       IN  /\ active => ~current.members[d].expires
           /\ \E snap \in IF active THEN {current}
                          ELSE ChangedSnapshots(book, current, Upsert(d), late) :
                /\ Grantable(snap, n, d)
                /\ Approved(n, [op |-> CHOOSE op \in NewOps : TRUE, inviter |-> n,
                                joiner |-> d, snap |-> snap], ~active, ~active)
    /\ UNCHANGED <<acks, late>>

\* PairApprove again, for an enrollment that is still prepared: the roster that
\* reached the grant must still hold the same entry, and a roster below it must
\* lead to exactly the granted snapshot.
RetryApproval(n) ==
    /\ MayKeep(n)
    /\ CanAcceptPairing(n)
    /\ sessions[n].invite # None
    /\ sessions[n].invite.state = "Prepared"
    /\ LET e == sessions[n].invite
           g == e.grant
           current == node[n].current
           reached == AtLeast(Rank(current), Minimum(g))
       IN  /\ IF reached
              THEN /\ Grantable(current, n, g.joiner)
                   /\ current.members[g.joiner] = g.snap.members[g.joiner]
              ELSE g.snap \in ChangedSnapshots(book, current, Upsert(g.joiner), late)
           /\ Approved(n, g, e.owned, ~reached)
    /\ UNCHANGED <<acks, late>>

-----------------------------------------------------------------------------
(* The joiner: acceptance, staging and completion.                         *)

\* record_checkpoint_joiner_ownership in accept_joiner.
Ownership(file, g) ==
    IF /\ file # None
       /\ file.floor = None
       /\ ActiveIn(file.snap, g.joiner, late)
       /\ file.snap.members[g.joiner].incarnation
            = g.snap.members[g.joiner].incarnation
    THEN "Repair" ELSE "Fresh"

\* accept_joiner: the enrollment is saved before any authority is staged.
AcceptJoiner(n, g) ==
    /\ MayKeep(n)
    /\ g.joiner = n /\ g.op \in sent
    /\ sessions[n].join = None /\ g.op \notin Closed(sessions[n])
    /\ LET e == [grant |-> g, state |-> "Prepared",
                 ownership |-> Ownership(disk[n].file, g)]
           prepared == [sessions[n] EXCEPT !.join = e]
       IN  \/ \E io \in Writes \ {"ok"} :
                /\ Keep(n, prepared, io)
                /\ UNCHANGED <<disk, node, book, faults, gated>>
           \/ Keep(n, prepared, "ok") /\ StagePrepared(n, e, node[n], TRUE)
    /\ UNCHANGED <<wire, acks, late, uncertain, issued, sent>>

\* The pairing tick stages again while the gate is open or nothing covers the
\* grant; so does the same response when it is delivered twice.
StageAgain(n) ==
    /\ MayKeep(n)
    /\ sessions[n].join # None
    /\ LET e == sessions[n].join
       IN  /\ (Up(n) /\ node[n].blocked) =>
                (node[n].floor = None /\ Less(Rank(node[n].current), Minimum(e.grant)))
           /\ \/ \E io \in Writes \ {"ok"} :
                   /\ Keep(n, sessions[n], io)
                   /\ UNCHANGED <<disk, node, book, faults, gated>>
              \/ Keep(n, sessions[n], "ok") /\ StagePrepared(n, e, node[n], TRUE)
    /\ UNCHANGED <<wire, acks, late, uncertain, issued, sent>>

\* Mutant of Completable: a staged enrollment counts like a selected roster.
CompletableStaged(n, e) ==
    /\ e.state = "Prepared"
    /\ AtLeast(IF node[n].floor # None THEN node[n].floor ELSE Rank(node[n].current),
               Minimum(e.grant))

\* The conditions of finalize_joiner for the pending join e.
Completable(n, e) ==
    /\ e.state = "Prepared"
    /\ node[n].floor = None
    /\ node[n].ready
    /\ node[n].sync # "ResyncRequired"
    /\ AtLeast(Rank(node[n].current), Minimum(e.grant))

\* The selected roster no longer holds the granted membership.
Superseded(n, g) ==
    \/ ~ActiveIn(node[n].current, n, late)
    \/ node[n].current.members[n].incarnation # g.snap.members[n].incarnation

\* Mutant of Aborted: the state of the enrollment is not changed.
AbortedForgotten(s) == s

\* begin_enrollment_abort.
Aborted(s) == [s EXCEPT !.join.state = "Aborting"]

\* mark_enrollment_applied_at for the pending join.
Completed(s) == [s EXCEPT !.join = None, !.applied = @ \cup {s.join.grant.op}]

\* Mutant of CompleteJoin: the gate opens although the save of the completion
\* was not confirmed.
CompleteJoinEarly(n, s) ==
    /\ Completable(n, s.join) /\ ~Superseded(n, s.join.grant)
    /\ \E io \in Writes : KeepTwice(n, s, Completed(s), io)
    /\ Set(n, Ungated(node[n]))
    /\ uncertain' = uncertain \ {n}

\* The rest of finalize_joiner, with finish_checkpoint_join_with: after a failed
\* save the pairing file is read back, and unless it surely is the previous one
\* the completion stays uncertain.
CompleteJoin(n, s) ==
    /\ Completable(n, s.join)
    /\ IF Superseded(n, s.join.grant)
       THEN /\ \E io \in Writes : Keep(n, Aborted(s), io)
            /\ uncertain' = uncertain \ {n}
            /\ UNCHANGED node
       ELSE \/ \E io \in Writes \ {"ok"} :
                 /\ Keep(n, s, io)
                 /\ uncertain' = uncertain \ {n}
                 /\ UNCHANGED node
            \/ /\ KeepTwice(n, s, Completed(s), "ok")
               /\ uncertain' = uncertain \ {n}
               /\ Set(n, Ungated(node[n]))
            \/ \E io \in Writes \ {"ok"}, unread \in BOOLEAN :
                 /\ sessions' = [sessions EXCEPT ![n] = s]
                 /\ vault' = [vault EXCEPT ![n] = Saved(Saved(@, s, "ok"), Completed(s), io)]
                 /\ ChargeWrite(io)
                 /\ uncertain' = IF io = "failed" /\ ~unread THEN uncertain \ {n}
                                 ELSE uncertain \cup {n}
                 /\ UNCHANGED node

\* finalize_joiner on the checkpoint tick.
FinalizeJoiner(n) ==
    /\ Up(n) /\ sessions[n].join # None
    /\ n \notin uncertain
    /\ CompleteJoin(n, sessions[n])
    /\ UNCHANGED <<book, disk, wire, acks, late, faults, issued, sent, gated>>

\* reconcile_checkpoint_completion_with at the head of finalize_joiner: the
\* visible file is saved again before it is believed.
ReconcileCompletion(n) ==
    /\ Up(n) /\ n \in uncertain
    /\ LET visible == vault[n].file
       IN  \/ \E io \in Writes \ {"ok"} :
                /\ vault' = [vault EXCEPT ![n] = Saved(@, visible, io)]
                /\ ChargeWrite(io)
                /\ UNCHANGED <<sessions, uncertain, node>>
           \/ /\ visible.join = None
              /\ Keep(n, visible, "ok")
              /\ uncertain' = uncertain \ {n}
              /\ Set(n, Ungated(node[n]))
           \/ /\ visible.join # None
              /\ IF Completable(n, visible.join) THEN CompleteJoin(n, visible)
                 ELSE /\ Keep(n, visible, "ok")
                      /\ uncertain' = uncertain \ {n}
                      /\ UNCHANGED node
    /\ UNCHANGED <<book, disk, wire, acks, late, faults, issued, sent, gated>>

-----------------------------------------------------------------------------
(* Cancellation.                                                           *)

\* PairCancel or PairReject before completion.
CancelJoin(n) ==
    /\ MayKeep(n)
    /\ sessions[n].join # None /\ sessions[n].join.state = "Prepared"
    /\ \E io \in Writes : Keep(n, Aborted(sessions[n]), io)
    /\ UNCHANGED <<vars, uncertain, issued, sent, gated>>

CancelInvite(n) ==
    /\ MayKeep(n)
    /\ sessions[n].invite # None /\ sessions[n].invite.state = "Prepared"
    /\ \E io \in Writes : Keep(n, [sessions[n] EXCEPT !.invite.state = "Aborting"], io)
    /\ UNCHANGED <<vars, uncertain, issued, sent, gated>>

\* The common part of cleanup_joiner_abort and the inviter's loop body: save the
\* abort, wait for durable authority, remove the admission of `subject` if it is
\* `there`, and save that it is released.
Withdraw(n, nd, subject, there, released) ==
    LET removal == [op |-> "RemoveMember", subject |-> subject]
        settled == nd.floor = None /\ nd.sync # "ResyncRequired"
    IN  \/ \E io \in Writes \ {"ok"} :
             /\ Keep(n, sessions[n], io)
             /\ UNCHANGED <<book, disk, node, wire, faults>>
        \/ /\ ~settled \/ (there /\ ~MaySign(n))
           /\ Keep(n, sessions[n], "ok")
           /\ Set(n, nd)
           /\ UNCHANGED <<book, disk, wire, faults>>
        \/ /\ settled /\ ~there
           /\ \E io \in Writes : KeepTwice(n, sessions[n], released, io)
           /\ Set(n, nd)
           /\ UNCHANGED <<book, disk, wire, faults>>
        \/ /\ settled /\ there /\ MaySign(n)
           /\ \E snap \in ChangedSnapshots(book, nd.current, removal, late) :
              \E io \in Outcomes(n, Plain(snap)) :
                /\ HandedOff(n, nd, removal, snap, io)
                /\ Record(snap, io)
                /\ IF io = "ok"
                   THEN \E last \in Writes : KeepTwice(n, sessions[n], released, last)
                   ELSE Keep(n, sessions[n], "ok")

\* cleanup_joiner_abort: a fresh admission is taken back by the joiner itself.
AbortJoin(n) ==
    /\ MayKeep(n) /\ Up(n)
    /\ sessions[n].join # None
    /\ sessions[n].join.state = "Aborting"
    /\ sessions[n].join.ownership # "Released"
    /\ LET e == sessions[n].join
           members == node[n].current.members
           there == /\ e.ownership = "Fresh"
                    /\ n \in DOMAIN members
                    /\ members[n].incarnation = e.grant.snap.members[n].incarnation
       IN  Withdraw(n, Gated(node[n]), n, there,
                    [sessions[n] EXCEPT !.join.ownership = "Released"])
    /\ UNCHANGED <<acks, late, uncertain, issued, sent, gated>>

\* The inviter takes an admission back that its approval made.
AbortInvite(n) ==
    /\ MayKeep(n) /\ Up(n)
    /\ sessions[n].invite # None
    /\ sessions[n].invite.state = "Aborting"
    /\ sessions[n].invite.owned
    /\ LET g == sessions[n].invite.grant
           members == node[n].current.members
           there == /\ AtLeast(Rank(node[n].current), Minimum(g))
                    /\ g.joiner \in DOMAIN members
                    /\ members[g.joiner].incarnation
                         = g.snap.members[g.joiner].incarnation
       IN  Withdraw(n, node[n], g.joiner, there,
                    [sessions[n] EXCEPT !.invite.owned = FALSE])
    /\ UNCHANGED <<acks, late, uncertain, issued, sent, gated>>

\* finish_enrollment_abort_with: the enrollment is gone, and its operation is an
\* aborted one from then on.
DiscardedJoin(s) == [s EXCEPT !.join = None, !.aborted = @ \cup {s.join.grant.op}]

DiscardedInvite(s) ==
    [s EXCEPT !.invite = None, !.aborted = @ \cup {s.invite.grant.op}]

\* Mutant of Discardable: an abort is discarded before authority is settled.
DiscardableAlways(s) ==
    (IF s.join # None /\ s.join.state = "Aborting" THEN {DiscardedJoin(s)} ELSE {})
    \cup (IF s.invite # None /\ s.invite.state = "Aborting"
          THEN {DiscardedInvite(s)} ELSE {})

\* The sessions cleanup_pending_pairing_aborts_with may go on to.
Discardable(s) ==
    (IF s.join # None /\ s.join.state = "Aborting" /\ s.join.ownership = "Released"
     THEN {DiscardedJoin(s)} ELSE {})
    \cup (IF s.invite # None /\ s.invite.state = "Aborting" /\ ~s.invite.owned
          THEN {DiscardedInvite(s)} ELSE {})

\* finish_enrollment_abort_with: memory follows only a confirmed save.
FinishAbort(n) ==
    /\ MayKeep(n)
    /\ \E next \in Discardable(sessions[n]) :
         \/ \E io \in Writes \ {"ok"} : Keep(n, sessions[n], io)
         \/ KeepTwice(n, sessions[n], next, "ok")
         \/ \E io \in Writes \ {"ok"} :
              /\ vault' = [vault EXCEPT ![n] = Saved(Saved(@, sessions[n], "ok"), next, io)]
              /\ ChargeWrite(io)
              /\ UNCHANGED sessions
    /\ UNCHANGED <<vars, uncertain, issued, sent, gated>>

\* release_idle_barrier on the pairing tick; it refuses while an enrollment is
\* staged, and that error ends the daemon.
ReleaseBarrier(n) ==
    /\ Up(n)
    /\ node[n].blocked
    /\ sessions[n].join = None
    /\ IF node[n].floor = None
       THEN Set(n, Ungated(node[n])) /\ UNCHANGED <<sessions, uncertain>>
       ELSE /\ Set(n, None)
            /\ sessions' = [sessions EXCEPT ![n] = None]
            /\ uncertain' = uncertain \ {n}
    /\ UNCHANGED <<book, disk, wire, acks, late, faults, vault, issued, sent, gated, glitches>>

-----------------------------------------------------------------------------
(* The daemon and its environment.                                         *)

\* Startup of run_mesh: load both files, stage a pending join behind the gate,
\* and save the sessions again.  An error leaves the daemon down.
Start(n) ==
    /\ ~Running(n)
    /\ RoundAvailable
    /\ LET file == disk[n].file
           loaded == vault[n].file
           nd == IF file = None THEN None ELSE Restored(file, FALSE, NewRound(file.snap))
       IN  /\ IF loaded.join = None
              THEN Set(n, nd) /\ UNCHANGED <<disk, book, faults, gated>>
              ELSE StagePrepared(n, loaded.join, nd, FALSE)
           /\ LET up == loaded.join = None \/ node'[n] # None
              IN  /\ sessions' = [sessions EXCEPT ![n] = IF up THEN loaded ELSE None]
                  /\ vault' = IF node'[n] = None THEN vault
                              ELSE [vault EXCEPT ![n] = Saved(@, loaded, "ok")]
    /\ UNCHANGED <<wire, acks, late, uncertain, issued, sent, glitches>>

StopDaemon(n) ==
    /\ Running(n)
    /\ faults < MaxFaults
    /\ faults' = faults + 1
    /\ Set(n, None)
    /\ sessions' = [sessions EXCEPT ![n] = None]
    /\ uncertain' = uncertain \ {n}
    /\ UNCHANGED <<book, disk, wire, acks, late, vault, issued, sent, gated, glitches>>

\* Power is lost: each file falls back to one of the copies it may hold.
PowerOff(n) ==
    /\ \E content \in Copies(n) : PowerLoss(n, content)
    /\ \E saved \in VaultCopies(n) :
         vault' = [vault EXCEPT ![n] = [file |-> saved, shadow |-> {}]]
    /\ sessions' = [sessions EXCEPT ![n] = None]
    /\ uncertain' = uncertain \ {n}
    /\ UNCHANGED <<issued, sent, gated, glitches>>

\* What a step of the membership runtime does to the pairing state: nothing,
\* except that an error in it ends the daemon.
MembershipFrame ==
    LET ended == {n \in Devices : Up(n) /\ node'[n] = None}
    IN  /\ sessions' = [n \in Devices |-> IF n \in ended THEN None ELSE sessions[n]]
        /\ uncertain' = uncertain \ ended
        /\ UNCHANGED <<vault, issued, sent, gated, glitches>>

MembershipStep ==
    /\ \/ Resync
       \/ \E n, d \in Devices : Revoke(n, d)
       \/ \E n \in Devices : PruneExpired(n) \/ FinishHandoff(n)
       \/ \E m \in wire : ReceiveMutation(m) \/ ConfirmMutation(m)
       \/ ExpiryPasses
    /\ MembershipFrame

-----------------------------------------------------------------------------
(* Specification.                                                          *)

JoinInit ==
    /\ Init
    /\ sessions = [d \in Devices |-> None]
    /\ vault = [d \in Devices |-> [file |-> NoSessions, shadow |-> {}]]
    /\ uncertain = {}
    /\ issued = {}
    /\ sent = {}
    /\ gated = {}
    /\ glitches = 0

JoinNext ==
    \/ MembershipStep
    \/ \E n, d \in Devices : Approve(n, d)
    \/ \E n \in Devices, g \in issued : AcceptJoiner(n, g)
    \/ \E n \in Devices :
         \/ RetryApproval(n) \/ StageAgain(n)
         \/ FinalizeJoiner(n) \/ ReconcileCompletion(n)
         \/ CancelJoin(n) \/ CancelInvite(n) \/ AbortJoin(n) \/ AbortInvite(n)
         \/ FinishAbort(n) \/ ReleaseBarrier(n)
         \/ Start(n) \/ StopDaemon(n) \/ PowerOff(n)

JoinSpec == JoinInit /\ [][JoinNext]_allVars

\* Every tick of the daemon keeps running.  Completion and abort are tried on
\* ticks that are much more frequent than rounds, so an opportunity that keeps
\* coming back is not missed forever.
JoinFairness ==
    \A n \in Devices :
      /\ WF_allVars(Start(n)) /\ WF_allVars(StageAgain(n))
      /\ WF_allVars(ReconcileCompletion(n)) /\ WF_allVars(FinishAbort(n))
      /\ WF_allVars(ReleaseBarrier(n))
      /\ SF_allVars(FinalizeJoiner(n)) /\ SF_allVars(AbortJoin(n))
      /\ WF_allVars(BeginResync(n) /\ MembershipFrame)
      /\ WF_allVars(FinishDue(n) /\ MembershipFrame)
      /\ WF_allVars(FinishHandoff(n) /\ MembershipFrame)
      /\ \A p \in Devices \ {n} :
           /\ SF_allVars(AskOffer(n, p) /\ MembershipFrame)
           /\ SF_allVars(CollectFrom(n, p) /\ MembershipFrame)

FairJoinSpec == JoinSpec /\ JoinFairness

-----------------------------------------------------------------------------
(* Properties.                                                             *)

\* Once a join gated a device, the device carries packets again only when no
\* crash can reopen the transaction: every copy of the pairing file that could
\* be loaded has it completed or discarded (finish_checkpoint_join_with,
\* reconcile_checkpoint_completion_with, stage_prepared at startup).
GateOutlivesTransaction ==
    \A p \in gated : Live(p[1]) => \A c \in VaultCopies(p[1]) : p[2] \in Closed(c)

\* An enrollment that a copy of the pairing file shows applied rests on authority
\* that its device cannot lose: every roster the device could load has reached the
\* grant (finalize_joiner, approve_checkpoint_pairing).
AppliedIsDurable ==
    \A n \in Devices : \A v \in VaultCopies(n) : \A g \in issued : g.op \in v.applied =>
      \A c \in Copies(n) : c # None /\ AtLeast(Rank(c.snap), Minimum(g))

\* A response that a joiner can fetch names an admission its inviter can no
\* longer lose (the approval saves and installs it first).
GrantsAreDurable ==
    \A g \in issued : g.op \in sent =>
      \A c \in Copies(g.inviter) : c # None /\ AtLeast(Rank(c.snap), Minimum(g))

\* A device that was not a founder carries packets only after the pairing that
\* brought it in was completed in its pairing file ("Completion requires
\* authenticated current state and a durable final pairing save",
\* docs/developer/membership-checkpoints.md).
ActivationNeedsCompletion ==
    \A n \in Devices \ Founders : Live(n) => vault[n].file.applied # {}

\* release_idle_barrier never meets a staged enrollment, which would end the
\* daemon on every pairing tick.
BarrierCanBeReleased ==
    \A n \in Devices :
      Up(n) /\ node[n].blocked /\ sessions[n].join = None => node[n].floor = None

\* As long as some other device keeps taking part, a join does not stay pending:
\* it completes or, once cancelled or superseded, is withdrawn and discarded.
JoinSettles ==
    \A n, p \in Devices : n # p =>
      (Running(n) /\ sessions[n].join # None) ~>
        \/ Running(n) /\ sessions[n].join = None
        \/ ~(Up(p) /\ Participates(p))
=============================================================================
