------------------------ MODULE CheckpointJoinProofs ------------------------
(***************************************************************************)
(* Proofs about joining by pairing, for any number of devices, approvals,  *)
(* failed writes, stops and power losses.                                  *)
(***************************************************************************)
EXTENDS CheckpointJoin, CheckpointRuntimeProofs

-----------------------------------------------------------------------------
(* The inductive invariant.                                                *)

Vaults == [file : Sessions, shadow : SUBSET Sessions]

\* Every variable keeps its type.
JoinTypeOK ==
    /\ sessions \in [Devices -> Sessions \cup {None}]
    /\ vault \in [Devices -> Vaults]
    /\ uncertain \in SUBSET Devices
    /\ issued \in SUBSET Grants
    /\ sent \in SUBSET Ops
    /\ gated \in SUBSET (Devices \X Ops)
    /\ glitches \in 0..MaxGlitches

\* What a file may turn out to hold.
Held(f) == {f.file} \cup f.shadow

\* The pairing states a device has in memory or could load.
Seen(s, v) == Held(v) \cup (IF s = None THEN {} ELSE {s})

\* The operations a device was gated for.
GatedOps(n) == {op \in Ops : <<n, op>> \in gated}

\* The pending join of x is the operation op.
Pends(x, op) == x.join # None /\ x.join.grant.op = op

Released(x) == x.join # None /\ x.join.ownership = "Released"

\* No copy of the membership file is missing or holds an enrollment floor.
Unstaged(d) == \A c \in Held(d) : c # None /\ c.floor = None

\* A gated operation is pending or closed in everything the device has or could
\* load; where it is still open, the running device is blocked and has it pending.
GateInv(nd, s, v, ops) ==
    /\ nd # None => s # None
    /\ \A x \in Seen(s, v), op \in ops : op \in Closed(x) \/ Pends(x, op)
    /\ nd # None => \A x \in Seen(s, v), op \in ops :
                      op \notin Closed(x) => nd.blocked /\ Pends(s, op)
    /\ nd # None /\ nd.blocked =>
         /\ nd.forwarder.sync = "ResyncRequired"
         /\ s.join = None => nd.floor = None

\* An admission is released only after the enrollment floor is gone for good, and
\* what is released is not forgotten before it is discarded.
ReleaseInv(s, v, d) ==
    /\ \A x \in Seen(s, v) : Released(x) => x.join.state = "Aborting" /\ Unstaged(d)
    /\ v.file.join # None /\ ~Released(v.file) => \A x \in Held(v) : ~Released(x)
    /\ s # None /\ ~Released(s) => \A x \in Held(v) : ~Released(x)

\* While a completion is uncertain, the file holds the state before or after it.
UncertainInv(s, v) ==
    s # None /\ s.join # None /\ Held(v) \subseteq {s, Completed(s)}

\* What the pairing state of a device has to do with its runtime and its files.
PairInv(nd, s, v, d, ops, unsure) ==
    /\ GateInv(nd, s, v, ops)
    /\ ReleaseInv(s, v, d)
    /\ unsure => UncertainInv(s, v)

\* The enrollments in x are of grants that were issued, and what x has applied at
\* device n is reached in every copy of the membership file.
ViewInv(x, n) ==
    /\ x.join # None => x.join.grant \in issued
    /\ x.invite # None => x.invite.grant \in issued /\ x.invite.grant.inviter = n
    /\ \A op \in x.applied : \E g \in issued : g.op = op
    /\ \A g \in issued : g.op \in x.applied => Above(n, g.snap)

\* An operation has one grant, and a grant names two members of its snapshot.
IssuedInv ==
    /\ \A g \in issued :
         g.inviter \in DOMAIN g.snap.members /\ g.joiner \in DOMAIN g.snap.members
    /\ \A g, h \in issued : g.op = h.op => g = h

SentInv ==
    /\ \A op \in sent : \E g \in issued : g.op = op
    /\ \A g \in issued : g.op \in sent => Above(g.inviter, g.snap)

\* The inductive strengthening: the invariant of the membership runtime and what
\* the pairing state of each device has to do with it.
JoinInvariant ==
    /\ DurabilityInvariant
    /\ JoinTypeOK
    /\ IssuedInv
    /\ SentInv
    /\ \A n \in Devices :
         /\ PairInv(node[n], sessions[n], vault[n], disk[n], GatedOps(n), n \in uncertain)
         /\ \A x \in Seen(sessions[n], vault[n]) : ViewInv(x, n)

-----------------------------------------------------------------------------
(* Pairing states and their file.                                          *)

\* mark_enrollment_applied_at: the join is gone and its operation applied.
LEMMA CompletedFields ==
    ASSUME NEW s \in Sessions, s.join # None
    PROVE  /\ Completed(s) \in Sessions
           /\ Completed(s).join = None
           /\ Completed(s).invite = s.invite
           /\ Completed(s).applied = s.applied \cup {s.join.grant.op}
           /\ Closed(Completed(s)) = Closed(s) \cup {s.join.grant.op}
<1>1. s.join \in Joins /\ s.join.grant.op \in Ops
  BY Zenon DEF Sessions, Joins, Grants
<1>3. Completed(s) \in Sessions
  BY <1>1, Zenon DEF Completed, Sessions
<1> QED BY <1>3, Zenon DEF Closed, Completed, Sessions

\* finish_enrollment_abort_with for a join.
LEMMA DiscardedJoinFields ==
    ASSUME NEW s \in Sessions, s.join # None
    PROVE  /\ DiscardedJoin(s) \in Sessions
           /\ DiscardedJoin(s).join = None
           /\ DiscardedJoin(s).invite = s.invite
           /\ DiscardedJoin(s).applied = s.applied
           /\ Closed(DiscardedJoin(s)) = Closed(s) \cup {s.join.grant.op}
<1>1. s.join \in Joins /\ s.join.grant.op \in Ops
  BY Zenon DEF Sessions, Joins, Grants
<1>3. DiscardedJoin(s) \in Sessions
  BY <1>1, Zenon DEF DiscardedJoin, Sessions
<1> QED BY <1>3, Zenon DEF Closed, DiscardedJoin, Sessions

\* finish_enrollment_abort_with for an invitation.
LEMMA DiscardedInviteFields ==
    ASSUME NEW s \in Sessions, s.invite # None
    PROVE  /\ DiscardedInvite(s) \in Sessions
           /\ DiscardedInvite(s).join = s.join
           /\ DiscardedInvite(s).invite = None
           /\ DiscardedInvite(s).applied = s.applied
           /\ Closed(s) \subseteq Closed(DiscardedInvite(s))
<1>1. s.invite \in Invites /\ s.invite.grant.op \in Ops
  BY Zenon DEF Sessions, Invites, Grants
<1>3. DiscardedInvite(s) \in Sessions
  BY <1>1, Zenon DEF DiscardedInvite, Sessions
<1> QED BY <1>3, Zenon DEF Closed, DiscardedInvite, Sessions

\* begin_enrollment_abort leaves everything but the state of the join.
LEMMA AbortedFields ==
    ASSUME NEW s \in Sessions, s.join # None
    PROVE  /\ Aborted(s) \in Sessions
           /\ Aborted(s).join \in Joins
           /\ Aborted(s).join.grant = s.join.grant
           /\ Aborted(s).join.state = "Aborting"
           /\ Aborted(s).join.ownership = s.join.ownership
           /\ Aborted(s).invite = s.invite
           /\ Aborted(s).applied = s.applied
           /\ Closed(Aborted(s)) = Closed(s)
<1> DEFINE j == [s.join EXCEPT !.state = "Aborting"]
<1>2. /\ j \in Joins /\ j.grant = s.join.grant /\ j.state = "Aborting"
      /\ j.ownership = s.join.ownership
  BY Zenon DEF Joins, Phases, Sessions
<1>3. Aborted(s) = [s EXCEPT !.join = j]
  BY Zenon DEF Aborted
<1> HIDE DEF j
<1> QED BY <1>2, <1>3, Zenon DEF Closed, Sessions

\* A save of a pairing state replaces the file or leaves it, and only an
\* unconfirmed one keeps what was there before.
LEMMA SavedVault ==
    ASSUME NEW v \in Vaults, NEW x \in Sessions, NEW io
    PROVE  /\ Saved(v, x, io) \in Vaults
           /\ Held(Saved(v, x, io)) \subseteq Held(v) \cup {x}
           /\ io = "ok" => Saved(v, x, io).file = x /\ Held(Saved(v, x, io)) = {x}
           /\ io = "failed" => Saved(v, x, io) = v
           /\ io # "failed" => Saved(v, x, io).file = x
<1> QED BY Zenon DEF Vaults, Held, Saved

\* A confirmed save followed by another one.
LEMMA SavedTwice ==
    ASSUME NEW v \in Vaults, NEW x \in Sessions, NEW y \in Sessions, NEW io
    PROVE  /\ Saved(Saved(v, x, "ok"), y, io) \in Vaults
           /\ Held(Saved(Saved(v, x, "ok"), y, io)) \subseteq {x, y}
           /\ io = "ok" => Held(Saved(Saved(v, x, "ok"), y, io)) = {y}
           /\ io = "failed" => Held(Saved(Saved(v, x, "ok"), y, io)) = {x}
           /\ Saved(Saved(v, x, "ok"), y, io).file = IF io = "failed" THEN x ELSE y
<1> DEFINE w == Saved(v, x, "ok")
<1> HIDE DEF w
<1> QED BY SavedVault DEF w

-----------------------------------------------------------------------------
(* What a change of the pairing state does to the gate.                    *)

\* What y has closed is closed in x, and what y has pending is pending or closed.
Carries(x, y) ==
    /\ Closed(y) \subseteq Closed(x)
    /\ y.join # None => y.join.grant.op \in Closed(x) \/ Pends(x, y.join.grant.op)

\* A blocked device forwards nothing, and without a join it is not staged.
GateShut(nd, s) ==
    nd # None /\ nd.blocked =>
      nd.forwarder.sync = "ResyncRequired" /\ (s.join = None => nd.floor = None)

\* A step that carries every pairing state on and does not open the gate.
LEMMA GateCarried ==
    ASSUME NEW nd, NEW nd2, NEW s, NEW s2, NEW v, NEW v2, NEW ops,
           GateInv(nd, s, v, ops), s # None, s2 # None,
           \A x \in Seen(s2, v2) : \E y \in Seen(s, v) : Carries(x, y),
           s.join # None => Pends(s2, s.join.grant.op),
           nd2 # None => nd # None /\ (nd.blocked => nd2.blocked),
           GateShut(nd2, s2)
    PROVE  GateInv(nd2, s2, v2, ops)
<1>1. ASSUME NEW x \in Seen(s2, v2), NEW op \in ops
      PROVE  /\ op \in Closed(x) \/ Pends(x, op)
             /\ nd2 # None /\ op \notin Closed(x) => nd2.blocked /\ Pends(s2, op)
  <2>1. PICK y \in Seen(s, v) : Carries(x, y)
    BY <1>1, Zenon
  <2>4. ASSUME nd2 # None, op \notin Closed(x) PROVE nd2.blocked /\ Pends(s2, op)
    BY <2>1, <2>4, Zenon DEF Pends, GateInv, Carries
  <2> QED BY <2>1, <2>4 DEF Carries, Pends, GateInv
<1> QED BY <1>1, Zenon DEF GateInv, GateShut

\* A step after which nothing of the gate is open in any copy.
LEMMA GateClosed ==
    ASSUME NEW nd, NEW s, NEW v, NEW ops, s # None,
           \A x \in Seen(s, v), op \in ops : op \in Closed(x),
           GateShut(nd, s)
    PROVE  GateInv(nd, s, v, ops)
BY Zenon DEF GateInv, GateShut

\* A step that blocks the device after the pairing state was saved.
LEMMA GateStaged ==
    ASSUME NEW nd, NEW s, NEW v, NEW ops, s # None, Held(v) = {s},
           \A op \in ops : op \in Closed(s) \/ Pends(s, op),
           nd # None => nd.blocked, GateShut(nd, s)
    PROVE  GateInv(nd, s, v, ops)
<1> QED BY Zenon DEF GateInv, GateShut, Seen

\* The process ends.
LEMMA GateDown ==
    ASSUME NEW nd, NEW s, NEW v, NEW v2, NEW ops, GateInv(nd, s, v, ops),
           Held(v2) \subseteq Held(v)
    PROVE  GateInv(None, None, v2, ops)
BY Zenon DEF GateInv, Seen

\* Nothing is released anywhere.
LEMMA ReleaseFree ==
    ASSUME NEW s, NEW v, NEW d, v.file \in Held(v), \A x \in Seen(s, v) : ~Released(x)
    PROVE  ReleaseInv(s, v, d)
BY Zenon DEF ReleaseInv, Seen

\* The pairing state becomes x, released like the one before, and is saved.
LEMMA ReleaseKept ==
    ASSUME NEW s \in Sessions, NEW x \in Sessions, NEW v \in Vaults, NEW io, NEW d, NEW d2,
           ReleaseInv(s, v, d), Released(x) <=> Released(s),
           Released(x) => x.join.state = "Aborting", Unstaged(d) => Unstaged(d2)
    PROVE  ReleaseInv(x, Saved(v, x, io), d2)
<1> DEFINE w == Saved(v, x, io)
<1> HIDE DEF w
<1> QED BY SavedVault, SessionAssumption DEF ReleaseInv, w, Seen

\* A pairing state is saved, and then it becomes y and is saved again.
LEMMA ReleaseTwice ==
    ASSUME NEW s \in Sessions, NEW y \in Sessions, NEW v \in Vaults, NEW io, NEW d,
           Released(s) => s.join.state = "Aborting" /\ Unstaged(d),
           Released(y) => y.join.state = "Aborting" /\ Unstaged(d),
           io = "ok" \/ (Released(s) => Released(y))
    PROVE  ReleaseInv(y, Saved(Saved(v, s, "ok"), y, io), d)
<1> DEFINE w == Saved(Saved(v, s, "ok"), y, io)
<1> HIDE DEF w
<1> QED BY SavedTwice DEF ReleaseInv, w, Seen

-----------------------------------------------------------------------------
(* Steps of one device.                                                    *)

\* What a pairing state has applied stays reached when a step is safe.
LEMMA ViewKept ==
    ASSUME JoinInvariant, TypeOK', SafeStep, issued \subseteq issued', IssuedInv',
           NEW n \in Devices, NEW x, ViewInv(x, n)
    PROVE  ViewInv(x, n)'
<1>2. ASSUME NEW g \in issued', g.op \in x.applied PROVE Above(n, g.snap)'
  <2>1. PICK h \in issued : h.op = g.op
    BY <1>2, Zenon DEF ViewInv
  <2> QED
    BY <1>2, <2>1, AboveStable, Zenon DEF JoinInvariant, JoinTypeOK, Grants, ViewInv, IssuedInv,
       DurabilityInvariant, SafeStep
<1> QED BY <1>2, Zenon DEF ViewInv

\* A response that was handed out stays durable.
LEMMA SentKept ==
    ASSUME JoinInvariant, TypeOK', SafeStep, UNCHANGED <<issued, sent>>
    PROVE  IssuedInv' /\ SentInv'
<1> QED
  BY AboveStable, Zenon DEF JoinInvariant, IssuedInv, SentInv, JoinTypeOK, Grants, DurabilityInvariant,
     SafeStep

\* A safe step keeps the invariant of the membership runtime.
LEMMA SafeKeepsDurability ==
    ASSUME DurabilityInvariant, TypeOK', SafeStep
    PROVE  DurabilityInvariant'
BY DurableStep, Zenon DEF DurabilityInvariant, SafeStep

\* A step leaves everything of the devices other than n alone.
OthersKept(n) ==
    \A m \in Devices \ {n} :
      /\ node'[m] = node[m] /\ disk'[m] = disk[m]
      /\ sessions'[m] = sessions[m] /\ vault'[m] = vault[m]
      /\ GatedOps(m)' = GatedOps(m)
      /\ m \in uncertain' <=> m \in uncertain

\* It is enough to look at the device a step changes.
LEMMA PairingStep ==
    ASSUME JoinInvariant, TypeOK', SafeStep, JoinTypeOK', IssuedInv', SentInv',
           issued \subseteq issued', NEW n \in Devices, OthersKept(n),
           PairInv(node'[n], sessions'[n], vault'[n], disk'[n], GatedOps(n)', n \in uncertain'),
           \A x \in Seen(sessions'[n], vault'[n]) : ViewInv(x, n)'
    PROVE  JoinInvariant'
<1>2. ASSUME NEW m \in Devices
      PROVE  PairInv(node'[m], sessions'[m], vault'[m], disk'[m], GatedOps(m)', m \in uncertain')
  BY Zenon DEF OthersKept, PairInv, JoinInvariant
<1>3. ASSUME NEW m \in Devices, NEW x \in Seen(sessions'[m], vault'[m]) PROVE ViewInv(x, m)'
  BY <1>3, ViewKept, Zenon DEF JoinInvariant, OthersKept
<1>4. \A m \in Devices :
        PairInv(node[m], sessions[m], vault[m], disk[m], GatedOps(m), m \in uncertain)'
  BY <1>2, Zenon DEF PairInv, GateInv, ReleaseInv, UncertainInv
<1> QED BY <1>3, <1>4, SafeKeepsDurability, Zenon DEF JoinInvariant, Seen

\* A step that replaces the pairing state of one device and its file.
LEMMA SessionType ==
    ASSUME JoinTypeOK, NEW n \in Devices, NEW s \in Sessions \cup {None}, NEW v \in Vaults,
           sessions' = [sessions EXCEPT ![n] = s], vault' = [vault EXCEPT ![n] = v]
    PROVE  /\ sessions' \in [Devices -> Sessions \cup {None}]
           /\ vault' \in [Devices -> Vaults]
           /\ sessions'[n] = s /\ vault'[n] = v
           /\ \A m \in Devices \ {n} : sessions'[m] = sessions[m] /\ vault'[m] = vault[m]
BY Zenon DEF JoinTypeOK

\* What the invariant says of one running daemon.
LEMMA DaemonFacts ==
    ASSUME JoinInvariant, NEW n \in Devices
    PROVE  /\ TypeOK /\ JoinTypeOK /\ DurabilityInvariant
           /\ vault[n] \in Vaults
           /\ Held(vault[n]) \subseteq Sessions
           /\ vault[n].file \in Held(vault[n])
           /\ sessions[n] # None => sessions[n] \in Sessions
           /\ Up(n) => sessions[n] # None
           /\ DeviceInv(node[n], disk[n])
           /\ GateInv(node[n], sessions[n], vault[n], GatedOps(n))
           /\ ReleaseInv(sessions[n], vault[n], disk[n])
           /\ n \in uncertain => UncertainInv(sessions[n], vault[n])
           /\ \A x \in Seen(sessions[n], vault[n]) : ViewInv(x, n)
<1>1. TypeOK /\ JoinTypeOK /\ DurabilityInvariant
  BY Zenon DEF JoinInvariant, DurabilityInvariant
<1>2. DeviceInv(node[n], disk[n])
  BY <1>1, DeviceWise, Zenon DEF DurabilityInvariant
<1>3. PairInv(node[n], sessions[n], vault[n], disk[n], GatedOps(n), n \in uncertain)
  BY Zenon DEF JoinInvariant
<1>5. Up(n) => sessions[n] # None
  BY <1>3, Zenon DEF PairInv, GateInv, Up
<1> QED BY <1>1, <1>2, <1>3, <1>5, Zenon DEF PairInv, Vaults, Held, JoinInvariant, JoinTypeOK

-----------------------------------------------------------------------------
(* Steps that save the pairing state.                                      *)

\* x goes on from the pairing state s: what was closed or pending stays so.
Extends(x, s) ==
    Carries(x, s) /\ (s.join # None => Pends(x, s.join.grant.op))

\* The runtime goes on without opening the gate.
GoesOn(nd, nd2, s) ==
    (nd2 # None => nd # None /\ (nd.blocked => nd2.blocked)) /\ GateShut(nd2, s)

\* What is released at x is being aborted, and the floor is gone from d.
ReleasedWell(x, d) == Released(x) => x.join.state = "Aborting" /\ Unstaged(d)

\* The grants and the responses stay consistent.
BooksKept ==
    /\ issued \subseteq issued' /\ issued' \in SUBSET Grants /\ sent' \in SUBSET Ops
    /\ IssuedInv' /\ SentInv'

\* A step of device n that gates nothing and leaves no completion uncertain.
PairingFrame(n) ==
    /\ \A m \in Devices \ {n} : node'[m] = node[m] /\ disk'[m] = disk[m]
    /\ gated' = gated
    /\ uncertain' = uncertain \ {n}

\* A write of the pairing file is counted.
LEMMA WriteType ==
    ASSUME JoinTypeOK, NEW io \in Writes, ChargeWrite(io)
    PROVE  glitches' \in 0..MaxGlitches /\ io \in {"ok", "failed", "uncertain"}
BY JoinAssumption DEF JoinTypeOK, Writes, ChargeWrite

\* The other devices are untouched by a step within its frame.
LEMMA FrameOthers ==
    ASSUME NEW n \in Devices, PairingFrame(n),
           \A m \in Devices \ {n} : sessions'[m] = sessions[m] /\ vault'[m] = vault[m]
    PROVE  OthersKept(n) /\ GatedOps(n)' = GatedOps(n)
BY Zenon DEF OthersKept, PairingFrame, GatedOps

\* The pairing state becomes x and is saved with any outcome.
LEMMA KeepStep ==
    ASSUME JoinInvariant, TypeOK', SafeStep, BooksKept,
           NEW n \in Devices, PairingFrame(n), sessions[n] # None,
           NEW x \in Sessions, NEW io \in Writes, Keep(n, x, io),
           Extends(x, sessions[n]), GoesOn(node[n], node'[n], x),
           Released(x) <=> Released(sessions[n]),
           Released(x) => x.join.state = "Aborting",
           Unstaged(disk[n]) => Unstaged(disk'[n]),
           ViewInv(x, n)'
    PROVE  JoinInvariant'
<1> DEFINE s == sessions[n]
           v == vault[n]
           w == Saved(v, x, io)
<1>1. /\ JoinTypeOK /\ v \in Vaults /\ s \in Sessions
      /\ GateInv(node[n], s, v, GatedOps(n)) /\ ReleaseInv(s, v, disk[n])
      /\ \A y \in Seen(s, v) : ViewInv(y, n)
  BY DaemonFacts, Zenon
<1>2. w \in Vaults /\ Held(w) \subseteq Held(v) \cup {x}
  BY <1>1, SavedVault, Zenon
<1>3. x # None
  BY SessionAssumption, Zenon
<1>4. sessions' = [sessions EXCEPT ![n] = x] /\ vault' = [vault EXCEPT ![n] = w]
  BY Zenon DEF Keep
<1>5. ReleaseInv(x, w, disk'[n])
  BY <1>1, ReleaseKept, Zenon
<1> HIDE DEF w
<1>6. /\ sessions' \in [Devices -> Sessions \cup {None}] /\ vault' \in [Devices -> Vaults]
      /\ sessions'[n] = x /\ vault'[n] = w
      /\ \A m \in Devices \ {n} : sessions'[m] = sessions[m] /\ vault'[m] = vault[m]
  BY <1>1, <1>2, <1>4, SessionType, Zenon
<1>7. OthersKept(n) /\ GatedOps(n)' = GatedOps(n)
  BY <1>6, FrameOthers, Zenon
<1>8. Seen(x, w) \subseteq Held(v) \cup {x} /\ Held(v) \subseteq Seen(s, v) /\ s \in Seen(s, v)
  BY <1>2, <1>3, Zenon DEF Seen
<1>9. GateInv(node'[n], x, w, GatedOps(n))
  <2>1. \A y \in Seen(x, w) : \E z \in Seen(s, v) : Carries(y, z)
    BY <1>8, Zenon DEF Extends, Carries, Pends
  <2> QED BY <1>1, <1>3, <2>1, GateCarried DEF Extends, GoesOn
<1>10. \A y \in Seen(x, w) : ViewInv(y, n)'
  BY <1>1, <1>8, ViewKept, Zenon DEF BooksKept
<1>11. JoinTypeOK'
  BY <1>1, <1>6, WriteType, Zenon DEF JoinTypeOK, BooksKept, PairingFrame, Keep
<1>12. PairInv(node'[n], sessions'[n], vault'[n], disk'[n], GatedOps(n)', n \in uncertain')
  BY <1>5, <1>6, <1>7, <1>9, Zenon DEF PairInv, PairingFrame
<1> QED BY <1>6, <1>7, <1>10, <1>11, <1>12, PairingStep, Zenon DEF BooksKept

\* The pairing state x is saved, then it becomes y and is saved with any outcome.
LEMMA KeepTwiceStep ==
    ASSUME JoinInvariant, TypeOK', SafeStep, BooksKept,
           NEW n \in Devices, PairingFrame(n), sessions[n] # None,
           NEW x \in Sessions, NEW y \in Sessions, NEW io \in Writes, KeepTwice(n, x, y, io),
           Extends(x, sessions[n]), Extends(y, sessions[n]), GoesOn(node[n], node'[n], y),
           ReleasedWell(x, disk'[n]), ReleasedWell(y, disk'[n]),
           Released(x) => Released(y),
           ViewInv(x, n)', ViewInv(y, n)'
    PROVE  JoinInvariant'
<1> DEFINE s == sessions[n]
           v == vault[n]
           w == Saved(Saved(v, x, "ok"), y, io)
<1>1. /\ JoinTypeOK /\ v \in Vaults /\ s \in Sessions
      /\ GateInv(node[n], s, v, GatedOps(n))
  BY DaemonFacts, Zenon
<1>2. w \in Vaults /\ Held(w) \subseteq {x, y}
  BY <1>1, SavedTwice, Zenon
<1>3. y # None
  BY SessionAssumption, Zenon
<1>4. sessions' = [sessions EXCEPT ![n] = y] /\ vault' = [vault EXCEPT ![n] = w]
  BY Zenon DEF KeepTwice
<1>5. ReleaseInv(y, w, disk'[n])
  BY <1>1, ReleaseTwice, Zenon DEF ReleasedWell
<1> HIDE DEF w
<1>6. /\ sessions' \in [Devices -> Sessions \cup {None}] /\ vault' \in [Devices -> Vaults]
      /\ sessions'[n] = y /\ vault'[n] = w
      /\ \A m \in Devices \ {n} : sessions'[m] = sessions[m] /\ vault'[m] = vault[m]
  BY <1>1, <1>2, <1>4, SessionType, Zenon
<1>7. OthersKept(n) /\ GatedOps(n)' = GatedOps(n)
  BY <1>6, FrameOthers, Zenon
<1>8. Seen(y, w) \subseteq {x, y} /\ s \in Seen(s, v)
  BY <1>2, <1>3, Zenon DEF Seen
<1>9. GateInv(node'[n], y, w, GatedOps(n))
  <2>1. \A z \in Seen(y, w) : Carries(z, s)
    BY <1>8, Zenon DEF Extends
  <2> QED BY <1>1, <1>3, <1>8, <2>1, GateCarried, Zenon DEF Extends, GoesOn
<1>10. JoinTypeOK'
  <2>1. glitches' \in 0..MaxGlitches
    BY <1>1, WriteType, Zenon DEF KeepTwice
  <2> QED BY <1>1, <1>6, <2>1, Zenon DEF JoinTypeOK, BooksKept, PairingFrame
<1>11. PairInv(node'[n], sessions'[n], vault'[n], disk'[n], GatedOps(n)', n \in uncertain')
  BY <1>5, <1>6, <1>7, <1>9, Zenon DEF PairInv, PairingFrame
<1> QED BY <1>6, <1>7, <1>8, <1>10, <1>11, PairingStep, Zenon DEF BooksKept

\* The pairing state of device n becomes y and its file w.
Stores(n, y, w) ==
    /\ sessions' = [sessions EXCEPT ![n] = y]
    /\ vault' = [vault EXCEPT ![n] = w]

\* The pairing state of device n is saved, and then y is written with outcome io.
SavesTail(n, y, io) ==
    /\ sessions' = sessions
    /\ vault' = [vault EXCEPT ![n] = Saved(Saved(vault[n], sessions[n], "ok"), y, io)]
    /\ ChargeWrite(io)

\* The pairing state becomes y, which closes everything the device was gated for,
\* and is saved for good.
LEMMA ClosedStep ==
    ASSUME JoinInvariant, TypeOK', SafeStep, BooksKept,
           NEW n \in Devices, PairingFrame(n),
           NEW y \in Sessions, NEW w \in Vaults, Held(w) = {y}, w.file = y,
           Stores(n, y, w), glitches' \in 0..MaxGlitches,
           y.join = None, GatedOps(n) \subseteq Closed(y), GateShut(node'[n], y),
           ViewInv(y, n)'
    PROVE  JoinInvariant'
<1>1. JoinTypeOK /\ y # None
  BY DaemonFacts, SessionAssumption, Zenon
<1>2. /\ sessions' \in [Devices -> Sessions \cup {None}] /\ vault' \in [Devices -> Vaults]
      /\ sessions'[n] = y /\ vault'[n] = w
      /\ \A m \in Devices \ {n} : sessions'[m] = sessions[m] /\ vault'[m] = vault[m]
  BY <1>1, Zenon DEF Stores, JoinTypeOK
<1>3. OthersKept(n) /\ GatedOps(n)' = GatedOps(n)
  BY <1>2, FrameOthers, Zenon
<1>4. Seen(y, w) = {y} /\ ~Released(y)
  BY <1>1, Zenon DEF Seen, Released
<1>5. GateInv(node'[n], y, w, GatedOps(n))
  BY <1>1, <1>4, GateClosed, Zenon
<1>6. ReleaseInv(y, w, disk'[n])
  BY <1>4, ReleaseFree, Zenon
<1>7. JoinTypeOK'
  BY <1>1, <1>2, Zenon DEF JoinTypeOK, BooksKept, PairingFrame
<1>8. PairInv(node'[n], sessions'[n], vault'[n], disk'[n], GatedOps(n)', n \in uncertain')
  BY <1>2, <1>3, <1>5, <1>6, Zenon DEF PairInv, PairingFrame
<1> QED BY <1>2, <1>3, <1>4, <1>7, <1>8, PairingStep, Zenon DEF BooksKept

\* The pairing state is saved, then y is written and memory does not follow.
LEMMA TailStep ==
    ASSUME JoinInvariant, UNCHANGED <<vars, issued, sent, gated>>,
           NEW n \in Devices, sessions[n] # None,
           NEW y \in Sessions, NEW io \in Writes, SavesTail(n, y, io),
           Carries(y, sessions[n]), y.join \in {None, sessions[n].join}, ViewInv(y, n),
           \/ uncertain' = uncertain \ {n}
           \/ /\ uncertain' = uncertain \cup {n}
              /\ sessions[n].join # None /\ y = Completed(sessions[n])
    PROVE  JoinInvariant'
<1> DEFINE s == sessions[n]
           v == vault[n]
           w == Saved(Saved(v, s, "ok"), y, io)
<1>1. /\ TypeOK /\ JoinTypeOK /\ DurabilityInvariant /\ v \in Vaults /\ s \in Sessions
      /\ GateInv(node[n], s, v, GatedOps(n)) /\ ReleaseInv(s, v, disk[n])
      /\ \A x \in Seen(s, v) : ViewInv(x, n)
  BY DaemonFacts, Zenon
<1>2. w \in Vaults /\ Held(w) \subseteq {s, y} /\ w.file \in {s, y}
  BY <1>1, SavedTwice
<1>3. vault' = [vault EXCEPT ![n] = w] /\ sessions' = [sessions EXCEPT ![n] = s]
  BY <1>1, Zenon DEF JoinTypeOK, SavesTail
<1> HIDE DEF w
<1>4. /\ sessions' \in [Devices -> Sessions \cup {None}] /\ vault' \in [Devices -> Vaults]
      /\ sessions'[n] = s /\ vault'[n] = w
      /\ \A m \in Devices \ {n} : sessions'[m] = sessions[m] /\ vault'[m] = vault[m]
  BY <1>1, <1>2, <1>3, Zenon DEF JoinTypeOK
<1>5. Seen(s, w) \subseteq {s, y} /\ s \in Seen(s, v)
  BY <1>2, Zenon DEF Seen
<1>6. GateInv(node[n], s, w, GatedOps(n))
  <2>1. \A z \in Seen(s, w) : Carries(z, s)
    BY <1>5, Zenon DEF Carries, Pends
  <2>2. GateShut(node[n], s)
    BY <1>1, Zenon DEF GateInv, GateShut
  <2> QED BY <1>1, <1>5, <2>1, <2>2, GateCarried, Zenon DEF Pends
<1>7. ReleaseInv(s, w, disk[n])
  BY <1>1, <1>2, <1>5, Zenon DEF ReleaseInv, Released
<1>8. SafeStep /\ TypeOK'
  <2>1. [Next]_vars
    BY Zenon
  <2> QED BY <1>1, <2>1, TypeStep, StepIsSafe, Zenon
<1>9. IssuedInv' /\ SentInv'
  BY <1>8, SentKept, Zenon
<1>10. \A x \in Seen(s, w) : ViewInv(x, n)'
  BY <1>1, <1>5, <1>8, <1>9, ViewKept, Zenon
<1>11. JoinTypeOK'
  <2>1. glitches' \in 0..MaxGlitches
    BY <1>1, WriteType, Zenon DEF SavesTail
  <2> QED BY <1>1, <1>4, <2>1, Zenon DEF JoinTypeOK
<1>12. OthersKept(n) /\ GatedOps(n)' = GatedOps(n) /\ node' = node /\ disk' = disk
  BY <1>4, Zenon DEF OthersKept, GatedOps, vars
<1>13. n \in uncertain' => UncertainInv(s, w)
  BY <1>2, Zenon DEF UncertainInv
<1>14. PairInv(node'[n], sessions'[n], vault'[n], disk'[n], GatedOps(n)', n \in uncertain')
  BY <1>4, <1>6, <1>7, <1>12, <1>13, Zenon DEF PairInv
<1> QED BY <1>4, <1>8, <1>9, <1>10, <1>11, <1>12, <1>14, PairingStep, Zenon

-----------------------------------------------------------------------------
(* Steps that change nothing but the pairing state.                        *)

\* Nothing of the membership runtime changes.
LEMMA UnchangedSafe ==
    ASSUME JoinInvariant, UNCHANGED vars
    PROVE  TypeOK' /\ SafeStep
<1>1. DurabilityInvariant /\ TypeOK
  BY Zenon DEF JoinInvariant, DurabilityInvariant
<1>2. [Next]_vars
  BY Zenon
<1> QED BY <1>1, <1>2, TypeStep, StepIsSafe, Zenon

\* No grant and no response is added.
LEMMA BooksSame ==
    ASSUME JoinInvariant, TypeOK', SafeStep, UNCHANGED <<issued, sent>>
    PROVE  BooksKept
BY SentKept, Zenon DEF BooksKept, JoinInvariant, JoinTypeOK

\* A runtime that does not change goes on.
LEMMA GoesOnSame ==
    ASSUME JoinInvariant, NEW n \in Devices, NEW x,
           x.join = None => sessions[n].join = None
    PROVE  GoesOn(node[n], node[n], x)
BY DaemonFacts, Zenon DEF GoesOn, GateShut, GateInv

\* A pairing state goes on from itself.
LEMMA ExtendsSelf ==
    ASSUME NEW s
    PROVE  Extends(s, s)
BY Zenon DEF Extends, Carries, Pends

\* A change of the invitation leaves the join alone.
LEMMA InviteFields ==
    ASSUME NEW s \in Sessions, NEW i \in Invites \cup {None}, NEW x, x = [s EXCEPT !.invite = i]
    PROVE  /\ x \in Sessions
           /\ x.join = s.join /\ x.invite = i /\ x.applied = s.applied
           /\ Extends(x, s)
           /\ Released(x) <=> Released(s)
<1> QED BY Zenon DEF Sessions, Extends, Carries, Pends, Closed, Released

\* So does the completion of an invitation.
InviteDone(s, op) == [s EXCEPT !.invite = None, !.applied = @ \cup {op}]

LEMMA InviteApplied ==
    ASSUME NEW s \in Sessions, NEW op \in Ops, NEW x,
           x = InviteDone(s, op)
    PROVE  /\ x \in Sessions
           /\ x.join = s.join /\ x.invite = None /\ x.applied = s.applied \cup {op}
           /\ Extends(x, s)
           /\ Released(x) <=> Released(s)
<1> QED BY Zenon DEF Sessions, InviteDone, Extends, Carries, Pends, Closed, Released

\* begin_enrollment_abort of a pending join goes on from it.
LEMMA AbortedExtends ==
    ASSUME NEW s \in Sessions, s.join # None
    PROVE  /\ Extends(Aborted(s), s)
           /\ Released(Aborted(s)) <=> Released(s)
           /\ Aborted(s).join # None
<1> QED BY AbortedFields, SessionAssumption, Zenon DEF Extends, Carries, Pends, Released

\* The pairing state is saved as it is, or with its join aborted, in a step that
\* changes nothing else.
LEMMA SaveAgainStep ==
    ASSUME JoinInvariant, UNCHANGED <<vars, issued, sent, gated>>,
           NEW n \in Devices, sessions[n] # None, uncertain' = uncertain \ {n},
           NEW x, \/ x = sessions[n]
                  \/ sessions[n].join # None /\ x = Aborted(sessions[n]),
           NEW io \in Writes, Keep(n, x, io)
    PROVE  JoinInvariant'
<1> DEFINE s == sessions[n]
<1>1. /\ s \in Sessions /\ ReleaseInv(s, vault[n], disk[n]) /\ ViewInv(s, n)
  BY DaemonFacts, Zenon DEF Seen
<1>2. TypeOK' /\ SafeStep
  BY UnchangedSafe, Zenon
<1>3. BooksKept
  BY <1>2, BooksSame, Zenon
<1>4. PairingFrame(n) /\ node' = node /\ disk' = disk
  BY Zenon DEF PairingFrame, vars
<1>5. /\ x \in Sessions /\ Extends(x, s) /\ (Released(x) <=> Released(s))
      /\ x.join = None => s.join = None
      /\ x.applied = s.applied /\ x.invite = s.invite
      /\ x.join # None => s.join # None /\ x.join.grant = s.join.grant
  BY <1>1, ExtendsSelf, AbortedFields, AbortedExtends, Zenon
<1>6. Released(x) => x.join.state = "Aborting"
  BY <1>1, AbortedFields, Zenon DEF ReleaseInv, Seen
<1>7. ViewInv(x, n)
  BY <1>1, <1>5, Zenon DEF ViewInv
<1>8. ViewInv(x, n)'
  BY <1>2, <1>3, <1>7, ViewKept, Zenon DEF BooksKept
<1>9. GoesOn(node[n], node'[n], x)
  BY <1>4, <1>5, GoesOnSame, Zenon
<1> QED BY <1>2, <1>3, <1>4, <1>5, <1>6, <1>8, <1>9, KeepStep, Zenon

\* PairCancel or PairReject of a join.
LEMMA CancelJoinStep ==
    ASSUME JoinInvariant, NEW n \in Devices, CancelJoin(n)
    PROVE  JoinInvariant'
<1>2. PICK io \in Writes : Keep(n, Aborted(sessions[n]), io)
  BY Zenon DEF CancelJoin
<1> QED BY <1>2, SaveAgainStep, Zenon DEF CancelJoin, MayKeep, Running

\* PairCancel or PairReject of an invitation.
LEMMA CancelInviteStep ==
    ASSUME JoinInvariant, NEW n \in Devices, CancelInvite(n)
    PROVE  JoinInvariant'
<1> SUFFICES ASSUME NEW s, s = sessions[n] PROVE JoinInvariant'
  BY Zenon
<1>0. PICK x : x = [s EXCEPT !.invite.state = "Aborting"]
  BY Zenon
<1> DEFINE i == [s.invite EXCEPT !.state = "Aborting"]
<1>1. /\ s # None /\ s.invite # None /\ uncertain' = uncertain \ {n}
      /\ UNCHANGED <<vars, issued, sent, gated>>
  BY Zenon DEF CancelInvite, MayKeep, Running
<1>2. s \in Sessions /\ ReleaseInv(s, vault[n], disk[n]) /\ ViewInv(s, n)
  BY <1>1, DaemonFacts, Zenon DEF Seen
<1>4. i \in Invites /\ i.grant = s.invite.grant
  BY <1>1, <1>2, Zenon DEF Invites, Phases, Sessions
<1>5. PICK io \in Writes : Keep(n, x, io)
  BY <1>0, Zenon DEF CancelInvite
<1>6. x = [s EXCEPT !.invite = i]
  BY <1>0, Zenon
<1> HIDE DEF i
<1>7. /\ x \in Sessions /\ Extends(x, s) /\ (Released(x) <=> Released(s))
      /\ x.join = s.join /\ x.invite = i /\ x.applied = s.applied
  BY <1>2, <1>4, <1>6, InviteFields
<1>8. TypeOK' /\ SafeStep
  BY <1>1, UnchangedSafe, Zenon
<1>9. BooksKept
  BY <1>1, <1>8, BooksSame, Zenon
<1>10. PairingFrame(n) /\ node' = node /\ disk' = disk
  BY <1>1, Zenon DEF PairingFrame, vars
<1>11. Released(x) => x.join.state = "Aborting"
  BY <1>1, <1>2, <1>7, Zenon DEF ReleaseInv, Seen
<1>12. ViewInv(x, n)
  BY <1>1, <1>2, <1>4, <1>7, Zenon DEF ViewInv
<1>13. ViewInv(x, n)'
  BY <1>8, <1>9, <1>12, ViewKept, Zenon DEF BooksKept
<1>14. GoesOn(node[n], node'[n], x)
  BY <1>7, <1>10, GoesOnSame, Zenon
<1> QED BY <1>1, <1>5, <1>7, <1>8, <1>9, <1>10, <1>11, <1>13, <1>14, KeepStep, Zenon

\* A pairing state that cleanup_pending_pairing_aborts_with goes on to.
LEMMA DiscardableFields ==
    ASSUME NEW n \in Devices, NEW s \in Sessions, ViewInv(s, n), NEW y \in Discardable(s)
    PROVE  /\ y \in Sessions /\ Carries(y, s) /\ ViewInv(y, n)
           /\ \/ y.join = s.join
              \/ /\ y.join = None /\ Released(s)
                 /\ Closed(y) = Closed(s) \cup {s.join.grant.op}
<1> QED
  BY DiscardedJoinFields, DiscardedInviteFields DEF Discardable, Released, Carries, ViewInv, Pends

\* finish_enrollment_abort_with.
LEMMA FinishAbortStep ==
    ASSUME JoinInvariant, NEW n \in Devices, FinishAbort(n)
    PROVE  JoinInvariant'
<1> SUFFICES ASSUME NEW s, s = sessions[n], NEW v, v = vault[n] PROVE JoinInvariant'
  BY Zenon
<1>1. s # None /\ uncertain' = uncertain \ {n} /\ UNCHANGED <<vars, issued, sent, gated>>
  BY Zenon DEF FinishAbort, MayKeep, Running
<1>2. PICK y \in Discardable(s) :
         \/ \E io \in Writes \ {"ok"} : Keep(n, s, io)
         \/ KeepTwice(n, s, y, "ok")
         \/ \E io \in Writes \ {"ok"} :
              /\ vault' = [vault EXCEPT ![n] = Saved(Saved(@, s, "ok"), y, io)]
              /\ ChargeWrite(io)
              /\ UNCHANGED sessions
  BY Zenon DEF FinishAbort
<1>3. /\ JoinTypeOK /\ s \in Sessions /\ v \in Vaults
      /\ GateInv(node[n], s, v, GatedOps(n)) /\ ReleaseInv(s, v, disk[n]) /\ ViewInv(s, n)
      /\ DeviceInv(node[n], disk[n])
  BY <1>1, DaemonFacts, Zenon DEF Seen
<1>4. /\ y \in Sessions /\ Carries(y, s) /\ ViewInv(y, n)
      /\ \/ y.join = s.join
         \/ /\ y.join = None /\ Released(s)
            /\ Closed(y) = Closed(s) \cup {s.join.grant.op}
  BY <1>3, DiscardableFields, Zenon
<1>5. ASSUME NEW io \in Writes, Keep(n, s, io) PROVE JoinInvariant'
  BY <1>1, <1>5, SaveAgainStep, Zenon
<1>6. ASSUME NEW io \in Writes, SavesTail(n, y, io) PROVE JoinInvariant'
  BY <1>1, <1>4, <1>6, TailStep, Zenon
<1>7. ASSUME KeepTwice(n, s, y, "ok") PROVE JoinInvariant'
  <2>1. TypeOK' /\ SafeStep
    BY <1>1, UnchangedSafe, Zenon
  <2>2. BooksKept
    BY <1>1, <2>1, BooksSame, Zenon
  <2>3. PairingFrame(n) /\ node' = node /\ disk' = disk
    BY <1>1, Zenon DEF PairingFrame, vars
  <2>4. ViewInv(s, n)' /\ ViewInv(y, n)'
    BY <1>3, <1>4, <2>1, <2>2, ViewKept, Zenon DEF BooksKept
  <2>5. "ok" \in Writes
    BY Zenon DEF Writes
  <2>6. CASE y.join = s.join
    <3>1. Extends(y, s) /\ Extends(s, s)
      BY <1>4, <2>6, ExtendsSelf, Zenon DEF Extends, Pends
    <3>2. ReleasedWell(s, disk[n]) /\ ReleasedWell(y, disk[n]) /\ (Released(s) => Released(y))
      BY <1>1, <1>3, <2>6, Zenon DEF ReleasedWell, ReleaseInv, Seen, Released
    <3>3. GoesOn(node[n], node[n], y)
      BY <2>6, GoesOnSame, Zenon
    <3> QED BY <1>1, <1>3, <1>4, <1>7, <2>1, <2>2, <2>3, <2>4, <2>5, <3>1, <3>2, <3>3, KeepTwiceStep, Zenon
  <2>7. CASE y.join = None /\ Released(s) /\ Closed(y) = Closed(s) \cup {s.join.grant.op}
    <3> DEFINE w == Saved(Saved(v, s, "ok"), y, "ok")
    <3>1. w \in Vaults /\ Held(w) = {y} /\ w.file = y
      BY <1>3, <1>4, SavedTwice
    <3>2. Stores(n, y, w)
      BY <1>7, Zenon DEF KeepTwice, Stores
    <3> HIDE DEF w
    <3>3. glitches' \in 0..MaxGlitches
      BY <1>3, <1>7, <2>5, WriteType, Zenon DEF KeepTwice
    <3>4. GatedOps(n) \subseteq Closed(y)
      BY <1>1, <1>3, <2>7, Zenon DEF GateInv, Seen, Pends, Released
    <3>5. GateShut(node[n], y)
      BY <1>1, <1>3, <2>7, Zenon DEF GateShut, GateInv, DeviceInv, Unstaged, Held, ReleaseInv, Seen
    <3> QED BY <1>4, <2>1, <2>2, <2>3, <2>4, <2>7, <3>1, <3>2, <3>3, <3>4, <3>5, ClosedStep, Zenon
  <2> QED BY <1>4, <2>6, <2>7, Zenon
<1> QED BY <1>2, <1>5, <1>6, <1>7, Zenon DEF SavesTail

-----------------------------------------------------------------------------
(* The activation gate.                                                    *)

\* set_pairing_activation_blocked(true) leaves everything but the gate.
LEMMA GatedFields ==
    ASSUME NEW nd \in Nodes
    PROVE  /\ Gated(nd) \in Nodes /\ Gated(nd).blocked
           /\ Gated(nd).forwarder = [snap |-> nd.current, sync |-> "ResyncRequired"]
           /\ Gated(nd).current = nd.current /\ Gated(nd).sync = nd.sync
           /\ Gated(nd).floor = nd.floor /\ Gated(nd).pending = nd.pending
<1> QED BY Zenon DEF Gated, Nodes, Projections

\* set_pairing_activation_blocked(false) leaves everything but the gate.
LEMMA UngatedFields ==
    ASSUME NEW nd \in Nodes
    PROVE  /\ Ungated(nd) \in Nodes /\ ~Ungated(nd).blocked
           /\ Ungated(nd).forwarder = [snap |-> nd.current, sync |-> nd.sync]
           /\ Ungated(nd).current = nd.current /\ Ungated(nd).sync = nd.sync
           /\ Ungated(nd).floor = nd.floor /\ Ungated(nd).pending = nd.pending
<1> QED BY Zenon DEF Ungated, Nodes, Projections

\* The device invariant does not depend on the gate.
LEMMA GateDevice ==
    ASSUME NEW nd \in Nodes, NEW d, DeviceInv(nd, d)
    PROVE  DeviceInv(Gated(nd), d) /\ DeviceInv(Ungated(nd), d)
<1>2. ASSUME NEW x, NEW sync \in {"ResyncRequired", nd.sync},
             x.current = nd.current, x.sync = nd.sync, x.floor = nd.floor,
             x.pending = nd.pending, x.forwarder = [snap |-> nd.current, sync |-> sync]
      PROVE  DeviceInv(x, d)
  BY <1>2, DownAssumption DEF DeviceInv
<1> QED BY <1>2, GatedFields, UngatedFields, Zenon

\* A step that only sets the runtime of one device, without a new offer.
LEMMA QuietNode ==
    ASSUME JoinInvariant, NEW n \in Devices, NEW nd \in Nodes \cup {None}, Set(n, nd),
           UNCHANGED <<book, disk, wire, acks, late, faults>>, DeviceInv(nd, disk[n]),
           nd # None /\ nd.pending # None =>
             (Up(n) /\ nd.pending = node[n].pending) \/ nd.pending.inbox = {}
    PROVE  TypeOK' /\ SafeStep /\ node'[n] = nd
           /\ \A m \in Devices \ {n} : node'[m] = node[m] /\ disk'[m] = disk[m]
<1>1. DurabilityInvariant /\ TypeOK
  BY Zenon DEF JoinInvariant, DurabilityInvariant
<1>2. /\ node' \in [Devices -> Nodes \cup {None}] /\ node'[n] = nd
      /\ \A m \in Devices \ {n} : node'[m] = node[m]
  BY <1>1, SetType, Zenon
<1>3. TypeOK'
  BY <1>1, <1>2, Zenon DEF TypeOK
<1>4. SafeStep
  BY <1>1, QuietStep, Zenon
<1> QED BY <1>2, <1>3, <1>4, Zenon

\* finalize_joiner: what completes the join is authority the device cannot lose.
LEMMA CompletedView ==
    ASSUME JoinInvariant, NEW n \in Devices, Up(n),
           NEW s \in Sessions, s.join # None, ViewInv(s, n), Completable(n, s.join)
    PROVE  ViewInv(Completed(s), n)
<1> DEFINE h == s.join.grant
<1>1. TypeOK /\ RoundsCanFinish /\ ConfirmedOutsideGate
  BY Zenon DEF JoinInvariant, DurabilityInvariant
<1>3. h \in issued /\ h.snap \in Snapshots /\ node[n].current \in Snapshots
  BY <1>1, NodeFields, Zenon DEF ViewInv, JoinInvariant, JoinTypeOK, Grants
<1>4. Above(n, h.snap)
  <2> SUFFICES ASSUME NEW c \in Copies(n) PROVE c # None /\ AtLeast(Rank(c.snap), Rank(h.snap))
    BY Zenon DEF Above
  <2>1. c # None /\ AtLeast(Rank(c.snap), Rank(node[n].current))
    BY <1>1, ConfirmedIsAbove, Zenon DEF Above, Completable
  <2>2. c.snap \in Snapshots
    BY <1>1, <2>1, Zenon DEF TypeOK, Copies, Disks, Contents
  <2>3. AtLeast(Rank(node[n].current), Rank(h.snap))
    BY Zenon DEF Completable, Minimum
  <2>4. Rank(c.snap) \in Ranks /\ Rank(node[n].current) \in Ranks /\ Rank(h.snap) \in Ranks
    BY <1>3, <2>2, RankType, Zenon
  <2> QED BY <2>1, <2>3, <2>4, RankOrder
<1>5. ASSUME NEW g \in issued, g.op \in s.applied \cup {h.op} PROVE Above(n, g.snap)
  <2>1. g.op = h.op => g = h
    BY <1>3, Zenon DEF JoinInvariant, IssuedInv
  <2> QED BY <1>4, <1>5, <2>1, Zenon DEF ViewInv
<1> QED BY <1>3, <1>5, CompletedFields, Zenon DEF ViewInv

\* The rest of finalize_joiner.
LEMMA CompleteJoinStep ==
    ASSUME JoinInvariant, NEW n \in Devices, Up(n), NEW s, s = sessions[n], s.join # None,
           CompleteJoin(n, s),
           UNCHANGED <<book, disk, wire, acks, late, faults, issued, sent, gated>>
    PROVE  JoinInvariant'
<1> DEFINE v == vault[n]
           y == Completed(s)
<1>1. /\ TypeOK /\ JoinTypeOK /\ v \in Vaults /\ s \in Sessions /\ s # None
      /\ GateInv(node[n], s, v, GatedOps(n)) /\ ViewInv(s, n) /\ DeviceInv(node[n], disk[n])
  BY DaemonFacts, Zenon DEF Seen
<1>2. /\ y \in Sessions /\ y.join = None /\ y.applied = s.applied \cup {s.join.grant.op}
      /\ Closed(y) = Closed(s) \cup {s.join.grant.op}
  BY <1>1, CompletedFields, Zenon
<1>3. ViewInv(y, n)
  BY <1>1, CompletedView, Zenon DEF CompleteJoin
<1> HIDE DEF y
<1>4. ASSUME NEW io \in Writes, NEW x \in {s, Aborted(s)}, Keep(n, x, io),
             uncertain' = uncertain \ {n}, UNCHANGED node
      PROVE  JoinInvariant'
  <2>1. UNCHANGED <<vars, issued, sent, gated>>
    BY <1>4, Zenon DEF vars
  <2>2. x = sessions[n] \/ x = Aborted(sessions[n])
    BY <1>4, Zenon
  <2> QED BY <1>1, <1>4, <2>1, <2>2, SaveAgainStep, Zenon
<1>5. ASSUME KeepTwice(n, s, y, "ok"), uncertain' = uncertain \ {n}, Set(n, Ungated(node[n]))
      PROVE  JoinInvariant'
  <2> DEFINE w == Saved(Saved(v, s, "ok"), y, "ok")
             nd == Ungated(node[n])
  <2>2. /\ nd \in Nodes /\ ~nd.blocked /\ nd.pending = node[n].pending
        /\ DeviceInv(nd, disk[n])
    BY <1>1, UngatedFields, GateDevice, NodeFields, Zenon
  <2> HIDE DEF nd
  <2>3. TypeOK' /\ SafeStep /\ node'[n] = nd
        /\ \A m \in Devices \ {n} : node'[m] = node[m] /\ disk'[m] = disk[m]
    BY <1>5, <2>2, QuietNode, Zenon DEF nd
  <2>4. BooksKept
    BY <2>3, BooksSame, Zenon
  <2>5. PairingFrame(n)
    BY <1>5, <2>3, Zenon DEF PairingFrame
  <2>6. w \in Vaults /\ Held(w) = {y} /\ w.file = y
    BY <1>1, <1>2, SavedTwice
  <2>7. Stores(n, y, w)
    BY <1>5, Zenon DEF KeepTwice, Stores
  <2>8. glitches' \in 0..MaxGlitches
    <3>1. "ok" \in Writes
      BY Zenon DEF Writes
    <3> QED BY <1>1, <1>5, <3>1, WriteType, Zenon DEF KeepTwice
  <2>9. GatedOps(n) \subseteq Closed(y)
    BY <1>1, <1>2, Zenon DEF GateInv, Seen, Pends
  <2>10. GateShut(node'[n], y)
    BY <2>2, <2>3, Zenon DEF GateShut
  <2>11. ViewInv(y, n)'
    <3>1. PICK z : z = y
      BY Zenon
    <3>2. ViewInv(z, n)'
      BY <1>3, <2>3, <2>4, <3>1, ViewKept, Zenon DEF BooksKept
    <3> QED BY <3>1, <3>2, Zenon DEF y
  <2> HIDE DEF w
  <2> QED BY <1>2, <2>3, <2>4, <2>5, <2>6, <2>7, <2>8, <2>9, <2>10, <2>11, ClosedStep, Zenon
<1>6. ASSUME NEW io \in Writes, SavesTail(n, y, io), UNCHANGED node,
             uncertain' \in {uncertain \ {n}, uncertain \cup {n}}
      PROVE  JoinInvariant'
  <2>1. UNCHANGED <<vars, issued, sent, gated>>
    BY <1>6, Zenon DEF vars
  <2>2. Carries(y, s) /\ y.join \in {None, s.join}
    BY <1>2, Zenon DEF Carries
  <2>3. y = Completed(sessions[n])
    BY Zenon DEF y
  <2> QED BY <1>1, <1>2, <1>3, <1>6, <2>1, <2>2, <2>3, TailStep, Zenon
<1>8. CASE ~Superseded(n, s.join.grant)
  <2>2. [sessions EXCEPT ![n] = s] = sessions
    BY <1>1, Zenon DEF JoinTypeOK
  <2>3. ASSUME NEW io \in Writes, NEW unread \in BOOLEAN,
               sessions' = [sessions EXCEPT ![n] = s],
               vault' = [vault EXCEPT ![n] = Saved(Saved(@, s, "ok"), y, io)],
               ChargeWrite(io),
               uncertain' = IF io = "failed" /\ ~unread THEN uncertain \ {n}
                            ELSE uncertain \cup {n},
               UNCHANGED node
        PROVE  JoinInvariant'
    <3>1. SavesTail(n, y, io)
      BY <2>2, <2>3, Zenon DEF SavesTail
    <3> QED BY <1>6, <2>3, <3>1, Zenon
  <2> QED BY <1>4, <1>5, <1>8, <2>3, Zenon DEF CompleteJoin, y
<1> QED BY <1>4, <1>8, Zenon DEF CompleteJoin

\* finalize_joiner on the checkpoint tick.
LEMMA FinalizeJoinerStep ==
    ASSUME JoinInvariant, NEW n \in Devices, FinalizeJoiner(n)
    PROVE  JoinInvariant'
BY CompleteJoinStep, Zenon DEF FinalizeJoiner

\* release_idle_barrier: there is no staged enrollment, so the gate opens.
LEMMA ReleaseBarrierStep ==
    ASSUME JoinInvariant, NEW n \in Devices, ReleaseBarrier(n)
    PROVE  JoinInvariant'
<1> DEFINE s == sessions[n]
           v == vault[n]
           nd == Ungated(node[n])
<1>1. /\ TypeOK /\ JoinTypeOK /\ v \in Vaults /\ s \in Sessions /\ s # None
      /\ GateInv(node[n], s, v, GatedOps(n)) /\ ReleaseInv(s, v, disk[n])
      /\ n \in uncertain => UncertainInv(s, v)
      /\ DeviceInv(node[n], disk[n]) /\ \A x \in Seen(s, v) : ViewInv(x, n)
  BY DaemonFacts, Zenon DEF ReleaseBarrier
<1>2. /\ Up(n) /\ s.join = None
      /\ UNCHANGED <<book, disk, wire, acks, late, faults, vault, issued, sent, gated, glitches>>
  BY Zenon DEF ReleaseBarrier
<1>4. Set(n, nd) /\ UNCHANGED <<sessions, uncertain>>
  BY <1>1, <1>2, Zenon DEF ReleaseBarrier, GateInv, Up
<1>6. /\ nd \in Nodes /\ ~nd.blocked /\ nd.pending = node[n].pending
      /\ DeviceInv(nd, disk[n])
  BY <1>1, <1>2, UngatedFields, GateDevice, NodeFields, Zenon
<1>7. TypeOK' /\ SafeStep /\ node'[n] = nd
      /\ \A m \in Devices \ {n} : node'[m] = node[m] /\ disk'[m] = disk[m]
  BY <1>2, <1>4, <1>6, QuietNode, Zenon
<1> HIDE DEF nd
<1>8. BooksKept
  BY <1>2, <1>7, BooksSame, Zenon
<1>9. OthersKept(n) /\ GatedOps(n)' = GatedOps(n) /\ JoinTypeOK'
  BY <1>1, <1>2, <1>4, <1>7, Zenon DEF OthersKept, GatedOps, JoinTypeOK
<1>10. \A x \in Seen(s, v), op \in GatedOps(n) : op \in Closed(x)
  BY <1>1, <1>2, Zenon DEF GateInv, Pends, Up
<1>11. GateInv(nd, s, v, GatedOps(n))
  BY <1>1, <1>6, <1>10, GateClosed, Zenon DEF GateShut
<1>12. PairInv(node'[n], sessions'[n], vault'[n], disk'[n], GatedOps(n)', n \in uncertain')
  BY <1>1, <1>2, <1>4, <1>7, <1>9, <1>11, Zenon DEF PairInv
<1>13. \A x \in Seen(sessions'[n], vault'[n]) : ViewInv(x, n)'
  BY <1>1, <1>2, <1>4, <1>7, <1>8, ViewKept, Zenon DEF BooksKept
<1> QED BY <1>7, <1>8, <1>9, <1>12, <1>13, PairingStep, Zenon DEF BooksKept

\* The visible pairing file of device n is written once more.
Resaves(n, io) ==
    /\ vault' = [vault EXCEPT ![n] = Saved(@, vault[n].file, io)]
    /\ ChargeWrite(io)

\* reconcile_checkpoint_completion_with: the visible file is saved before it is believed.
LEMMA ReconcileSaveStep ==
    ASSUME JoinInvariant, NEW n \in Devices, n \in uncertain, NEW io \in Writes,
           Resaves(n, io), UNCHANGED <<vars, sessions, uncertain, issued, sent, gated>>
    PROVE  JoinInvariant'
<1> DEFINE s == sessions[n]
           v == vault[n]
           w == Saved(v, v.file, io)
<1>1. /\ TypeOK /\ JoinTypeOK /\ v \in Vaults /\ v.file \in Sessions /\ v.file \in Held(v)
      /\ GateInv(node[n], s, v, GatedOps(n)) /\ ReleaseInv(s, v, disk[n])
      /\ UncertainInv(s, v) /\ \A x \in Seen(s, v) : ViewInv(x, n)
  BY DaemonFacts, Zenon
<1>2. w \in Vaults /\ Held(w) \subseteq Held(v) /\ w.file = v.file
  BY <1>1, SavedVault
<1>3. /\ sessions' = sessions /\ vault' \in [Devices -> Vaults] /\ vault'[n] = w
      /\ \A m \in Devices \ {n} : vault'[m] = vault[m]
  BY <1>1, <1>2, Zenon DEF JoinTypeOK, Resaves
<1> HIDE DEF w
<1>4. Seen(s, w) \subseteq Seen(s, v)
  BY <1>2, Zenon DEF Seen
<1>5. GateInv(node[n], s, w, GatedOps(n)) /\ ReleaseInv(s, w, disk[n]) /\ UncertainInv(s, w)
  BY <1>1, <1>2, <1>4, Zenon DEF GateInv, ReleaseInv, UncertainInv
<1>6. TypeOK' /\ SafeStep
  BY UnchangedSafe, Zenon
<1>7. BooksKept
  BY <1>6, BooksSame, Zenon
<1>8. \A x \in Seen(sessions'[n], vault'[n]) : ViewInv(x, n)'
  BY <1>1, <1>3, <1>4, <1>6, <1>7, ViewKept, Zenon DEF BooksKept
<1>9. OthersKept(n) /\ GatedOps(n)' = GatedOps(n)
  BY <1>3, Zenon DEF OthersKept, GatedOps, vars
<1>10. JoinTypeOK'
  BY <1>1, <1>3, WriteType, Zenon DEF JoinTypeOK, Resaves
<1>11. PairInv(node'[n], sessions'[n], vault'[n], disk'[n], GatedOps(n)', n \in uncertain')
  BY <1>3, <1>5, <1>9, Zenon DEF PairInv, vars
<1> QED BY <1>6, <1>7, <1>8, <1>9, <1>10, <1>11, PairingStep, Zenon DEF BooksKept

\* reconcile_checkpoint_completion_with.
LEMMA ReconcileCompletionStep ==
    ASSUME JoinInvariant, NEW n \in Devices, ReconcileCompletion(n)
    PROVE  JoinInvariant'
<1> SUFFICES ASSUME NEW s, s = sessions[n], NEW y, y = vault[n].file PROVE JoinInvariant'
  BY Zenon
<1>1. /\ Up(n) /\ n \in uncertain
      /\ UNCHANGED <<book, disk, wire, acks, late, faults, issued, sent, gated>>
  BY Zenon DEF ReconcileCompletion
<1>2. /\ TypeOK /\ JoinTypeOK /\ vault[n] \in Vaults /\ s \in Sessions /\ s # None
      /\ y \in Sessions /\ y \in Held(vault[n])
      /\ GateInv(node[n], s, vault[n], GatedOps(n)) /\ UncertainInv(s, vault[n])
      /\ DeviceInv(node[n], disk[n]) /\ \A x \in Seen(s, vault[n]) : ViewInv(x, n)
  BY <1>1, DaemonFacts, Zenon
<1>3. y \in {s, Completed(s)} /\ s.join # None
  BY <1>2, Zenon DEF UncertainInv
<1>4. Completed(s).join = None /\ Closed(Completed(s)) = Closed(s) \cup {s.join.grant.op}
  BY <1>2, <1>3, CompletedFields, Zenon
<1>5. "ok" \in Writes
  BY Zenon DEF Writes
<1>6. ASSUME NEW io \in Writes, vault' = [vault EXCEPT ![n] = Saved(@, y, io)], ChargeWrite(io),
             UNCHANGED <<sessions, uncertain, node>>
      PROVE  JoinInvariant'
  <2>2. Resaves(n, io)
    BY <1>6, Zenon DEF Resaves
  <2> QED BY <1>1, <1>6, <2>2, ReconcileSaveStep, Zenon DEF vars
<1>7. ASSUME y.join = None, Keep(n, y, "ok"), uncertain' = uncertain \ {n},
             Set(n, Ungated(node[n]))
      PROVE  JoinInvariant'
  <2> DEFINE w == Saved(vault[n], y, "ok")
             nd == Ungated(node[n])
  <2>1. node[n] \in Nodes
    BY <1>1, <1>2, NodeFields, Zenon
  <2>2. nd \in Nodes /\ ~nd.blocked /\ nd.pending = node[n].pending
    BY <2>1, UngatedFields, Zenon
  <2>3. DeviceInv(nd, disk[n])
    BY <1>2, <2>1, GateDevice, Zenon
  <2>4. Set(n, nd)
    BY <1>7, Zenon
  <2> HIDE DEF nd
  <2>5. TypeOK' /\ SafeStep /\ node'[n] = nd
        /\ \A m \in Devices \ {n} : node'[m] = node[m] /\ disk'[m] = disk[m]
    BY <1>1, <2>2, <2>3, <2>4, QuietNode, Zenon
  <2>6. BooksKept
    BY <1>1, <2>5, BooksSame, Zenon
  <2>7. PairingFrame(n)
    BY <1>1, <1>7, <2>5, Zenon DEF PairingFrame
  <2>8. w \in Vaults /\ Held(w) = {y} /\ w.file = y
    BY <1>2, SavedVault
  <2>9. Stores(n, y, w)
    BY <1>7, Zenon DEF Keep, Stores
  <2>10. glitches' \in 0..MaxGlitches
    BY <1>2, <1>5, <1>7, WriteType, Zenon DEF Keep
  <2>11. GatedOps(n) \subseteq Closed(y)
    BY <1>2, <1>3, <1>4, <1>7, Zenon DEF GateInv, Seen, Pends
  <2>12. GateShut(node'[n], y)
    BY <2>2, <2>5, Zenon DEF GateShut
  <2>13. ViewInv(y, n)'
    BY <1>2, <2>5, <2>6, ViewKept, Zenon DEF BooksKept, Seen
  <2> HIDE DEF w
  <2> QED BY <1>2, <1>7, <2>5, <2>6, <2>7, <2>8, <2>9, <2>10, <2>11, <2>12, <2>13, ClosedStep, Zenon
<1>8. ASSUME y.join # None,
             \/ Completable(n, y.join) /\ CompleteJoin(n, y)
             \/ Keep(n, y, "ok") /\ uncertain' = uncertain \ {n} /\ UNCHANGED node
      PROVE  JoinInvariant'
  <2>1. y = s
    BY <1>3, <1>4, <1>8, Zenon
  <2>2. CASE CompleteJoin(n, y)
    BY <1>1, <1>3, <2>1, <2>2, CompleteJoinStep, Zenon
  <2>3. CASE Keep(n, y, "ok") /\ uncertain' = uncertain \ {n} /\ UNCHANGED node
    <3>1. UNCHANGED <<vars, issued, sent, gated>>
      BY <1>1, <2>3, Zenon DEF vars
    <3> QED BY <1>2, <1>5, <2>1, <2>3, <3>1, SaveAgainStep, Zenon
  <2> QED BY <1>8, <2>2, <2>3, Zenon
<1> QED BY <1>6, <1>7, <1>8, Zenon DEF ReconcileCompletion

-----------------------------------------------------------------------------
(* What the membership runtime does to the gate.                           *)

\* The runtime y goes on from x: the gate, the gated forwarder and the absence of
\* a floor are kept.
NodeKeeps(x, y) ==
    y # None =>
      /\ x # None
      /\ y.blocked = x.blocked
      /\ x.blocked /\ x.forwarder.sync = "ResyncRequired" => y.forwarder.sync = "ResyncRequired"
      /\ x.floor = None => y.floor = None

\* Every device keeps its gate, and no file gets an enrollment floor.
KeepsGates ==
    \A m \in Devices :
      /\ NodeKeeps(node[m], node'[m])
      /\ Unstaged(disk[m]) => Unstaged(disk'[m])

\* A runtime keeps its gate when it is left alone.
LEMMA KeepsSelf ==
    ASSUME NEW x
    PROVE  NodeKeeps(x, x) /\ NodeKeeps(x, None)
BY Zenon DEF NodeKeeps

\* persist_then_install keeps the gate.
LEMMA PersistedKeeps ==
    ASSUME NEW n, NEW x \in Nodes, NEW s \in Snapshots, NEW io
    PROVE  NodeKeeps(x, Persisted(n, x, s, io)) /\ NodeKeeps(x, Installed(n, x, s))
<1>1. x # None
  BY DownAssumption, Zenon
<1>2. NodeKeeps(x, Installed(n, x, s))
  <2> DEFINE y == Installed(n, x, s)
  <2> HIDE DEF y
  <2> QED BY <1>1, Zenon DEF NodeKeeps, Projection, y, Installed, Nodes
<1>3. NodeKeeps(x, InstalledGated(x, s))
  <2> DEFINE y == InstalledGated(x, s)
  <2> HIDE DEF y
  <2> QED BY <1>1, Zenon DEF NodeKeeps, y, InstalledGated, Nodes
<1> QED BY <1>2, <1>3, KeepsSelf, Zenon DEF Persisted

\* A change of other fields keeps the gate.
LEMMA FieldsKeep ==
    ASSUME NEW x, NEW y, NEW z, NodeKeeps(x, y), y # None,
           z.blocked = y.blocked, z.forwarder = y.forwarder, z.floor = y.floor
    PROVE  NodeKeeps(x, z)
BY Zenon DEF NodeKeeps

\* A save without a floor leaves no file staged that was not.
LEMMA SaveUnstaged ==
    ASSUME TypeOK, NEW n \in Devices, NEW s \in Snapshots, NEW io, SaveTo(n, Plain(s), io),
           NEW m \in Devices, Unstaged(disk[m])
    PROVE  Unstaged(disk'[m])
<1>1. disk' = [disk EXCEPT ![n] = Saved(disk[n], Plain(s), io)]
  BY Zenon DEF SaveTo
<1>2. Plain(s) # None /\ Plain(s).floor = None
  BY RuntimeAssumption DEF Plain
<1>3. CASE m # n
  <2>1. disk'[m] = disk[m]
    BY <1>1, <1>3, Zenon DEF TypeOK
  <2> QED BY <2>1, Zenon
<1>4. CASE m = n
  <2>1. disk'[n] = Saved(disk[n], Plain(s), io)
    BY <1>1, Zenon DEF TypeOK
  <2>2. Held(disk'[n]) \subseteq Held(disk[n]) \cup {Plain(s)}
    <3>1. CASE io = "failed"
      BY <2>1, <3>1, Zenon DEF Saved
    <3>2. CASE io # "failed"
      <4>1. disk'[n] = [file |-> Plain(s),
                        shadow |-> IF io = "ok" THEN {} ELSE disk[n].shadow \cup {disk[n].file}]
        BY <2>1, <3>2, Zenon DEF Saved
      <4> QED BY <4>1 DEF Held
    <3> QED BY <3>1, <3>2, Zenon
  <2> QED BY <1>2, <1>4, <2>2, Zenon DEF Unstaged
<1> QED BY <1>3, <1>4, Zenon

\* A step of the runtime that sets device n.
LEMMA SetKeeps ==
    ASSUME TypeOK, NEW n \in Devices, NEW x, Set(n, x),
           NodeKeeps(node[n], x), UNCHANGED disk
    PROVE  KeepsGates
<1> QED BY KeepsSelf, Zenon DEF KeepsGates, TypeOK, Set

\* A step of the runtime that saves and sets device n.
LEMMA SaveKeeps ==
    ASSUME TypeOK, NEW n \in Devices, NEW x, Set(n, x), NodeKeeps(node[n], x),
           NEW s \in Snapshots, NEW io, SaveTo(n, Plain(s), io)
    PROVE  KeepsGates
<1>2. \A m \in Devices : NodeKeeps(node[m], node'[m])
  BY KeepsSelf, Zenon DEF TypeOK, Set
<1>3. \A m \in Devices : Unstaged(disk[m]) => Unstaged(disk'[m])
  BY SaveUnstaged, Zenon
<1> QED BY <1>2, <1>3, Zenon DEF KeepsGates

\* apply_change_with_handoff keeps the gate of the runtime it starts from.
LEMMA HandedOffKeeps ==
    ASSUME TypeOK, NEW n \in Devices, NEW nd \in Nodes, NEW change, NEW s \in Snapshots,
           NEW io, HandedOff(n, nd, change, s, io)
    PROVE  /\ SaveTo(n, Plain(s), io)
           /\ node'[n] # None /\ NodeKeeps(nd, node'[n])
           /\ \A m \in Devices \ {n} : node'[m] = node[m]
<1> DEFINE recipients == {p \in Devices \ {n} : ActiveIn(nd.current, p, late)}
           h == IF recipients = {} THEN None ELSE s
           x == Persisted(n, nd, s, io)
           y == [x EXCEPT !.handoff = h]
<1>1. /\ SaveTo(n, Plain(s), io)
      /\ IF io = "ok" THEN Set(n, y) ELSE Set(n, x)
  BY Zenon DEF HandedOff
<1>2. h \in Snapshots \cup {None}
  BY Zenon
<1> HIDE DEF h
<1>3. x \in Nodes /\ NodeKeeps(nd, x)
  BY PersistedType, PersistedKeeps, Zenon
<1> HIDE DEF x
<1>4. /\ y \in Nodes /\ y.blocked = x.blocked /\ y.forwarder = x.forwarder
      /\ y.floor = x.floor
  BY <1>2, <1>3, Zenon DEF Nodes
<1>5. y # None /\ x # None
  BY <1>3, <1>4, DownAssumption, Zenon
<1> HIDE DEF y
<1>6. NodeKeeps(nd, y)
  BY <1>3, <1>4, <1>5, FieldsKeep, Zenon
<1>7. /\ node'[n] \in {x, y} /\ \A m \in Devices \ {n} : node'[m] = node[m]
  BY <1>1, <1>3, <1>4, SetType, Zenon
<1> QED BY <1>1, <1>3, <1>5, <1>6, <1>7, Zenon

\* The steps of the membership runtime that the joining daemon takes.
RuntimeStep ==
    \/ Resync
    \/ \E n, d \in Devices : Revoke(n, d)
    \/ \E n \in Devices : PruneExpired(n) \/ FinishHandoff(n)
    \/ \E m \in wire : ReceiveMutation(m) \/ ConfirmMutation(m)
    \/ ExpiryPasses

\* Each of them keeps the gates.
LEMMA RuntimeKeeps ==
    ASSUME TypeOK, RuntimeStep
    PROVE  KeepsGates
<1>1. ASSUME NEW n \in Devices, Up(n), NEW x, Set(n, x), UNCHANGED disk,
             x.blocked = node[n].blocked, x.forwarder = node[n].forwarder,
             x.floor = node[n].floor
      PROVE  KeepsGates
  BY <1>1, SetKeeps, Zenon DEF NodeKeeps, Up
<1>2. ASSUME NEW n \in Devices, BeginResync(n) PROVE KeepsGates
  <2> DEFINE x == [node[n] EXCEPT !.pending = NewRound(node[n].current)]
  <2>1. Up(n) /\ Set(n, x) /\ UNCHANGED disk /\ node[n] \in Nodes
    BY <1>2, NodeFields, Zenon DEF BeginResync
  <2>2. /\ x.blocked = node[n].blocked /\ x.forwarder = node[n].forwarder
        /\ x.floor = node[n].floor
    BY <2>1, Zenon DEF Nodes
  <2> HIDE DEF x
  <2> QED BY <1>1, <2>1, <2>2, Zenon
<1>3. ASSUME NEW n \in Devices, NEW p \in Devices, AskOffer(n, p) PROVE KeepsGates
  <2> DEFINE o == [publisher |-> p, snap |-> node[p].current]
             x == [node[n] EXCEPT !.pending.attempted = @ \cup {p},
                                  !.pending.inbox = @ \cup {o}]
  <2>1. Up(n) /\ Set(n, x) /\ UNCHANGED disk /\ node[n] \in Nodes
    BY <1>3, NodeFields, Zenon DEF AskOffer
  <2>2. /\ x.blocked = node[n].blocked /\ x.forwarder = node[n].forwarder
        /\ x.floor = node[n].floor
    BY <2>1, Zenon DEF Nodes
  <2> HIDE DEF x
  <2> QED BY <1>1, <2>1, <2>2, Zenon
<1>4. ASSUME NEW n \in Devices, NEW o \in node[n].pending.inbox, CollectOffer(n, o)
      PROVE  KeepsGates
  <2> DEFINE r == node[n].pending
             taken == AtLeast(Rank(o.snap), Rank(r.base))
             round == [r EXCEPT !.inbox = @ \ {o},
                                !.best = IF taken THEN Higher(o.snap, @) ELSE @,
                                !.observed = @ \/ taken]
             x == [node[n] EXCEPT !.pending = round]
  <2>1. Set(n, x)
    BY <1>4, Zenon DEF CollectOffer
  <2> HIDE DEF round
  <2>2. Up(n) /\ UNCHANGED disk /\ node[n] \in Nodes
    BY <1>4, NodeFields, Zenon DEF CollectOffer
  <2>3. /\ x.blocked = node[n].blocked /\ x.forwarder = node[n].forwarder
        /\ x.floor = node[n].floor
    BY <2>2, Zenon DEF Nodes
  <2> HIDE DEF x
  <2> QED BY <1>1, <2>1, <2>2, <2>3, Zenon
<1>5. ASSUME NEW n \in Devices, FinishDue(n) PROVE KeepsGates
  <2> DEFINE nd == node[n]
             s == nd.pending.best
  <2>1. nd \in Nodes /\ s \in Snapshots /\ Up(n)
    BY <1>5, NodeFields, Zenon DEF FinishDue
  <2>2. ASSUME Set(n, [nd EXCEPT !.pending = None]), UNCHANGED disk PROVE KeepsGates
    <3> DEFINE x == [nd EXCEPT !.pending = None]
    <3> HIDE DEF x
    <3> QED BY <1>1, <2>1, <2>2, Zenon DEF Nodes
  <2>3. ASSUME NEW io, SaveTo(n, Plain(s), io),
               Set(n, IF io = "ok"
                      THEN [Installed(n, nd, s) EXCEPT
                              !.pending = None, !.ready = nd.pending.observed]
                      ELSE None)
        PROVE  KeepsGates
    <3> DEFINE x == Installed(n, nd, s)
               y == [x EXCEPT !.pending = None, !.ready = nd.pending.observed]
    <3>1. x \in Nodes
      BY <2>1, InstalledType, Zenon
    <3>2. NodeKeeps(nd, x)
      BY <2>1, PersistedKeeps, Zenon
    <3>3. Set(n, IF io = "ok" THEN y ELSE None)
      BY <2>3, Zenon
    <3> HIDE DEF x
    <3>4. y.blocked = x.blocked /\ y.forwarder = x.forwarder /\ y.floor = x.floor
      BY <3>1, Zenon DEF Nodes
    <3> HIDE DEF y
    <3>5. x # None
      BY <3>1, DownAssumption, Zenon
    <3>6. NodeKeeps(nd, y) /\ NodeKeeps(nd, None)
      BY <3>2, <3>4, <3>5, FieldsKeep, KeepsSelf, Zenon
    <3> QED BY <2>1, <2>3, <3>3, <3>6, SaveKeeps, Zenon
  <2> QED BY <1>5, <2>2, <2>3, Zenon DEF FinishDue
<1>6. ASSUME NEW n \in Devices, NEW d \in Devices, Revoke(n, d) PROVE KeepsGates
  <2> DEFINE change == [op |-> "RemoveMember", subject |-> d]
  <2>1. node[n] \in Nodes /\ node[n].current \in Snapshots
    BY <1>6, NodeFields, Zenon DEF Revoke
  <2>3. PICK s \in ChangedSnapshots(book, node[n].current, change, late) :
          \E io \in Outcomes(n, Plain(s)) : HandedOff(n, node[n], change, s, io)
    BY <1>6, Zenon DEF Revoke, ApplyWithHandoff
  <2>4. s \in Snapshots
    BY <2>1, ChangedSnapshotsType, Zenon DEF TypeOK, Changes
  <2>5. PICK io : HandedOff(n, node[n], change, s, io)
    BY <2>3, Zenon
  <2>6. /\ SaveTo(n, Plain(s), io) /\ NodeKeeps(node[n], node'[n])
        /\ \A m \in Devices \ {n} : node'[m] = node[m]
    BY <2>1, <2>4, <2>5, HandedOffKeeps, Zenon
  <2>7. \A m \in Devices : Unstaged(disk[m]) => Unstaged(disk'[m])
    BY <2>4, <2>6, SaveUnstaged, Zenon
  <2> QED BY <2>6, <2>7, KeepsSelf, Zenon DEF KeepsGates
<1>7. ASSUME NEW n \in Devices, PruneExpired(n) PROVE KeepsGates
  <2> DEFINE change == [op |-> "PruneExpired"]
  <2>1. node[n] \in Nodes /\ node[n].current \in Snapshots
    BY <1>7, NodeFields, Zenon DEF PruneExpired
  <2>2. change \in Changes
    BY Zenon DEF Changes
  <2>0. PICK s \in ChangedSnapshots(book, node[n].current, change, late) :
          \E io \in Outcomes(n, Plain(s)) :
            /\ SaveTo(n, Plain(s), io)
            /\ Set(n, IF io = "ok" THEN Installed(n, node[n], s) ELSE None)
    BY <1>7, Zenon DEF PruneExpired
  <2>3. PICK io \in Outcomes(n, Plain(s)) :
          /\ SaveTo(n, Plain(s), io)
          /\ Set(n, IF io = "ok" THEN Installed(n, node[n], s) ELSE None)
    BY <2>0, Zenon
  <2>4. s \in Snapshots
    BY <2>1, <2>2, ChangedSnapshotsType, Zenon DEF TypeOK
  <2> QED BY <2>1, <2>3, <2>4, SaveKeeps, PersistedKeeps, KeepsSelf, Zenon
<1>8. ASSUME NEW n \in Devices, FinishHandoff(n) PROVE KeepsGates
  <2> DEFINE x == [node[n] EXCEPT !.handoff = None]
  <2>1. Up(n) /\ Set(n, x) /\ UNCHANGED disk /\ node[n] \in Nodes
    BY <1>8, NodeFields, Zenon DEF FinishHandoff
  <2>2. /\ x.blocked = node[n].blocked /\ x.forwarder = node[n].forwarder
        /\ x.floor = node[n].floor
    BY <2>1, Zenon DEF Nodes
  <2> HIDE DEF x
  <2> QED BY <1>1, <2>1, <2>2, Zenon
<1>9. ASSUME NEW m \in wire, ReceiveMutation(m) PROVE KeepsGates
  <2> DEFINE p == m.to
             nd == node[p]
  <2>1. p \in Devices /\ m.change \in Changes
    BY <1>9, Zenon DEF TypeOK, Commands
  <2>2. nd \in Nodes /\ nd.current \in Snapshots
    BY <1>9, <2>1, NodeFields, Zenon DEF ReceiveMutation
  <2>0. PICK s \in ChangedSnapshots(book, nd.current, m.change, late) :
          \E io \in Outcomes(p, Plain(s)) :
            /\ SaveTo(p, Plain(s), io)
            /\ Set(p, IF io = "ok"
                      THEN [Installed(p, nd, s) EXCEPT !.pending = Rebased(nd.pending, s)]
                      ELSE Persisted(p, nd, s, io))
    BY <1>9, Zenon DEF ReceiveMutation
  <2>3. PICK io \in Outcomes(p, Plain(s)) :
          /\ SaveTo(p, Plain(s), io)
          /\ Set(p, IF io = "ok"
                    THEN [Installed(p, nd, s) EXCEPT !.pending = Rebased(nd.pending, s)]
                    ELSE Persisted(p, nd, s, io))
    BY <2>0, Zenon
  <2>4. s \in Snapshots
    BY <2>1, <2>2, ChangedSnapshotsType, Zenon DEF TypeOK
  <2> DEFINE x == Installed(p, nd, s)
             y == [x EXCEPT !.pending = Rebased(nd.pending, s)]
  <2>5. x \in Nodes /\ x # None
    BY <2>2, <2>4, InstalledType, DownAssumption, Zenon
  <2>6. NodeKeeps(nd, x) /\ NodeKeeps(nd, Persisted(p, nd, s, io))
    BY <2>2, <2>4, PersistedKeeps, Zenon
  <2>7. Set(p, IF io = "ok" THEN y ELSE Persisted(p, nd, s, io))
    BY <2>3, Zenon
  <2> HIDE DEF x
  <2>8. y.blocked = x.blocked /\ y.forwarder = x.forwarder /\ y.floor = x.floor
    BY <2>5, Zenon DEF Nodes
  <2> HIDE DEF y
  <2>9. NodeKeeps(nd, y)
    BY <2>5, <2>6, <2>8, FieldsKeep, Zenon
  <2> QED BY <2>1, <2>3, <2>4, <2>6, <2>7, <2>9, SaveKeeps, Zenon
<1>10. ASSUME UNCHANGED <<node, disk>> PROVE KeepsGates
  BY <1>10, KeepsSelf, Zenon DEF KeepsGates
<1> QED
  BY <1>2, <1>3, <1>4, <1>5, <1>6, <1>7, <1>8, <1>9, <1>10, Zenon DEF RuntimeStep, Resync, ConfirmMutation,
     ExpiryPasses

\* A daemon that ends, or goes on with the gate as it was.
LEMMA RuntimePair ==
    ASSUME NEW nd, NEW nd2, NEW s, NEW s2, NEW v, NEW d, NEW d2, NEW ops,
           GateInv(nd, s, v, ops), ReleaseInv(s, v, d),
           NodeKeeps(nd, nd2), Unstaged(d) => Unstaged(d2),
           s2 = s \/ (s2 = None /\ nd2 = None)
    PROVE  GateInv(nd2, s2, v, ops) /\ ReleaseInv(s2, v, d2)
<1> QED BY GateDown, Zenon DEF GateInv, NodeKeeps, ReleaseInv, Seen

\* Every step of the membership runtime keeps the invariant.
LEMMA MembershipStepKeeps ==
    ASSUME JoinInvariant, MembershipStep
    PROVE  JoinInvariant'
<1> DEFINE ended == {n \in Devices : Up(n) /\ node'[n] = None}
<1>1. RuntimeStep /\ MembershipFrame
  BY Zenon DEF MembershipStep, RuntimeStep
<1>3. TypeOK /\ DurabilityInvariant /\ JoinTypeOK
  BY Zenon DEF JoinInvariant, DurabilityInvariant
<1>4. TypeOK' /\ SafeStep
  BY <1>1, <1>3, TypeStep, StepIsSafe, Zenon DEF RuntimeStep, Next, Mutate, Environment
<1>5. DurabilityInvariant'
  BY <1>3, <1>4, SafeKeepsDurability, Zenon
<1>7. /\ sessions' = [n \in Devices |-> IF n \in ended THEN None ELSE sessions[n]]
      /\ uncertain' = uncertain \ ended
      /\ UNCHANGED <<vault, issued, sent, gated, glitches>>
  BY <1>1, Zenon DEF MembershipFrame
<1>8. BooksKept
  BY <1>4, <1>7, BooksSame, Zenon
<1>9. \A m \in Devices :
        /\ sessions'[m] = IF m \in ended THEN None ELSE sessions[m]
        /\ m \in ended => node'[m] = None
        /\ m \in uncertain' <=> m \in uncertain /\ m \notin ended
  BY <1>7, Zenon
<1> HIDE DEF ended
<1>10. JoinTypeOK'
  BY <1>3, <1>7, Zenon DEF JoinTypeOK
<1>11. ASSUME NEW m \in Devices
       PROVE  PairInv(node'[m], sessions'[m], vault'[m], disk'[m], GatedOps(m)', m \in uncertain')
  <2>1. /\ GateInv(node[m], sessions[m], vault[m], GatedOps(m))
        /\ ReleaseInv(sessions[m], vault[m], disk[m])
        /\ m \in uncertain => UncertainInv(sessions[m], vault[m])
    BY DaemonFacts, Zenon
  <2>2. NodeKeeps(node[m], node'[m]) /\ (Unstaged(disk[m]) => Unstaged(disk'[m]))
    BY <1>1, <1>3, RuntimeKeeps, Zenon DEF KeepsGates
  <2>3. vault'[m] = vault[m] /\ GatedOps(m)' = GatedOps(m)
    BY <1>7, Zenon DEF GatedOps
  <2>4. \/ sessions'[m] = sessions[m]
        \/ sessions'[m] = None /\ node'[m] = None
    BY <1>9, Zenon
  <2>5. /\ GateInv(node'[m], sessions'[m], vault[m], GatedOps(m))
        /\ ReleaseInv(sessions'[m], vault[m], disk'[m])
    BY <2>1, <2>2, <2>4, RuntimePair
  <2>6. m \in uncertain' => UncertainInv(sessions'[m], vault[m])
    BY <1>9, <2>1, Zenon
  <2> QED BY <2>3, <2>5, <2>6, Zenon DEF PairInv
<1>12. ASSUME NEW m \in Devices, NEW x \in Seen(sessions'[m], vault'[m]) PROVE ViewInv(x, m)'
  <2>1. x \in Seen(sessions[m], vault[m])
    BY <1>7, <1>9, <1>12, Zenon DEF Seen
  <2>2. ViewInv(x, m)
    BY <2>1, Zenon DEF JoinInvariant
  <2> QED BY <1>4, <1>8, <2>2, ViewKept, Zenon DEF BooksKept
<1>13. \A m \in Devices :
         PairInv(node[m], sessions[m], vault[m], disk[m], GatedOps(m), m \in uncertain)'
  BY <1>11, Zenon DEF PairInv, GateInv, ReleaseInv, UncertainInv
<1>14. \A m \in Devices : \A x \in Seen(sessions[m], vault[m])' : ViewInv(x, m)'
  BY <1>12, Zenon DEF Seen
<1> QED BY <1>5, <1>8, <1>10, <1>13, <1>14, Zenon DEF JoinInvariant, BooksKept

\* The process ends with the daemon of device n.
LEMMA DownStep ==
    ASSUME JoinInvariant, TypeOK', SafeStep, UNCHANGED <<issued, sent, gated, glitches>>,
           NEW n \in Devices, NEW w \in Vaults, Stores(n, None, w),
           Held(w) \subseteq Held(vault[n]), w.file \in Held(w),
           w.file # vault[n].file => Held(w) = {w.file},
           node'[n] = None, uncertain' = uncertain \ {n},
           \A m \in Devices \ {n} : node'[m] = node[m] /\ disk'[m] = disk[m],
           \A x \in Held(w) : Released(x) /\ Unstaged(disk[n]) => Unstaged(disk'[n])
    PROVE  JoinInvariant'
<1> DEFINE s == sessions[n]
           v == vault[n]
<1>1. /\ JoinTypeOK /\ GateInv(node[n], s, v, GatedOps(n)) /\ ReleaseInv(s, v, disk[n])
      /\ \A x \in Seen(s, v) : ViewInv(x, n)
  BY DaemonFacts, Zenon
<1>2. /\ sessions' \in [Devices -> Sessions \cup {None}] /\ vault' \in [Devices -> Vaults]
      /\ sessions'[n] = None /\ vault'[n] = w
      /\ \A m \in Devices \ {n} : sessions'[m] = sessions[m] /\ vault'[m] = vault[m]
  BY <1>1, Zenon DEF Stores, JoinTypeOK
<1>3. BooksKept
  BY BooksSame, Zenon
<1>5. OthersKept(n) /\ GatedOps(n)' = GatedOps(n)
  BY <1>2, FrameOthers, Zenon DEF PairingFrame
<1>6. GateInv(None, None, w, GatedOps(n))
  BY <1>1, GateDown, Zenon
<1>7. ReleaseInv(None, w, disk'[n])
  BY <1>1, Zenon DEF ReleaseInv, Seen
<1>8. PairInv(node'[n], sessions'[n], vault'[n], disk'[n], GatedOps(n)', n \in uncertain')
  BY <1>2, <1>5, <1>6, <1>7, Zenon DEF PairInv
<1>9. JoinTypeOK'
  BY <1>1, <1>2, Zenon DEF JoinTypeOK
<1>10. \A x \in Seen(sessions'[n], vault'[n]) : ViewInv(x, n)'
  BY <1>1, <1>2, <1>3, ViewKept, Zenon DEF Seen, BooksKept
<1> QED BY <1>3, <1>5, <1>8, <1>9, <1>10, PairingStep, Zenon DEF BooksKept

\* The daemon is stopped.
LEMMA StopDaemonStep ==
    ASSUME JoinInvariant, NEW n \in Devices, StopDaemon(n)
    PROVE  JoinInvariant'
<1>1. TypeOK /\ DurabilityInvariant /\ JoinTypeOK /\ vault[n] \in Vaults
  BY DaemonFacts, Zenon
<1>2. /\ Set(n, None) /\ faults < MaxFaults /\ faults' = faults + 1
      /\ UNCHANGED <<book, disk, wire, acks, late, vault, issued, sent, gated, glitches>>
      /\ uncertain' = uncertain \ {n} /\ sessions' = [sessions EXCEPT ![n] = None]
  BY Zenon DEF StopDaemon
<1>3. /\ node' \in [Devices -> Nodes \cup {None}] /\ node'[n] = None
      /\ \A m \in Devices \ {n} : node'[m] = node[m]
  BY <1>1, <1>2, SetType, Zenon
<1>4. TypeOK'
  BY <1>1, <1>2, <1>3, RuntimeAssumption DEF TypeOK
<1>5. SafeStep
  BY <1>1, <1>2, QuietStep, Zenon DEF DeviceInv
<1>6. Stores(n, None, vault[n])
  BY <1>1, <1>2, Zenon DEF Stores, JoinTypeOK
<1>7. vault[n].file \in Held(vault[n])
  BY Zenon DEF Held
<1> QED BY <1>1, <1>2, <1>3, <1>4, <1>5, <1>6, <1>7, DownStep, Zenon

\* Power is lost.
LEMMA PowerOffStep ==
    ASSUME JoinInvariant, NEW n \in Devices, PowerOff(n)
    PROVE  JoinInvariant'
<1>1. TypeOK /\ DurabilityInvariant /\ JoinTypeOK /\ vault[n] \in Vaults
  BY DaemonFacts, Zenon
<1>2. PICK content \in Copies(n) : PowerLoss(n, content)
  BY Zenon DEF PowerOff
<1>3. PICK saved \in VaultCopies(n) :
        vault' = [vault EXCEPT ![n] = [file |-> saved, shadow |-> {}]]
  BY Zenon DEF PowerOff
<1>4. [Next]_vars
  BY <1>2, Zenon DEF Next, Environment
<1>5. TypeOK' /\ SafeStep
  BY <1>1, <1>4, TypeStep, StepIsSafe, Zenon
<1>6. /\ node'[n] = None /\ disk'[n] = [file |-> content, shadow |-> {}]
      /\ \A m \in Devices \ {n} : node'[m] = node[m] /\ disk'[m] = disk[m]
  BY <1>1, <1>2, Zenon DEF PowerLoss, Set, TypeOK
<1>7. Unstaged(disk[n]) => Unstaged(disk'[n])
  BY <1>6 DEF Unstaged, Held, Copies
<1> DEFINE w == [file |-> saved, shadow |-> {}]
<1>8. /\ w \in Vaults /\ Held(w) = {saved} /\ saved \in Held(vault[n]) /\ w.file = saved
  BY <1>1, Zenon DEF Vaults, VaultCopies, Held
<1>9. Stores(n, None, w) /\ uncertain' = uncertain \ {n}
  BY <1>3, Zenon DEF Stores, PowerOff
<1>10. UNCHANGED <<issued, sent, gated, glitches>>
  BY Zenon DEF PowerOff
<1> HIDE DEF w
<1> QED BY <1>5, <1>6, <1>7, <1>8, <1>9, <1>10, DownStep, Zenon

-----------------------------------------------------------------------------
(* Staging.                                                                *)

\* What stage_pairing_enrollment_inner may save is a checkpoint, and it ranks
\* where the file did.
LEMMA StagingsType ==
    ASSUME TypeOK, JoinTypeOK, IssuedInv, NEW n \in Devices, NEW g \in issued,
           NEW content \in Stagings(disk[n].file, g)
    PROVE  /\ content \in Contents
           /\ disk[n].file # None => AtLeast(Rank(content.snap), Rank(disk[n].file.snap))
<1>1. g.snap \in Snapshots /\ g.inviter \in Devices /\ g.joiner \in Devices
  BY Zenon DEF JoinTypeOK, Grants
<1>2. Minimum(g) \in Ranks
  BY <1>1, RankType, Zenon DEF Minimum
<1>3. disk[n].file \in Contents \cup {None}
  BY Zenon DEF TypeOK, Disks
<1>4. CASE disk[n].file = None
  <2>1. SeedMembers(g) \in Rosters
    <3>4. SeedMembers(g) \in [{g.inviter, g.joiner} -> Entries]
      BY <1>1, RosterElim, Zenon DEF SeedMembers, IssuedInv, Snapshots
    <3>5. {g.inviter, g.joiner} \in SUBSET Devices
      BY <1>1, Zenon
    <3> QED BY <3>4, <3>5, RosterIntro, Zenon
  <2>2. PICK s \in Digested(book, 0, NoParent, SeedMembers(g)) :
          content = [snap |-> s, floor |-> Minimum(g)]
    BY <1>4, Zenon DEF Stagings
  <2>3. s \in Snapshots
    <3> DEFINE M == SeedMembers(g)
    <3>1. s \in book \/ s \in [revision : {0}, parent : {NoParent}, members : {M}, digest : Digests]
      BY <2>2, Zenon DEF Digested
    <3>2. M \in Rosters
      BY <2>1, Zenon
    <3> HIDE DEF M
    <3>3. 0 \in 0..MaxRevision /\ NoParent \in 0..MaxForks
      BY CheckpointAssumption DEF NoParent
    <3> QED BY <3>1, <3>2, <3>3, Zenon DEF Snapshots, TypeOK
  <2> QED BY <1>2, <1>4, <2>2, <2>3, Zenon DEF Contents
<1>5. CASE disk[n].file # None
  <2>1. content.snap = disk[n].file.snap /\ content.floor \in Ranks
        /\ content = [snap |-> content.snap, floor |-> content.floor]
    BY <1>2, <1>3, <1>5 DEF Stagings, Contents
  <2>2. content.snap \in Snapshots
    BY <1>3, <1>5, <2>1, Zenon DEF Contents
  <2> QED BY <2>1, <2>2, RankType, RankOrder, Zenon DEF Contents
<1> QED BY <1>4, <1>5, Zenon

\* CheckpointRuntime::restore behind the gate.
RestoredShut(content) == Restored(content, TRUE, None)

\* It is a device state that is blocked and forwards nothing.
LEMMA RestoredGated ==
    ASSUME NEW d, NEW content \in Contents, d.file = content
    PROVE  /\ RestoredShut(content) \in Nodes
           /\ RestoredShut(content).blocked
           /\ RestoredShut(content).forwarder.sync = "ResyncRequired"
           /\ RestoredShut(content).pending = None
           /\ DeviceInv(RestoredShut(content), d)
<1> DEFINE x == RestoredShut(content)
<1>1. content # None
  BY RuntimeAssumption, Zenon DEF Contents
<1>2. x \in Nodes
  BY RestoredType, Zenon DEF RestoredShut
<1>3. /\ x.current = content.snap /\ x.sync = "ResyncRequired" /\ x.pending = None
      /\ x.floor = content.floor /\ x.blocked
      /\ x.forwarder = [snap |-> content.snap, sync |-> "ResyncRequired"]
  BY Zenon DEF RestoredShut, Restored
<1> HIDE DEF x
<1>4. DeviceInv(x, d)
  BY <1>1, <1>3 DEF DeviceInv
<1> QED BY <1>2, <1>3, <1>4 DEF x

\* A save of a staged enrollment is a safe step, whatever the write does.
LEMMA StagingSafe ==
    ASSUME JoinInvariant, NEW n \in Devices, NEW g \in issued,
           NEW content \in Stagings(disk[n].file, g), NEW io \in Outcomes(n, content),
           SaveTo(n, content, io), Record(content.snap, io), NEW x,
           x = None \/ (disk'[n].file # None /\ x = RestoredShut(disk'[n].file)),
           Set(n, x), UNCHANGED <<wire, acks, late>>
    PROVE  /\ TypeOK' /\ SafeStep /\ node'[n] = x
           /\ \A m \in Devices \ {n} : node'[m] = node[m] /\ disk'[m] = disk[m]
<1>1. TypeOK /\ JoinTypeOK /\ IssuedInv /\ RoundsCanFinish /\ ConfirmedOutsideGate
  BY Zenon DEF JoinInvariant, DurabilityInvariant
<1>2. /\ content \in Contents
      /\ disk[n].file # None => AtLeast(Rank(content.snap), Rank(disk[n].file.snap))
  BY <1>1, StagingsType, Zenon
<1>3. content # None
  BY <1>2, RuntimeAssumption, Zenon DEF Contents
<1>5. disk' = [disk EXCEPT ![n] = Saved(disk[n], content, io)] /\ Charge(io)
  BY Zenon DEF SaveTo
<1>6. Saved(disk[n], content, io) \in Disks
  BY <1>1, <1>2, Zenon DEF Saved, Disks, TypeOK
<1>7. /\ disk' \in [Devices -> Disks] /\ disk'[n] = Saved(disk[n], content, io)
      /\ \A m \in Devices \ {n} : disk'[m] = disk[m]
  BY <1>1, <1>5, <1>6, Zenon DEF TypeOK
<1>8. disk'[n].file \in {disk[n].file, content} /\ Held(disk'[n]) \subseteq Held(disk[n]) \cup {content}
  <2>1. CASE io = "failed"
    BY <1>7, <2>1, Zenon DEF Saved
  <2>2. CASE io # "failed"
    BY <1>7, <2>2 DEF Held, Saved
  <2> QED BY <2>1, <2>2, Zenon
<1>9. x \in Nodes \cup {None} /\ DeviceInv(x, disk'[n]) /\ (x # None => x.pending = None)
  <2>2. CASE disk'[n].file # None /\ x = RestoredShut(disk'[n].file)
    <3>1. disk'[n].file \in Contents
      BY <1>7, <2>2, Zenon DEF Disks
    <3> QED BY <2>2, <3>1, RestoredGated, Zenon
  <2> QED BY <2>2, Zenon DEF DeviceInv
<1>10. /\ node' \in [Devices -> Nodes \cup {None}] /\ node'[n] = x
       /\ \A m \in Devices \ {n} : node'[m] = node[m]
  BY <1>1, <1>9, SetType, Zenon
<1>11. TypeOK'
  <2>1. book' \in SUBSET Snapshots
    BY <1>1, <1>2, RecordType, Zenon DEF Contents
  <2>2. faults' \in 0..MaxFaults
    BY <1>1, <1>5, RuntimeAssumption DEF TypeOK, Charge
  <2> QED BY <1>1, <1>7, <1>10, <2>1, <2>2, Zenon DEF TypeOK
<1>12. RoundsCanFinish' /\ ConfirmedOutsideGate'
  BY <1>1, <1>7, <1>9, DeviceStep, Zenon
<1>13. InboxesFrom
  BY <1>1, <1>9, InboxStep, Zenon
<1>14. CopiesRise
  <2>1. ASSUME NEW m \in Devices, NEW c \in Copies(m)'
        PROVE  \/ c \in Copies(m)
               \/ disk[m].file # None =>
                    c # None /\ AtLeast(Rank(c.snap), Rank(disk[m].file.snap))
    BY <1>2, <1>3, <1>7, <1>8, <2>1, Zenon DEF Copies, Held
  <2> QED BY <2>1, Zenon DEF CopiesRise
<1>15. FilesRise
  BY <1>2, <1>3, <1>7, <1>8, Zenon DEF FilesRise
<1>16. AcksFrom
  BY Zenon DEF AcksFrom
<1> QED BY <1>7, <1>10, <1>11, <1>12, <1>13, <1>14, <1>15, <1>16, Zenon DEF SafeStep

\* stage_prepared leaves the device down or behind the gate.
LEMMA StagePreparedSafe ==
    ASSUME JoinInvariant, NEW n \in Devices, NEW e, e.grant \in issued,
           NEW nd \in Nodes \cup {None}, DeviceInv(nd, disk[n]), NEW survives \in BOOLEAN,
           nd # None /\ nd.pending # None =>
             (Up(n) /\ nd.pending = node[n].pending) \/ nd.pending.inbox = {},
           StagePrepared(n, e, nd, survives), UNCHANGED <<wire, acks, late>>
    PROVE  /\ TypeOK' /\ SafeStep
           /\ node'[n] # None => node'[n].blocked /\ node'[n].forwarder.sync = "ResyncRequired"
           /\ \A m \in Devices \ {n} : node'[m] = node[m] /\ disk'[m] = disk[m]
           /\ e.ownership = "Released" => disk'[n] = disk[n]
<1>2. ASSUME nd # None, Set(n, Gated(nd)), UNCHANGED <<disk, book, faults>>
      PROVE  /\ TypeOK' /\ SafeStep
             /\ node'[n] # None => node'[n].blocked /\ node'[n].forwarder.sync = "ResyncRequired"
             /\ \A m \in Devices \ {n} : node'[m] = node[m] /\ disk'[m] = disk[m]
  <2> DEFINE x == Gated(nd)
  <2>1. /\ x \in Nodes /\ x.blocked /\ x.pending = nd.pending
        /\ x.forwarder = [snap |-> nd.current, sync |-> "ResyncRequired"]
    BY <1>2, GatedFields, Zenon
  <2>2. DeviceInv(x, disk[n])
    BY <1>2, GateDevice, Zenon
  <2>3. Set(n, x)
    BY <1>2, Zenon
  <2> HIDE DEF x
  <2>4. TypeOK' /\ SafeStep /\ node'[n] = x
        /\ \A m \in Devices \ {n} : node'[m] = node[m] /\ disk'[m] = disk[m]
    BY <1>2, <2>1, <2>2, <2>3, QuietNode, Zenon
  <2> QED BY <2>1, <2>4
<1>3. ASSUME NEW content \in Stagings(disk[n].file, e.grant), NEW io \in Outcomes(n, content),
             SaveTo(n, content, io), Record(content.snap, io),
             Set(n, IF Saved(disk[n], content, io).file = None \/ ~(io = "ok" \/ survives)
                    THEN None ELSE RestoredShut(Saved(disk[n], content, io).file))
      PROVE  /\ TypeOK' /\ SafeStep
             /\ node'[n] # None => node'[n].blocked /\ node'[n].forwarder.sync = "ResyncRequired"
             /\ \A m \in Devices \ {n} : node'[m] = node[m] /\ disk'[m] = disk[m]
  <2> DEFINE visible == Saved(disk[n], content, io).file
             x == IF visible = None \/ ~(io = "ok" \/ survives)
                  THEN None ELSE RestoredShut(visible)
  <2>2. x = None \/ (disk'[n].file # None /\ x = RestoredShut(disk'[n].file))
    BY <1>3, Zenon DEF SaveTo, TypeOK, JoinInvariant, DurabilityInvariant
  <2>3. Set(n, x)
    BY <1>3, Zenon
  <2> HIDE DEF x, visible
  <2>4. TypeOK' /\ SafeStep /\ node'[n] = x
        /\ \A m \in Devices \ {n} : node'[m] = node[m] /\ disk'[m] = disk[m]
    BY <1>3, <2>2, <2>3, StagingSafe, Zenon
  <2>5. ASSUME x # None PROVE x.blocked /\ x.forwarder.sync = "ResyncRequired"
    <3>1. disk'[n].file \in Contents
      BY <2>2, <2>4, <2>5, Zenon DEF TypeOK, Disks
    <3> QED BY <2>2, <2>5, <3>1, RestoredGated, Zenon
  <2> QED BY <2>4, <2>5, Zenon
<1> QED BY <1>2, <1>3, Zenon DEF StagePrepared, RestoredShut

\* The pairing state with a new join.
LEMMA JoinFields ==
    ASSUME NEW s \in Sessions, s.join = None, NEW e \in Joins, NEW x, x = [s EXCEPT !.join = e]
    PROVE  /\ x \in Sessions /\ x.join = e /\ x.join # None
           /\ x.invite = s.invite /\ x.applied = s.applied /\ Closed(x) = Closed(s)
           /\ Extends(x, s) /\ ~Released(s)
<1>1. /\ x.join = e /\ x.invite = s.invite /\ x.applied = s.applied
      /\ x.aborted = s.aborted
  BY Zenon DEF Sessions
<1>2. x \in Sessions
  BY Zenon DEF Sessions
<1>3. e # None
  BY SessionAssumption, Zenon
<1> QED BY <1>1, <1>2, <1>3, Zenon DEF Extends, Carries, Closed, Released

\* A pairing state with a pending join was saved, and the device is down or behind
\* the gate.
LEMMA StagedStep ==
    ASSUME JoinInvariant, TypeOK', SafeStep, UNCHANGED <<issued, sent>>, NEW n \in Devices,
           NEW x \in Sessions, x.join # None, NEW w \in Vaults, Held(w) = {x}, w.file = x,
           Stores(n, x, w), glitches' \in 0..MaxGlitches, uncertain' = uncertain \ {n},
           gated' = IF node'[n] = None THEN gated ELSE gated \cup {<<n, x.join.grant.op>>},
           node'[n] # None => node'[n].blocked /\ node'[n].forwarder.sync = "ResyncRequired",
           \A m \in Devices \ {n} : node'[m] = node[m] /\ disk'[m] = disk[m],
           \A op \in GatedOps(n) : op \in Closed(x) \/ Pends(x, op),
           ReleasedWell(x, disk'[n]), ViewInv(x, n)
    PROVE  JoinInvariant'
<1>1. JoinTypeOK /\ x # None
  BY DaemonFacts, SessionAssumption, Zenon
<1>2. /\ sessions' \in [Devices -> Sessions \cup {None}] /\ vault' \in [Devices -> Vaults]
      /\ sessions'[n] = x /\ vault'[n] = w
      /\ \A m \in Devices \ {n} : sessions'[m] = sessions[m] /\ vault'[m] = vault[m]
  BY <1>1, Zenon DEF Stores, JoinTypeOK
<1>3. x.join.grant.op \in Ops
  BY Zenon DEF Sessions, Joins, Grants
<1>4. OthersKept(n) /\ GatedOps(n)' \subseteq GatedOps(n) \cup {x.join.grant.op}
  BY <1>2, Zenon DEF OthersKept, GatedOps
<1>5. BooksKept
  BY BooksSame, Zenon
<1>6. Seen(x, w) = {x}
  BY Zenon DEF Seen
<1>7. GateInv(node'[n], x, w, GatedOps(n)')
  <2>1. \A op \in GatedOps(n)' : op \in Closed(x) \/ Pends(x, op)
    BY <1>4, Zenon DEF Pends
  <2>2. GateShut(node'[n], x)
    BY Zenon DEF GateShut
  <2> QED BY <1>1, <2>1, <2>2, GateStaged, Zenon
<1>8. ReleaseInv(x, w, disk'[n])
  BY <1>6, Zenon DEF ReleaseInv, ReleasedWell
<1>9. ViewInv(x, n)'
  BY <1>5, ViewKept, Zenon DEF BooksKept
<1>10. JoinTypeOK'
  BY <1>1, <1>2, <1>3, <1>5 DEF JoinTypeOK, BooksKept
<1>11. PairInv(node'[n], sessions'[n], vault'[n], disk'[n], GatedOps(n)', n \in uncertain')
  BY <1>2, <1>7, <1>8, Zenon DEF PairInv
<1> QED BY <1>2, <1>4, <1>5, <1>6, <1>9, <1>10, <1>11, PairingStep DEF BooksKept

\* stage_prepared on a running daemon.
StagesUp(n, e) == StagePrepared(n, e, node[n], TRUE)

\* A pending join is saved and staged on a running daemon.
LEMMA SaveAndStage ==
    ASSUME JoinInvariant, NEW n \in Devices, NEW x \in Sessions, x.join # None,
           sessions[n] # None, n \notin uncertain, Keep(n, x, "ok"),
           StagesUp(n, x.join),
           UNCHANGED <<wire, acks, late, uncertain, issued, sent>>,
           \A op \in GatedOps(n) : op \in Closed(x) \/ Pends(x, op),
           ReleasedWell(x, disk[n]), ViewInv(x, n)
    PROVE  JoinInvariant'
<1> DEFINE w == Saved(vault[n], x, "ok")
<1>1. TypeOK /\ JoinTypeOK /\ vault[n] \in Vaults /\ DeviceInv(node[n], disk[n])
  BY DaemonFacts, Zenon
<1>2. x.join.grant \in issued /\ node[n] \in Nodes \cup {None}
  BY <1>1, Zenon DEF ViewInv, TypeOK
<1>4. PICK e : e = x.join
  BY Zenon
<1>5. e.grant \in issued /\ StagesUp(n, e)
  BY <1>2, <1>4, Zenon
<1>6. /\ TypeOK' /\ SafeStep
      /\ node'[n] # None => node'[n].blocked /\ node'[n].forwarder.sync = "ResyncRequired"
      /\ \A m \in Devices \ {n} : node'[m] = node[m] /\ disk'[m] = disk[m]
      /\ e.ownership = "Released" => disk'[n] = disk[n]
  BY <1>1, <1>2, <1>5, StagePreparedSafe, Zenon DEF StagesUp, Up
<1>7. gated' = IF node'[n] = None THEN gated ELSE gated \cup {<<n, x.join.grant.op>>}
  BY <1>4, <1>5, Zenon DEF StagesUp, StagePrepared
<1>8. Stores(n, x, w) /\ glitches' \in 0..MaxGlitches
  BY <1>1, Zenon DEF Keep, Stores, ChargeWrite, JoinTypeOK
<1>9. w \in Vaults /\ Held(w) = {x} /\ w.file = x
  BY <1>1, SavedVault
<1> HIDE DEF w
<1> QED BY <1>4, <1>6, <1>7, <1>8, <1>9, StagedStep, Zenon DEF ReleasedWell, Released

\* accept_joiner.
LEMMA AcceptJoinerStep ==
    ASSUME JoinInvariant, NEW n \in Devices, NEW g \in issued, AcceptJoiner(n, g)
    PROVE  JoinInvariant'
<1> SUFFICES ASSUME NEW s, s = sessions[n] PROVE JoinInvariant'
  BY Zenon
<1>1. /\ s # None /\ n \notin uncertain /\ s.join = None
      /\ UNCHANGED <<wire, acks, late, uncertain, issued, sent>>
  BY Zenon DEF AcceptJoiner, MayKeep, Running
<1>2. PICK e : e = [grant |-> g, state |-> "Prepared", ownership |-> Ownership(disk[n].file, g)]
  BY Zenon
<1>3. PICK x : x = [s EXCEPT !.join = e]
  BY Zenon
<1>5. s \in Sessions /\ GateInv(node[n], s, vault[n], GatedOps(n)) /\ ViewInv(s, n)
  BY <1>1, DaemonFacts, Zenon DEF Seen
<1>6. e \in Joins /\ e.grant = g /\ e.ownership # "Released"
  BY <1>2, Zenon DEF Joins, Phases, JoinInvariant, JoinTypeOK, Ownership
<1>7. /\ x \in Sessions /\ x.join = e /\ x.join # None
      /\ x.invite = s.invite /\ x.applied = s.applied /\ Closed(x) = Closed(s)
      /\ Extends(x, s) /\ ~Released(s)
  BY <1>1, <1>3, <1>5, <1>6, JoinFields
<1>8. ViewInv(x, n) /\ ~Released(x)
  BY <1>5, <1>6, <1>7, Zenon DEF ViewInv, Released
<1>9. ASSUME NEW io \in Writes, Keep(n, x, io), UNCHANGED <<disk, node, book, faults, gated>>
      PROVE  JoinInvariant'
  <2>2. TypeOK' /\ SafeStep
    BY <1>1, <1>9, UnchangedSafe, Zenon DEF vars
  <2>3. BooksKept
    BY <1>1, <2>2, BooksSame, Zenon
  <2>4. PairingFrame(n) /\ node' = node /\ disk' = disk
    BY <1>1, <1>9, Zenon DEF PairingFrame
  <2>5. ViewInv(x, n)'
    BY <1>8, <2>2, <2>3, ViewKept, Zenon DEF BooksKept
  <2>6. GoesOn(node[n], node'[n], x)
    BY <1>7, <2>4, GoesOnSame, Zenon
  <2> QED BY <1>1, <1>7, <1>8, <1>9, <2>2, <2>3, <2>4, <2>5, <2>6, KeepStep, Zenon
<1>10. ASSUME Keep(n, x, "ok"), StagesUp(n, e) PROVE JoinInvariant'
  <2>1. \A op \in GatedOps(n) : op \in Closed(x) \/ Pends(x, op)
    BY <1>1, <1>5, <1>7, Zenon DEF GateInv, Seen, Pends
  <2>2. ReleasedWell(x, disk[n])
    BY <1>8, Zenon DEF ReleasedWell
  <2>3. StagesUp(n, x.join)
    BY <1>7, <1>10, Zenon
  <2> QED BY <1>1, <1>7, <1>8, <1>10, <2>1, <2>2, <2>3, SaveAndStage, Zenon
<1> QED BY <1>2, <1>3, <1>9, <1>10, Zenon DEF AcceptJoiner, StagesUp

\* The pairing tick stages again.
LEMMA StageAgainStep ==
    ASSUME JoinInvariant, NEW n \in Devices, StageAgain(n)
    PROVE  JoinInvariant'
<1> SUFFICES ASSUME NEW s, s = sessions[n] PROVE JoinInvariant'
  BY Zenon
<1>1. /\ s # None /\ n \notin uncertain /\ s.join # None
      /\ UNCHANGED <<wire, acks, late, uncertain, issued, sent>>
  BY Zenon DEF StageAgain, MayKeep, Running
<1>4. ASSUME NEW io \in Writes, Keep(n, s, io), UNCHANGED <<disk, node, book, faults, gated>>
      PROVE  JoinInvariant'
  <2>1. UNCHANGED <<vars, issued, sent, gated>> /\ uncertain' = uncertain \ {n}
    BY <1>1, <1>4, Zenon DEF vars
  <2> QED BY <1>1, <1>4, <2>1, SaveAgainStep, Zenon
<1>5. ASSUME Keep(n, s, "ok"), StagesUp(n, s.join) PROVE JoinInvariant'
  BY <1>1, <1>5, SaveAndStage, DaemonFacts, Zenon DEF GateInv, Seen, ReleasedWell, ReleaseInv
<1> QED BY <1>4, <1>5, Zenon DEF StageAgain, StagesUp

\* The runtime that startup restores from the membership file.
Booted(file) == IF file = None THEN None ELSE Restored(file, FALSE, NewRound(file.snap))

LEMMA BootedFields ==
    ASSUME NEW d \in Disks, NEW nd, nd = Booted(d.file)
    PROVE  /\ nd \in Nodes \cup {None} /\ DeviceInv(nd, d)
           /\ nd # None => ~nd.blocked /\ nd.pending.inbox = {}
           /\ nd = None <=> d.file = None
<1>1. CASE d.file = None
  BY <1>1, Zenon DEF Booted, DeviceInv
<1>2. CASE d.file # None
  <2>1. d.file \in Contents /\ d.file.snap \in Snapshots
    BY <1>2, Zenon DEF Disks, Contents
  <2>2. PICK round : round = NewRound(d.file.snap)
    BY Zenon
  <2>3. /\ round \in Rounds /\ round.base = d.file.snap /\ round.inbox = {}
        /\ AtLeast(Rank(round.best), Rank(d.file.snap))
    BY <2>1, <2>2, NewRoundInv, Zenon
  <2>4. nd = Restored(d.file, FALSE, round)
    BY <1>2, <2>2, Zenon DEF Booted
  <2>5. nd \in Nodes
    BY <2>1, <2>3, <2>4, RestoredType, Zenon
  <2>6. nd # None
    BY <2>5, DownAssumption, Zenon
  <2>7. /\ nd.current = d.file.snap /\ nd.sync = "ResyncRequired" /\ nd.pending = round
        /\ nd.floor = d.file.floor /\ ~nd.blocked
        /\ nd.forwarder = [snap |-> d.file.snap, sync |-> "ResyncRequired"]
    BY <2>4 DEF Restored
  <2>8. DeviceInv(nd, d)
    BY <1>2, <2>3, <2>7 DEF DeviceInv
  <2> QED BY <1>2, <2>3, <2>5, <2>6, <2>7, <2>8, Zenon
<1> QED BY <1>1, <1>2, Zenon

\* stage_prepared while the daemon starts.
StagesBoot(n, e) == StagePrepared(n, e, Booted(disk[n].file), FALSE)

\* Startup of run_mesh.
LEMMA StartStep ==
    ASSUME JoinInvariant, NEW n \in Devices, Start(n)
    PROVE  JoinInvariant'
<1> SUFFICES ASSUME NEW x, x = vault[n].file PROVE JoinInvariant'
  BY Zenon
<1>1. /\ TypeOK /\ JoinTypeOK /\ vault[n] \in Vaults /\ Held(vault[n]) \subseteq Sessions
      /\ x \in Held(vault[n])
      /\ GateInv(node[n], sessions[n], vault[n], GatedOps(n))
      /\ ReleaseInv(sessions[n], vault[n], disk[n])
      /\ n \in uncertain => UncertainInv(sessions[n], vault[n])
      /\ \A y \in Seen(sessions[n], vault[n]) : ViewInv(y, n)
  BY DaemonFacts, Zenon
<1>2. /\ sessions[n] = None /\ UNCHANGED <<wire, acks, late, uncertain, issued, sent, glitches>>
      /\ sessions' = [sessions EXCEPT ![n] = IF x.join = None \/ node'[n] # None THEN x ELSE None]
      /\ vault' = IF node'[n] = None THEN vault ELSE [vault EXCEPT ![n] = Saved(@, x, "ok")]
  BY Zenon DEF Start, Running
<1>3. IF x.join = None
      THEN Set(n, Booted(disk[n].file)) /\ UNCHANGED <<disk, book, faults, gated>>
      ELSE StagesBoot(n, x.join)
  BY Zenon DEF Start, StagesBoot, Booted
<1>4. uncertain' = uncertain \ {n} /\ glitches' \in 0..MaxGlitches
  BY <1>1, <1>2, Zenon DEF UncertainInv, JoinTypeOK
<1>5. x \in Sessions /\ x # None /\ ViewInv(x, n) /\ x \in Seen(sessions[n], vault[n])
  BY <1>1, SessionAssumption, Zenon DEF Seen
<1>6. PICK nd : nd = Booted(disk[n].file)
  BY Zenon
<1>7. /\ nd \in Nodes \cup {None} /\ DeviceInv(nd, disk[n])
      /\ nd # None => ~nd.blocked /\ nd.pending.inbox = {}
      /\ nd = None <=> disk[n].file = None
  BY <1>1, <1>6, BootedFields DEF TypeOK
<1>8. PICK w : w = Saved(vault[n], x, "ok")
  BY Zenon
<1>9. w \in Vaults /\ Held(w) = {x} /\ w.file = x
  BY <1>1, <1>5, <1>8, SavedVault
<1>10. node'[n] # None => Stores(n, x, w)
  BY <1>2, <1>8, Zenon DEF Stores
<1>11. CASE x.join = None
  <2>1. Set(n, nd) /\ UNCHANGED <<book, disk, wire, acks, late, faults, gated>>
    BY <1>2, <1>3, <1>6, <1>11, Zenon
  <2>2. /\ TypeOK' /\ SafeStep /\ node'[n] = nd
        /\ \A m \in Devices \ {n} : node'[m] = node[m] /\ disk'[m] = disk[m]
    BY <1>7, <2>1, QuietNode, Zenon
  <2>3. BooksKept /\ PairingFrame(n)
    BY <1>2, <1>4, <2>1, <2>2, BooksSame, Zenon DEF PairingFrame
  <2>4. ViewInv(x, n)'
    BY <1>5, <2>2, <2>3, ViewKept, Zenon DEF BooksKept
  <2>5. CASE nd # None
    <3>1. GatedOps(n) \subseteq Closed(x)
      BY <1>1, <1>5, <1>11, Zenon DEF GateInv, Pends
    <3>2. GateShut(node'[n], x)
      BY <1>7, <2>2, <2>5, Zenon DEF GateShut
    <3> QED BY <1>4, <1>5, <1>9, <1>10, <1>11, <2>2, <2>3, <2>4, <2>5, <3>1, <3>2, ClosedStep, Zenon
  <2>6. CASE nd = None
    <3>1. /\ sessions' = [sessions EXCEPT ![n] = x] /\ vault' = [vault EXCEPT ![n] = vault[n]]
      BY <1>1, <1>2, <1>11, <2>2, <2>6, Zenon DEF JoinTypeOK
    <3>2. /\ sessions' \in [Devices -> Sessions \cup {None}] /\ vault' \in [Devices -> Vaults]
          /\ sessions'[n] = x /\ vault'[n] = vault[n]
          /\ \A m \in Devices \ {n} : sessions'[m] = sessions[m] /\ vault'[m] = vault[m]
      BY <1>1, <1>2, <1>5, <1>11, <2>2, <2>6, <3>1, Zenon DEF JoinTypeOK
    <3>3. OthersKept(n) /\ GatedOps(n)' = GatedOps(n)
      BY <2>3, <3>2, FrameOthers, Zenon
    <3>4. Seen(x, vault[n]) = Held(vault[n]) /\ Seen(sessions[n], vault[n]) = Held(vault[n])
      BY <1>1, <1>2, <1>5, Zenon DEF Seen
    <3>5. GateInv(node'[n], x, vault[n], GatedOps(n))
      BY <1>1, <2>2, <2>6, <3>4, Zenon DEF GateInv
    <3>6. \A y \in Held(vault[n]) : ~Released(y)
      BY <1>1, <1>7, <2>6, <3>4, Zenon DEF ReleaseInv, Unstaged, Held
    <3>7. ReleaseInv(x, vault[n], disk'[n])
      BY <1>1, <3>4, <3>6, ReleaseFree, Zenon
    <3>8. PairInv(node'[n], sessions'[n], vault'[n], disk'[n], GatedOps(n)', n \in uncertain')
      BY <1>4, <3>2, <3>3, <3>5, <3>7, Zenon DEF PairInv
    <3>9. \A y \in Seen(sessions'[n], vault'[n]) : ViewInv(y, n)'
      BY <1>1, <2>2, <2>3, <3>2, <3>4, ViewKept, Zenon DEF BooksKept
    <3>10. JoinTypeOK'
      BY <1>1, <1>2, <1>4, <2>1, <3>2, Zenon DEF JoinTypeOK
    <3> QED BY <2>2, <2>3, <3>3, <3>8, <3>9, <3>10, PairingStep, Zenon DEF BooksKept
  <2> QED BY <2>5, <2>6, Zenon
<1>12. CASE x.join # None
  <2>1. PICK e : e = x.join
    BY Zenon
  <2>2. e.grant \in issued
    BY <1>5, <1>12, <2>1, Zenon DEF ViewInv
  <2>3. StagesBoot(n, e)
    BY <1>3, <1>12, <2>1, Zenon
  <2>4. gated' = IF node'[n] = None THEN gated ELSE gated \cup {<<n, x.join.grant.op>>}
    BY <2>1, <2>3, Zenon DEF StagesBoot, StagePrepared
  <2>5. /\ TypeOK' /\ SafeStep
        /\ node'[n] # None => node'[n].blocked /\ node'[n].forwarder.sync = "ResyncRequired"
        /\ \A m \in Devices \ {n} : node'[m] = node[m] /\ disk'[m] = disk[m]
        /\ e.ownership = "Released" => disk'[n] = disk[n]
    <3>1. StagePrepared(n, e, nd, FALSE)
      BY <1>6, <2>3, Zenon DEF StagesBoot
    <3>2. UNCHANGED <<wire, acks, late>>
      BY <1>2, Zenon
    <3>3. nd # None /\ nd.pending # None =>
            (Up(n) /\ nd.pending = node[n].pending) \/ nd.pending.inbox = {}
      BY <1>7, Zenon
    <3> QED BY <1>7, <2>2, <3>1, <3>2, <3>3, StagePreparedSafe, Zenon
  <2>6. Released(x) => disk'[n] = disk[n]
    BY <2>1, <2>5, Zenon DEF Released
  <2>7. UNCHANGED <<issued, sent, glitches>>
    BY <1>2, Zenon
  <2>8. CASE node'[n] # None
    <3>1. \A op \in GatedOps(n) : op \in Closed(x) \/ Pends(x, op)
      BY <1>1, <1>5, Zenon DEF GateInv
    <3>2. ReleasedWell(x, disk'[n])
      BY <1>1, <1>5, <2>6, Zenon DEF ReleasedWell, ReleaseInv
    <3> QED BY <1>4, <1>5, <1>9, <1>10, <1>12, <2>4, <2>5, <2>7, <2>8, <3>1, <3>2, StagedStep, Zenon
  <2>9. CASE node'[n] = None
    <3>1. Stores(n, None, vault[n])
      BY <1>1, <1>2, <1>12, <2>9, Zenon DEF Stores, JoinTypeOK
    <3>2. \A y \in Held(vault[n]) : Released(y) /\ Unstaged(disk[n]) => Unstaged(disk'[n])
      BY <1>1, <1>12, <2>6, Zenon DEF ReleaseInv
    <3> QED BY <1>1, <1>4, <2>4, <2>5, <2>7, <2>9, <3>1, <3>2, DownStep, Zenon
  <2> QED BY <2>8, <2>9, Zenon
<1> QED BY <1>11, <1>12, Zenon

-----------------------------------------------------------------------------
(* Approval.                                                               *)

\* A step that leaves the other devices and the gate of device n alone.
MovesOn(n) ==
    /\ TypeOK' /\ SafeStep
    /\ \A m \in Devices \ {n} : node'[m] = node[m] /\ disk'[m] = disk[m]
    /\ GoesOn(node[n], node'[n], sessions[n])
    /\ Unstaged(disk[n]) => Unstaged(disk'[n])

\* Nothing of the runtime changes, but a snapshot is written down.
LEMMA MovesIdle ==
    ASSUME JoinInvariant, NEW n \in Devices, UNCHANGED <<disk, node, wire, acks, late, faults>>,
           book' \in SUBSET Snapshots
    PROVE  MovesOn(n)
<1>1. DurabilityInvariant /\ TypeOK /\ DeviceInv(node[n], disk[n])
  BY DaemonFacts, Zenon
<1>2. TypeOK'
  BY <1>1, Zenon DEF TypeOK
<1>3. Set(n, node[n]) /\ node[n] \in Nodes \cup {None}
  BY <1>1, Zenon DEF Set, TypeOK
<1>4. SafeStep
  BY <1>1, <1>3, QuietStep, Zenon DEF Up
<1>5. GoesOn(node[n], node[n], sessions[n])
  BY GoesOnSame, Zenon
<1> QED BY <1>2, <1>4, <1>5, Zenon DEF MovesOn

\* apply_change_with_handoff from the runtime nd.
LEMMA MovesHandedOff ==
    ASSUME JoinInvariant, NEW n \in Devices, NEW nd \in Nodes, DeviceInv(nd, disk[n]),
           nd.pending = None, GoesOn(node[n], nd, sessions[n]),
           NEW change \in Changes, NEW t \in Snapshots, NEW io \in Outcomes(n, Plain(t)),
           HandedOff(n, nd, change, t, io), UNCHANGED <<acks, late>>,
           book' \in SUBSET Snapshots
    PROVE  /\ MovesOn(n)
           /\ io = "ok" => disk'[n] = [file |-> Plain(t), shadow |-> {}]
<1>1. DurabilityInvariant /\ TypeOK
  BY DaemonFacts, Zenon
<1>2. SafeStep
  BY <1>1, HandedOffSafe, Zenon
<1>3. /\ disk' \in [Devices -> Disks] /\ faults' \in 0..MaxFaults
      /\ node' \in [Devices -> Nodes \cup {None}] /\ wire' \in SUBSET Commands
  BY <1>1, HandedOffType, Zenon
<1>4. TypeOK'
  BY <1>1, <1>3, Zenon DEF TypeOK
<1>5. /\ SaveTo(n, Plain(t), io) /\ node'[n] # None /\ NodeKeeps(nd, node'[n])
      /\ \A m \in Devices \ {n} : node'[m] = node[m]
  BY <1>1, HandedOffKeeps, Zenon
<1>6. /\ \A m \in Devices \ {n} : disk'[m] = disk[m]
      /\ io = "ok" => disk'[n] = [file |-> Plain(t), shadow |-> {}]
  BY <1>1, <1>5, SaveEffect, Zenon
<1>7. Unstaged(disk[n]) => Unstaged(disk'[n])
  BY <1>1, <1>5, SaveUnstaged, Zenon
<1>8. nd # None
  BY DownAssumption, Zenon
<1>9. GoesOn(node[n], node'[n], sessions[n])
  BY <1>5, <1>8, Zenon DEF GoesOn, GateShut, NodeKeeps
<1> QED BY <1>2, <1>4, <1>5, <1>6, <1>7, <1>9, Zenon DEF MovesOn

\* Device n issues the grant g, or issues it again.
IssuesGrant(n, g) ==
    g \in Grants /\ g.inviter = n /\ issued' = issued \cup {g} /\ IssuedInv'

\* A new operation has no grant yet.
LEMMA IssuesNew ==
    ASSUME JoinInvariant, NEW g \in Grants, g.op \in NewOps,
           g.inviter \in DOMAIN g.snap.members, g.joiner \in DOMAIN g.snap.members,
           issued' = issued \cup {g}
    PROVE  IssuedInv'
<1> QED BY Zenon DEF IssuedInv, JoinInvariant, NewOps

\* A response is handed out only for a grant that is durable at its inviter.
LEMMA ApprovalBooks ==
    ASSUME JoinInvariant, NEW n \in Devices, MovesOn(n), NEW g, IssuesGrant(n, g),
           sent' = sent \/ (sent' = sent \cup {g.op} /\ Above(n, g.snap)')
    PROVE  BooksKept
<1>1. JoinTypeOK /\ SentInv /\ IssuedInv' /\ issued' = issued \cup {g} /\ g \in Grants
  BY Zenon DEF JoinInvariant, IssuesGrant
<1>3. ASSUME NEW h \in issued', h.op \in sent PROVE Above(h.inviter, h.snap)'
  <2>1. PICK k \in issued : k.op = h.op
    BY <1>1, <1>3, Zenon DEF SentInv
  <2>2. h = k
    BY <1>1, <2>1, Zenon DEF IssuedInv
  <2>3. h.inviter \in Devices /\ h.snap \in Snapshots /\ Above(h.inviter, h.snap)
    BY <1>1, <1>3, <2>1, <2>2, Zenon DEF SentInv, JoinTypeOK, Grants
  <2> QED BY <2>3, AboveStable, Zenon DEF JoinInvariant, DurabilityInvariant, SafeStep, MovesOn
<1>4. ASSUME NEW h \in issued', h.op \in sent', h.op \notin sent PROVE Above(h.inviter, h.snap)'
  <2>1. h.op = g.op /\ Above(n, g.snap)'
    BY <1>4, Zenon
  <2>2. h = g /\ g.inviter = n
    BY <1>1, <2>1, Zenon DEF IssuedInv, IssuesGrant
  <2> QED BY <2>1, <2>2, Zenon
<1>5. \A op \in sent' : \E h \in issued' : h.op = op
  BY <1>1, Zenon DEF SentInv
<1>6. SentInv'
  BY <1>3, <1>4, <1>5, Zenon DEF SentInv
<1>7. sent' \in SUBSET Ops /\ issued' \in SUBSET Grants
  BY <1>1, Zenon DEF JoinTypeOK, Grants
<1> QED BY <1>1, <1>6, <1>7, Zenon DEF BooksKept

\* What the approval does to the pairing state s of device n: `prepared` holds the invitation,
\* and `applied` has it completed.
ApprovalStates(n, s, g, i, prepared, applied) ==
    /\ s = sessions[n] /\ s # None
    /\ i \in Invites /\ i.grant = g
    /\ prepared = [s EXCEPT !.invite = i]
    /\ applied = InviteDone(s, g.op)

\* Both go on from s.
LEMMA ApprovalFields ==
    ASSUME JoinInvariant, NEW n \in Devices,
           NEW s, NEW g, NEW i, NEW x, NEW y, ApprovalStates(n, s, g, i, x, y),
           MovesOn(n), IssuesGrant(n, g), BooksKept
    PROVE  /\ x \in Sessions /\ y \in Sessions /\ Extends(x, s) /\ Extends(y, s)
           /\ (Released(x) <=> Released(s)) /\ (Released(y) <=> Released(s))
           /\ x.join = s.join /\ y.join = s.join
           /\ Released(s) => s.join.state = "Aborting" /\ Unstaged(disk'[n])
           /\ GoesOn(node[n], node'[n], x) /\ GoesOn(node[n], node'[n], y)
           /\ ViewInv(x, n)'
           /\ Above(n, g.snap)' => ViewInv(y, n)'
<1>0. s = sessions[n] /\ s # None
  BY Zenon DEF ApprovalStates
<1>1. s \in Sessions /\ ViewInv(s, n) /\ ReleaseInv(s, vault[n], disk[n])
  BY <1>0, DaemonFacts, Zenon DEF Seen
<1>2. g \in Grants /\ g.op \in Ops /\ g \in issued' /\ g.inviter = n
  BY Zenon DEF IssuesGrant, Grants
<1>3. /\ x \in Sessions /\ x.join = s.join /\ x.invite = i /\ x.applied = s.applied
      /\ Extends(x, s) /\ (Released(x) <=> Released(s))
  BY <1>1, InviteFields DEF ApprovalStates
<1>4. /\ y \in Sessions /\ y.join = s.join /\ y.invite = None
      /\ y.applied = s.applied \cup {g.op}
      /\ Extends(y, s) /\ (Released(y) <=> Released(s))
  BY <1>1, <1>2, InviteApplied DEF ApprovalStates
<1>5. Released(s) => s.join.state = "Aborting" /\ Unstaged(disk'[n])
  BY <1>0, <1>1, Zenon DEF ReleaseInv, Seen, MovesOn
<1>6. GoesOn(node[n], node'[n], x) /\ GoesOn(node[n], node'[n], y)
  BY <1>0, <1>3, <1>4, Zenon DEF MovesOn, GoesOn, GateShut
<1>7. ViewInv(s, n)'
  BY <1>1, ViewKept, Zenon DEF MovesOn, BooksKept
<1>8. ViewInv(x, n)'
  BY <1>2, <1>3, <1>7, Zenon DEF ViewInv, ApprovalStates
<1>9. ASSUME Above(n, g.snap)' PROVE ViewInv(y, n)'
  <2>1. \A h \in issued' : h.op = g.op => h = g
    BY <1>2, Zenon DEF IssuesGrant, IssuedInv
  <2>2. \A h \in issued' : h.op \in y.applied => Above(n, h.snap)'
    BY <1>4, <1>7, <1>9, <2>1, Zenon DEF ViewInv
  <2> QED BY <1>2, <1>4, <1>7, <2>2, Zenon DEF ViewInv
<1> QED BY <1>3, <1>4, <1>5, <1>6, <1>8, <1>9, Zenon

\* The approval saved the invitation and nothing after it.
LEMMA ApprovalKept ==
    ASSUME JoinInvariant, NEW n \in Devices,
           NEW s, NEW g, NEW i, NEW x, NEW y, ApprovalStates(n, s, g, i, x, y),
           MovesOn(n), IssuesGrant(n, g), n \notin uncertain,
           UNCHANGED <<sent, uncertain, gated>>, NEW io \in Writes, Keep(n, x, io)
    PROVE  JoinInvariant'
<1>1. BooksKept
  BY ApprovalBooks, Zenon
<1>2. /\ x \in Sessions /\ Extends(x, s) /\ (Released(x) <=> Released(s))
      /\ x.join = s.join
      /\ Released(s) => s.join.state = "Aborting" /\ Unstaged(disk'[n])
      /\ GoesOn(node[n], node'[n], x)
      /\ ViewInv(x, n)'
  BY <1>1, ApprovalFields
<1>3. PairingFrame(n)
  BY Zenon DEF PairingFrame, MovesOn
<1>4. TypeOK' /\ SafeStep /\ (Unstaged(disk[n]) => Unstaged(disk'[n]))
  BY Zenon DEF MovesOn
<1>5. s = sessions[n] /\ s # None
  BY Zenon DEF ApprovalStates
<1> QED BY <1>1, <1>2, <1>3, <1>4, <1>5, KeepStep, Zenon

\* The approval was completed, and its grant is durable.
LEMMA ApprovalCompleted ==
    ASSUME JoinInvariant, NEW n \in Devices,
           NEW s, NEW g, NEW i, NEW x, NEW y, ApprovalStates(n, s, g, i, x, y),
           MovesOn(n), IssuesGrant(n, g), n \notin uncertain,
           UNCHANGED <<uncertain, gated>>, sent' = sent \cup {g.op}, Above(n, g.snap)',
           NEW io \in Writes, KeepTwice(n, x, y, io)
    PROVE  JoinInvariant'
<1>1. BooksKept
  BY ApprovalBooks, Zenon
<1>2. /\ x \in Sessions /\ y \in Sessions /\ Extends(x, s) /\ Extends(y, s)
      /\ (Released(x) <=> Released(s)) /\ (Released(y) <=> Released(s))
      /\ x.join = s.join /\ y.join = s.join
      /\ Released(s) => s.join.state = "Aborting" /\ Unstaged(disk'[n])
      /\ GoesOn(node[n], node'[n], y)
      /\ ViewInv(x, n)' /\ ViewInv(y, n)'
  BY <1>1, ApprovalFields
<1>3. PairingFrame(n)
  BY Zenon DEF PairingFrame, MovesOn
<1>4. TypeOK' /\ SafeStep
  BY Zenon DEF MovesOn
<1>5. ReleasedWell(x, disk'[n]) /\ ReleasedWell(y, disk'[n])
  BY <1>2, Zenon DEF ReleasedWell
<1>6. s = sessions[n] /\ s # None
  BY Zenon DEF ApprovalStates
<1> QED BY <1>1, <1>2, <1>3, <1>4, <1>5, <1>6, KeepTwiceStep, Zenon

\* The saves of an approval after the admission was handed off with outcome io.
ApprovalSaves(n, g, x, y, io) ==
    IF io = "ok" THEN (\E last \in Writes : KeepTwice(n, x, y, last)) /\ sent' = sent \cup {g.op}
    ELSE Keep(n, x, "ok") /\ UNCHANGED sent

\* The transaction of the approval, case by case.
LEMMA ApprovedCases ==
    ASSUME NEW n, NEW g \in Grants, NEW owned \in BOOLEAN, NEW changed \in BOOLEAN,
           sessions[n] # None, Approved(n, g, owned, changed)
    PROVE  /\ book' = book \cup {g.snap} /\ UNCHANGED <<uncertain, gated>>
           /\ \E s : \E i : \E x : \E y :
                /\ ApprovalStates(n, s, g, i, x, y)
                /\ \/ \E io \in Writes : Keep(n, x, io) /\ UNCHANGED <<disk, node, wire, faults, sent>>
                   \/ /\ changed
                      /\ \E io \in Outcomes(n, Plain(g.snap)) :
                           /\ HandedOff(n, node[n], Upsert(g.joiner), g.snap, io)
                           /\ ApprovalSaves(n, g, x, y, io)
                   \/ /\ ~changed /\ UNCHANGED <<disk, node, wire, faults>>
                      /\ ApprovalSaves(n, g, x, y, "ok")
<1>1. PICK i : i = [grant |-> g, state |-> "Prepared", owned |-> owned]
  BY Zenon
<1>2. PICK x : x = [sessions[n] EXCEPT !.invite = i]
  BY Zenon
<1>3. PICK y : y = [sessions[n] EXCEPT !.invite = None, !.applied = @ \cup {g.op}]
  BY Zenon
<1>5. i \in Invites /\ i.grant = g
  BY <1>1, Zenon DEF Invites, Phases
<1>6. ApprovalStates(n, sessions[n], g, i, x, y)
  BY <1>2, <1>3, <1>5, Zenon DEF ApprovalStates, InviteDone
<1> QED BY <1>1, <1>2, <1>3, <1>6, Zenon DEF Approved, ApprovalSaves

\* The transaction keeps the invariant.
LEMMA ApprovedStep ==
    ASSUME JoinInvariant, NEW n \in Devices, MayKeep(n), CanAcceptPairing(n),
           NEW g, IssuesGrant(n, g), NEW owned \in BOOLEAN, NEW changed \in BOOLEAN,
           ~changed => AtLeast(Rank(node[n].current), Rank(g.snap)),
           Approved(n, g, owned, changed), UNCHANGED <<acks, late>>
    PROVE  JoinInvariant'
<1>1. /\ TypeOK /\ RoundsCanFinish /\ ConfirmedOutsideGate /\ DeviceInv(node[n], disk[n])
  BY DaemonFacts, Zenon DEF DurabilityInvariant
<1>2. /\ sessions[n] # None /\ n \notin uncertain /\ Up(n) /\ node[n].pending = None
      /\ node[n].sync = "Participating"
  BY Zenon DEF MayKeep, Running, CanAcceptPairing
<1>3. g \in Grants /\ g.snap \in Snapshots /\ Upsert(g.joiner) \in Changes
  BY Zenon DEF IssuesGrant, Grants, Upsert, Changes
<1>4. node[n] \in Nodes /\ node[n].current \in Snapshots
  BY <1>1, <1>2, NodeFields, Zenon DEF Up, TypeOK
<1>5. /\ book' = book \cup {g.snap} /\ UNCHANGED <<uncertain, gated>>
      /\ \E s : \E i : \E x : \E y :
           /\ ApprovalStates(n, s, g, i, x, y)
           /\ \/ \E io \in Writes : Keep(n, x, io) /\ UNCHANGED <<disk, node, wire, faults, sent>>
              \/ /\ changed
                 /\ \E io \in Outcomes(n, Plain(g.snap)) :
                      /\ HandedOff(n, node[n], Upsert(g.joiner), g.snap, io)
                      /\ ApprovalSaves(n, g, x, y, io)
              \/ /\ ~changed /\ UNCHANGED <<disk, node, wire, faults>>
                 /\ ApprovalSaves(n, g, x, y, "ok")
  BY <1>2, <1>3, ApprovedCases, Zenon
<1>6. book' \in SUBSET Snapshots
  BY <1>1, <1>3, <1>5, Zenon DEF TypeOK
<1>7. ASSUME NEW s, NEW i, NEW x, NEW y, ApprovalStates(n, s, g, i, x, y), NEW io \in Writes,
             Keep(n, x, io), UNCHANGED <<disk, node, wire, faults, sent>>
      PROVE  JoinInvariant'
  <2>1. MovesOn(n)
    BY <1>6, <1>7, MovesIdle, Zenon
  <2> QED BY <1>2, <1>5, <1>7, <2>1, ApprovalKept, Zenon
<1>8. ASSUME NEW s, NEW i, NEW x, NEW y, ApprovalStates(n, s, g, i, x, y),
             MovesOn(n), Above(n, g.snap)', ApprovalSaves(n, g, x, y, "ok")
      PROVE  JoinInvariant'
  <2>1. PICK last \in Writes : KeepTwice(n, x, y, last)
    BY <1>8, Zenon DEF ApprovalSaves
  <2>2. sent' = sent \cup {g.op}
    BY <1>8, Zenon DEF ApprovalSaves
  <2> QED BY <1>2, <1>5, <1>8, <2>1, <2>2, ApprovalCompleted, Zenon
<1>9. ASSUME NEW s, NEW i, NEW x, NEW y, ApprovalStates(n, s, g, i, x, y),
             NEW io \in Outcomes(n, Plain(g.snap)),
             HandedOff(n, node[n], Upsert(g.joiner), g.snap, io), ApprovalSaves(n, g, x, y, io)
      PROVE  JoinInvariant'
  <2>1. GoesOn(node[n], node[n], sessions[n])
    BY GoesOnSame, Zenon
  <2>2. MovesOn(n) /\ (io = "ok" => disk'[n] = [file |-> Plain(g.snap), shadow |-> {}])
    BY <1>1, <1>2, <1>3, <1>4, <1>6, <1>9, <2>1, MovesHandedOff
  <2>3. CASE io = "ok"
    <3>0. Plain(g.snap) # None /\ Plain(g.snap).snap = g.snap
      BY <1>3, RuntimeAssumption DEF Plain
    <3>1. Copies(n)' = {Plain(g.snap)}
      BY <2>2, <2>3 DEF Copies
    <3>2. Above(n, g.snap)'
      BY <1>3, <3>0, <3>1, RankType, RankOrder, Zenon DEF Above
    <3> QED BY <1>8, <1>9, <2>2, <2>3, <3>2, Zenon
  <2>4. CASE io # "ok"
    <3>1. Keep(n, x, "ok") /\ UNCHANGED sent /\ "ok" \in Writes
      BY <1>9, <2>4, Zenon DEF ApprovalSaves, Writes
    <3> QED BY <1>2, <1>5, <1>9, <2>2, <3>1, ApprovalKept, Zenon
  <2> QED BY <2>3, <2>4, Zenon
<1>10. ASSUME NEW s, NEW i, NEW x, NEW y, ApprovalStates(n, s, g, i, x, y), ~changed,
              UNCHANGED <<disk, node, wire, faults>>, ApprovalSaves(n, g, x, y, "ok")
       PROVE  JoinInvariant'
  <2>1. MovesOn(n)
    BY <1>6, <1>10, MovesIdle, Zenon
  <2>2. Above(n, node[n].current)
    BY <1>1, <1>2, ConfirmedIsAbove, Zenon
  <2>3. Above(n, g.snap)'
    <3> SUFFICES ASSUME NEW c \in Copies(n) PROVE c # None /\ AtLeast(Rank(c.snap), Rank(g.snap))
      BY <1>10, Zenon DEF Above, Copies
    <3>1. c # None /\ AtLeast(Rank(c.snap), Rank(node[n].current))
      BY <2>2, Zenon DEF Above
    <3>2. c.snap \in Snapshots
      BY <1>1, <3>1 DEF TypeOK, Copies, Disks, Contents
    <3>3. AtLeast(Rank(node[n].current), Rank(g.snap))
      BY <1>10, Zenon
    <3> QED BY <1>3, <1>4, <3>1, <3>2, <3>3, RankType, RankOrder
  <2> QED BY <1>8, <1>10, <2>1, <2>3, Zenon
<1> QED BY <1>5, <1>7, <1>9, <1>10, Zenon

\* PairApprove for a new request.
LEMMA ApproveStep ==
    ASSUME JoinInvariant, NEW n \in Devices, NEW d \in Devices, Approve(n, d)
    PROVE  JoinInvariant'
<1>1. /\ MayKeep(n) /\ CanAcceptPairing(n) /\ NewOps # {}
      /\ UNCHANGED <<acks, late>>
  BY Zenon DEF Approve
<1>2. TypeOK /\ IssuedInv
  BY Zenon DEF JoinInvariant, DurabilityInvariant
<1>3. node[n].current \in Snapshots /\ late \in BOOLEAN /\ book \in SUBSET Snapshots
  BY <1>1, <1>2, NodeFields, Zenon DEF CanAcceptPairing, TypeOK
<1>4. PICK active : active = ActiveIn(node[n].current, d, late)
  BY Zenon
<1>6. PICK o : o = CHOOSE op \in NewOps : TRUE
  BY Zenon
<1>7. PICK t \in (IF active THEN {node[n].current}
                 ELSE ChangedSnapshots(book, node[n].current, Upsert(d), late)) :
        /\ Grantable(t, n, d)
        /\ Approved(n, [op |-> o, inviter |-> n,
                        joiner |-> d, snap |-> t], ~active, ~active)
  BY <1>4, <1>6, Zenon DEF Approve
<1>8. PICK g : g = [op |-> o, inviter |-> n, joiner |-> d, snap |-> t]
  BY Zenon
<1>9. t \in Snapshots /\ (active => t = node[n].current)
  BY <1>3, <1>7, ChangedSnapshotsType, Zenon DEF Upsert, Changes
<1>10. o \in NewOps /\ o \in Ops
  BY <1>1, <1>6, Zenon DEF NewOps
<1>11. /\ g \in Grants /\ g.op \in NewOps
       /\ g.inviter = n /\ g.joiner = d /\ g.snap = t
  BY <1>8, <1>9, <1>10, Zenon DEF Grants
<1>12. Grantable(t, n, d) /\ Approved(n, g, ~active, ~active)
  BY <1>7, <1>8, Zenon
<1>13. n \in DOMAIN t.members /\ d \in DOMAIN t.members
  BY <1>12, Zenon DEF Grantable, ActiveIn
<1>14. issued' = issued \cup {g}
  BY <1>12, Zenon DEF Approved
<1>15. IssuesGrant(n, g)
  BY <1>11, <1>13, <1>14, IssuesNew, Zenon DEF IssuesGrant
<1>16. active => AtLeast(Rank(node[n].current), Rank(g.snap))
  BY <1>3, <1>9, <1>11, RankType, RankOrder, Zenon
<1> QED BY <1>1, <1>12, <1>15, <1>16, ApprovedStep, Zenon

\* PairApprove again, for an enrollment that is still prepared.
LEMMA RetryApprovalStep ==
    ASSUME JoinInvariant, NEW n \in Devices, RetryApproval(n)
    PROVE  JoinInvariant'
<1>1. PICK s : s = sessions[n]
  BY Zenon
<1>2. /\ MayKeep(n) /\ CanAcceptPairing(n) /\ s # None /\ s.invite # None
      /\ UNCHANGED <<acks, late>>
  BY <1>1, Zenon DEF RetryApproval, MayKeep, Running
<1>3. s \in Sessions /\ ViewInv(s, n)
  BY <1>1, <1>2, DaemonFacts, Zenon DEF Seen
<1>4. PICK g : g = s.invite.grant
  BY Zenon
<1>5. /\ s.invite.owned \in BOOLEAN /\ g \in issued /\ g.inviter = n
  BY <1>2, <1>3, <1>4, Zenon DEF ViewInv, Sessions, Invites
<1>6. g \in Grants /\ IssuedInv
  BY <1>5, Zenon DEF JoinInvariant, JoinTypeOK
<1>7. PICK changed : changed = ~AtLeast(Rank(node[n].current), Minimum(g))
  BY Zenon
<1>8. changed \in BOOLEAN /\ (~changed => AtLeast(Rank(node[n].current), Rank(g.snap)))
  BY <1>7, Zenon DEF Minimum
<1>9. Approved(n, g, s.invite.owned, changed)
  BY <1>1, <1>4, <1>7, Zenon DEF RetryApproval
<1>10. issued' = issued \cup {g}
  BY <1>9, Zenon DEF Approved
<1>11. IssuesGrant(n, g)
  <2>1. issued' = issued
    BY <1>5, <1>10, Zenon
  <2>2. IssuedInv'
    BY <1>6, <2>1, Zenon DEF IssuedInv
  <2> QED BY <1>5, <1>6, <1>10, <2>2, Zenon DEF IssuesGrant
<1> QED BY <1>2, <1>5, <1>8, <1>9, <1>11, ApprovedStep, Zenon

-----------------------------------------------------------------------------
(* Cancellation.                                                           *)

\* The pairing state s of device n goes on to r, which releases what it aborts.
GoesToReleased(n, s, r) ==
    /\ s = sessions[n] /\ s # None /\ n \notin uncertain
    /\ r \in Sessions /\ Extends(r, s) /\ (r.join = None => s.join = None)
    /\ (Released(s) => Released(r)) /\ (Released(r) => r.join.state = "Aborting")
    /\ ViewInv(r, n)

\* The pairing state is saved again while the runtime moves on.
LEMMA WithdrawKept ==
    ASSUME JoinInvariant, NEW n \in Devices, NEW s, NEW r, GoesToReleased(n, s, r),
           MovesOn(n), UNCHANGED <<issued, sent, uncertain, gated>>,
           NEW io \in Writes, Keep(n, s, io)
    PROVE  JoinInvariant'
<1>1. s = sessions[n] /\ s # None /\ n \notin uncertain
  BY Zenon DEF GoesToReleased
<1>2. s \in Sessions /\ ViewInv(s, n) /\ ReleaseInv(s, vault[n], disk[n])
  BY <1>1, DaemonFacts, Zenon DEF Seen
<1>3. TypeOK' /\ SafeStep /\ PairingFrame(n) /\ GoesOn(node[n], node'[n], s)
      /\ (Unstaged(disk[n]) => Unstaged(disk'[n]))
  BY <1>1, Zenon DEF MovesOn, PairingFrame
<1>4. BooksKept
  BY <1>3, BooksSame, Zenon
<1>5. ViewInv(s, n)'
  BY <1>2, <1>3, <1>4, ViewKept, Zenon DEF BooksKept
<1>6. Released(s) => s.join.state = "Aborting"
  BY <1>1, <1>2, Zenon DEF ReleaseInv, Seen
<1> QED BY <1>1, <1>2, <1>3, <1>4, <1>5, <1>6, ExtendsSelf, KeepStep, Zenon

\* The admission is released, and the enrollment floor was gone for good before.
LEMMA WithdrawReleased ==
    ASSUME JoinInvariant, NEW n \in Devices, NEW s, NEW r, GoesToReleased(n, s, r),
           MovesOn(n), Unstaged(disk[n]), UNCHANGED <<issued, sent, uncertain, gated>>,
           NEW io \in Writes, KeepTwice(n, s, r, io)
    PROVE  JoinInvariant'
<1>1. /\ s = sessions[n] /\ s # None /\ n \notin uncertain
      /\ r \in Sessions /\ Extends(r, s) /\ (r.join = None => s.join = None)
      /\ (Released(s) => Released(r)) /\ (Released(r) => r.join.state = "Aborting")
      /\ ViewInv(r, n)
  BY Zenon DEF GoesToReleased
<1>2. s \in Sessions /\ ViewInv(s, n) /\ ReleaseInv(s, vault[n], disk[n])
  BY <1>1, DaemonFacts, Zenon DEF Seen
<1>3. TypeOK' /\ SafeStep /\ PairingFrame(n) /\ Unstaged(disk'[n])
  BY <1>1, Zenon DEF MovesOn, PairingFrame
<1>4. BooksKept
  BY <1>3, BooksSame, Zenon
<1>5. ViewInv(s, n)' /\ ViewInv(r, n)'
  BY <1>1, <1>2, <1>3, <1>4, ViewKept, Zenon DEF BooksKept
<1>6. ReleasedWell(s, disk'[n]) /\ ReleasedWell(r, disk'[n])
  BY <1>1, <1>2, <1>3, Zenon DEF ReleasedWell, ReleaseInv, Seen
<1>7. GoesOn(node[n], node'[n], r)
  BY <1>1, Zenon DEF MovesOn, GoesOn, GateShut
<1> QED BY <1>1, <1>2, <1>3, <1>4, <1>5, <1>6, <1>7, ExtendsSelf, KeepTwiceStep, Zenon

\* The common part of both cleanups.
LEMMA WithdrawStep ==
    ASSUME JoinInvariant, NEW n \in Devices, Up(n), NEW s, NEW r, GoesToReleased(n, s, r),
           NEW nd \in Nodes, DeviceInv(nd, disk[n]), nd.pending = node[n].pending,
           GoesOn(node[n], nd, sessions[n]), NEW subject \in Devices, NEW there \in BOOLEAN,
           Withdraw(n, nd, subject, there, r),
           UNCHANGED <<acks, late, uncertain, issued, sent, gated>>
    PROVE  JoinInvariant'
<1> DEFINE removal == [op |-> "RemoveMember", subject |-> subject]
           settled == nd.floor = None /\ nd.sync # "ResyncRequired"
<1>1. s = sessions[n] /\ s # None /\ n \notin uncertain
  BY Zenon DEF GoesToReleased
<1>2. \/ \E io \in Writes \ {"ok"} :
           Keep(n, s, io) /\ UNCHANGED <<book, disk, node, wire, faults>>
      \/ Keep(n, s, "ok") /\ Set(n, nd) /\ UNCHANGED <<book, disk, wire, faults>>
      \/ /\ settled
         /\ \E io \in Writes : KeepTwice(n, s, r, io)
         /\ Set(n, nd) /\ UNCHANGED <<book, disk, wire, faults>>
      \/ /\ settled /\ MaySign(n)
         /\ \E t \in ChangedSnapshots(book, nd.current, removal, late) :
            \E io \in Outcomes(n, Plain(t)) :
              /\ HandedOff(n, nd, removal, t, io) /\ Record(t, io)
              /\ IF io = "ok" THEN \E last \in Writes : KeepTwice(n, s, r, last)
                              ELSE Keep(n, s, "ok")
  BY <1>1, Zenon DEF Withdraw
<1>3. TypeOK /\ JoinTypeOK /\ "ok" \in Writes
  BY DaemonFacts, Zenon DEF Writes
<1>4. ASSUME settled PROVE Unstaged(disk[n])
  BY <1>4, DownAssumption, Zenon DEF Unstaged, Held, DeviceInv
<1>5. ASSUME Set(n, nd), UNCHANGED <<book, disk, wire, faults>> PROVE MovesOn(n)
  BY <1>5, QuietNode, Zenon DEF MovesOn
<1>6. ASSUME NEW io \in Writes, Keep(n, s, io), UNCHANGED <<book, disk, node, wire, faults>>
      PROVE  JoinInvariant'
  BY <1>1, <1>6, SaveAgainStep, Zenon DEF vars
<1>7. ASSUME Keep(n, s, "ok"), Set(n, nd), UNCHANGED <<book, disk, wire, faults>>
      PROVE  JoinInvariant'
  BY <1>3, <1>5, <1>7, WithdrawKept, Zenon
<1>8. ASSUME settled, NEW io \in Writes, KeepTwice(n, s, r, io), Set(n, nd),
             UNCHANGED <<book, disk, wire, faults>>
      PROVE  JoinInvariant'
  BY <1>4, <1>5, <1>8, WithdrawReleased, Zenon
<1>9. ASSUME settled, MaySign(n), NEW t \in ChangedSnapshots(book, nd.current, removal, late),
             NEW io \in Outcomes(n, Plain(t)), HandedOff(n, nd, removal, t, io), Record(t, io),
             IF io = "ok" THEN \E last \in Writes : KeepTwice(n, s, r, last)
                          ELSE Keep(n, s, "ok")
      PROVE  JoinInvariant'
  <2>1. removal \in Changes
    BY Zenon DEF Changes
  <2>2. nd.pending = None
    BY <1>9, Zenon DEF MaySign
  <2>3. nd.current \in Snapshots /\ late \in BOOLEAN /\ book \in SUBSET Snapshots
    BY <1>3, Zenon DEF Nodes, TypeOK
  <2> HIDE DEF removal
  <2>4. t \in Snapshots
    BY <1>9, <2>1, <2>3, ChangedSnapshotsType, Zenon
  <2>5. book' \in SUBSET Snapshots
    BY <1>3, <1>9, <2>4, RecordType, Zenon
  <2>6. MovesOn(n)
    <3>1. UNCHANGED <<acks, late>>
      BY Zenon
    <3> QED BY <1>9, <2>1, <2>2, <2>4, <2>5, <3>1, MovesHandedOff, Zenon
  <2>7. CASE io = "ok"
    <3>1. PICK last \in Writes : KeepTwice(n, s, r, last)
      BY <1>9, <2>7, Zenon
    <3> QED BY <1>4, <1>9, <2>6, <3>1, WithdrawReleased, Zenon
  <2>8. CASE io # "ok"
    BY <1>3, <1>9, <2>6, <2>8, WithdrawKept, Zenon
  <2> QED BY <2>7, <2>8, Zenon
<1> HIDE DEF removal, settled
<1> QED BY <1>2, <1>6, <1>7, <1>8, <1>9, Zenon

\* cleanup_joiner_abort.
LEMMA AbortJoinStep ==
    ASSUME JoinInvariant, NEW n \in Devices, AbortJoin(n)
    PROVE  JoinInvariant'
<1>1. PICK s : s = sessions[n]
  BY Zenon
<1>2. PICK r : r = [s EXCEPT !.join.ownership = "Released"]
  BY Zenon
<1>3. /\ Up(n) /\ s # None /\ n \notin uncertain /\ s.join # None /\ s.join.state = "Aborting"
      /\ s.join.ownership # "Released"
      /\ UNCHANGED <<acks, late, uncertain, issued, sent, gated>>
  BY <1>1, Zenon DEF AbortJoin, MayKeep, Running
<1>4. PICK there \in BOOLEAN : Withdraw(n, Gated(node[n]), n, there, r)
  <2> DEFINE members == node[n].current.members
             here == /\ s.join.ownership = "Fresh"
                     /\ n \in DOMAIN members
                     /\ members[n].incarnation = s.join.grant.snap.members[n].incarnation
  <2> HIDE DEF here
  <2> QED BY <1>1, <1>2, Zenon DEF AbortJoin
<1>5. /\ TypeOK /\ DeviceInv(node[n], disk[n]) /\ s \in Sessions /\ ViewInv(s, n)
  BY <1>1, <1>3, DaemonFacts, Zenon DEF Seen
<1>6. GoesToReleased(n, s, r)
  <2> DEFINE j == [s.join EXCEPT !.ownership = "Released"]
  <2>1. s.join \in Joins
    BY <1>3, <1>5, Zenon DEF Sessions
  <2>2. /\ j \in Joins /\ j.grant = s.join.grant /\ j.state = "Aborting"
        /\ j.ownership = "Released"
    BY <1>3, <2>1, Zenon DEF Joins
  <2>3. r = [s EXCEPT !.join = j]
    BY <1>2, Zenon
  <2> HIDE DEF j
  <2>4. /\ r \in Sessions /\ r.join = j /\ r.invite = s.invite
        /\ r.applied = s.applied /\ r.aborted = s.aborted
    BY <1>5, <2>2, <2>3, Zenon DEF Sessions
  <2>5. j # None
    BY <2>2, SessionAssumption, Zenon
  <2>6. Extends(r, s) /\ Released(r)
    BY <2>2, <2>4, <2>5, Zenon DEF Extends, Carries, Pends, Closed, Released
  <2>7. ViewInv(r, n)
    BY <1>3, <1>5, <2>2, <2>4, Zenon DEF ViewInv
  <2> QED BY <1>1, <1>3, <2>2, <2>4, <2>5, <2>6, <2>7, Zenon DEF GoesToReleased
<1>7. node[n] \in Nodes
  BY <1>3, <1>5, Zenon DEF Up, TypeOK
<1>8. PICK nd : nd = Gated(node[n])
  BY Zenon
<1>9. /\ nd \in Nodes /\ nd.blocked /\ nd.forwarder.sync = "ResyncRequired"
      /\ nd.pending = node[n].pending
  <2>1. /\ nd \in Nodes /\ nd.blocked /\ nd.pending = node[n].pending
        /\ nd.forwarder = [snap |-> node[n].current, sync |-> "ResyncRequired"]
    BY <1>7, <1>8, GatedFields, Zenon
  <2> QED BY <2>1
<1>10. DeviceInv(nd, disk[n])
  BY <1>5, <1>7, <1>8, GateDevice, Zenon
<1>12. Withdraw(n, nd, n, there, r)
  BY <1>4, <1>8, Zenon
<1> QED BY <1>1, <1>3, <1>6, <1>9, <1>10, <1>12, WithdrawStep, Zenon DEF GoesOn, GateShut, Up

\* The inviter's part of cleanup_pending_pairing_aborts_with.
LEMMA AbortInviteStep ==
    ASSUME JoinInvariant, NEW n \in Devices, AbortInvite(n)
    PROVE  JoinInvariant'
<1>1. PICK s : s = sessions[n]
  BY Zenon
<1>2. PICK r : r = [s EXCEPT !.invite.owned = FALSE]
  BY Zenon
<1>3. /\ Up(n) /\ s # None /\ n \notin uncertain /\ s.invite # None
      /\ UNCHANGED <<acks, late, uncertain, issued, sent, gated>>
  BY <1>1, Zenon DEF AbortInvite, MayKeep, Running
<1>4. PICK there \in BOOLEAN : Withdraw(n, node[n], s.invite.grant.joiner, there, r)
  <2> DEFINE g == s.invite.grant
             members == node[n].current.members
             here == /\ AtLeast(Rank(node[n].current), Minimum(g))
                     /\ g.joiner \in DOMAIN members
                     /\ members[g.joiner].incarnation = g.snap.members[g.joiner].incarnation
  <2>1. Withdraw(n, node[n], g.joiner, here, r)
    BY <1>1, <1>2, Zenon DEF AbortInvite
  <2>2. here \in BOOLEAN
    BY Zenon DEF AtLeast, Less
  <2> HIDE DEF here
  <2> QED BY <2>1, <2>2, Zenon
<1>5. /\ TypeOK /\ DeviceInv(node[n], disk[n]) /\ s \in Sessions /\ ViewInv(s, n)
      /\ ReleaseInv(s, vault[n], disk[n])
  BY <1>1, <1>3, DaemonFacts, Zenon DEF Seen
<1>6. s.invite \in Invites /\ s.invite.grant.joiner \in Devices
  BY <1>3, <1>5, Zenon DEF Sessions, Invites, Grants
<1>7. GoesToReleased(n, s, r)
  <2> DEFINE i == [s.invite EXCEPT !.owned = FALSE]
  <2>1. i \in Invites /\ i.grant = s.invite.grant
    BY <1>6, Zenon DEF Invites
  <2>2. r = [s EXCEPT !.invite = i]
    BY <1>2, Zenon
  <2> HIDE DEF i
  <2>3. /\ r \in Sessions /\ Extends(r, s) /\ (Released(r) <=> Released(s))
        /\ r.join = s.join /\ r.invite = i /\ r.applied = s.applied
    BY <1>5, <2>1, <2>2, InviteFields
  <2>4. Released(r) => r.join.state = "Aborting"
    BY <1>1, <1>3, <1>5, <2>3, Zenon DEF ReleaseInv, Seen
  <2>5. ViewInv(r, n)
    BY <1>3, <1>5, <2>1, <2>3, Zenon DEF ViewInv
  <2> QED BY <1>1, <1>3, <2>3, <2>4, <2>5, Zenon DEF GoesToReleased
<1>8. node[n] \in Nodes
  BY <1>3, <1>5, Zenon DEF Up, TypeOK
<1>9. GoesOn(node[n], node[n], sessions[n]) /\ node[n].pending = node[n].pending
  BY GoesOnSame, Zenon
<1> QED BY <1>3, <1>4, <1>5, <1>6, <1>7, <1>8, <1>9, WithdrawStep, Zenon

-----------------------------------------------------------------------------
(* The theorems.                                                           *)

\* Every step of the system keeps the invariant.
LEMMA JoinStep ==
    ASSUME JoinInvariant, [JoinNext]_allVars
    PROVE  JoinInvariant'
<1>1. CASE UNCHANGED allVars
  <2>1. UNCHANGED vars /\ UNCHANGED joinVars
    BY <1>1, Zenon DEF allVars
  <2>2. TypeOK' /\ SafeStep
    BY <2>1, UnchangedSafe, Zenon
  <2>3. DurabilityInvariant'
    BY <2>2, SafeKeepsDurability, Zenon DEF JoinInvariant
  <2>4. UNCHANGED <<node, disk, sessions, vault, uncertain, issued, sent, gated, glitches>>
    BY <2>1, Zenon DEF vars, joinVars
  <2>5. BooksKept
    BY <2>2, <2>4, BooksSame, Zenon
  <2>6. JoinTypeOK'
    BY <2>4, Zenon DEF JoinInvariant, JoinTypeOK
  <2>7. \A n \in Devices :
          PairInv(node[n], sessions[n], vault[n], disk[n], GatedOps(n), n \in uncertain)'
    BY <2>4, Zenon DEF JoinInvariant, GatedOps, PairInv, GateInv, ReleaseInv, UncertainInv
  <2>8. \A n \in Devices : \A x \in Seen(sessions[n], vault[n])' : ViewInv(x, n)'
    BY <2>2, <2>4, <2>5, ViewKept, Zenon DEF JoinInvariant, Seen, BooksKept
  <2> QED BY <2>3, <2>5, <2>6, <2>7, <2>8, Zenon DEF JoinInvariant, BooksKept
<1>2. CASE MembershipStep
  BY <1>2, MembershipStepKeeps, Zenon
<1>4. CASE \E n \in Devices, g \in issued : AcceptJoiner(n, g)
  BY <1>4, AcceptJoinerStep, Zenon
<1>5. ASSUME NEW n \in Devices,
             \/ RetryApproval(n) \/ StageAgain(n)
             \/ FinalizeJoiner(n) \/ ReconcileCompletion(n)
             \/ CancelJoin(n) \/ CancelInvite(n) \/ AbortJoin(n) \/ AbortInvite(n)
             \/ FinishAbort(n) \/ ReleaseBarrier(n)
             \/ Start(n) \/ StopDaemon(n) \/ PowerOff(n)
      PROVE  JoinInvariant'
  BY <1>5, RetryApprovalStep, StageAgainStep, FinalizeJoinerStep, ReconcileCompletionStep,
     CancelJoinStep, CancelInviteStep, AbortJoinStep, AbortInviteStep, FinishAbortStep,
     ReleaseBarrierStep, StartStep, StopDaemonStep, PowerOffStep, Zenon
<1> QED BY <1>1, <1>2, <1>4, <1>5, ApproveStep, Zenon DEF JoinNext

\* It holds initially.
LEMMA JoinInitially == JoinInit => JoinInvariant
<1> SUFFICES ASSUME JoinInit PROVE JoinInvariant
  BY Zenon
<1>1. DurabilityInvariant /\ node = [d \in Devices |-> None]
  BY DurabilityInit, Zenon DEF Init, JoinInit
<1>2. /\ sessions = [d \in Devices |-> None] /\ uncertain = {} /\ issued = {} /\ sent = {}
      /\ vault = [d \in Devices |-> [file |-> NoSessions, shadow |-> {}]]
      /\ gated = {} /\ glitches = 0
  BY Zenon DEF JoinInit
<1>3. NoSessions \in Sessions /\ NoSessions.join = None /\ NoSessions.invite = None
      /\ NoSessions.applied = {}
  BY Zenon DEF NoSessions, Sessions
<1>4. JoinTypeOK
  BY <1>2, <1>3, JoinAssumption DEF JoinTypeOK, Vaults
<1>5. IssuedInv /\ SentInv
  BY <1>2, Zenon DEF IssuedInv, SentInv
<1>6. ASSUME NEW n \in Devices
      PROVE  /\ PairInv(node[n], sessions[n], vault[n], disk[n], GatedOps(n), n \in uncertain)
             /\ \A x \in Seen(sessions[n], vault[n]) : ViewInv(x, n)
  <2>1. node[n] = None /\ sessions[n] = None /\ vault[n] = [file |-> NoSessions, shadow |-> {}]
        /\ n \notin uncertain /\ GatedOps(n) = {}
    BY <1>1, <1>2, Zenon DEF GatedOps
  <2>2. Seen(sessions[n], vault[n]) = {NoSessions} /\ Held(vault[n]) = {NoSessions}
    BY <2>1 DEF Seen, Held
  <2>3. GateInv(node[n], sessions[n], vault[n], GatedOps(n))
    BY <2>1, Zenon DEF GateInv
  <2>4. ReleaseInv(sessions[n], vault[n], disk[n])
    BY <1>3, <2>1, <2>2, Zenon DEF ReleaseInv, Released
  <2>5. ViewInv(NoSessions, n)
    BY <1>3, Zenon DEF ViewInv
  <2> QED BY <2>1, <2>2, <2>3, <2>4, <2>5, Zenon DEF PairInv
<1> QED BY <1>1, <1>4, <1>5, <1>6, Zenon DEF JoinInvariant

\* In every reachable state, whatever writes of either file fail and whenever the
\* daemon stops or power is lost: the pairing state of a device, its pairing file, its
\* membership file and its gate agree (finalize_joiner, stage_prepared,
\* cleanup_pending_pairing_aborts_with, approve_checkpoint_pairing).
THEOREM JoinIsConsistent == JoinSpec => []JoinInvariant
<1>1. JoinInvariant /\ [JoinNext]_allVars => JoinInvariant'
  BY JoinStep, Zenon
<1> QED BY <1>1, JoinInitially, PTL DEF JoinSpec

\* finish_checkpoint_join_with, reconcile_checkpoint_completion_with and startup:
\* a device that a join gated carries packets only after no copy of its pairing
\* file could reopen the join.
THEOREM GateOutlives == JoinSpec => []GateOutlivesTransaction
<1>1. JoinInvariant => GateOutlivesTransaction
  <2> SUFFICES ASSUME JoinInvariant, NEW p \in gated, Live(p[1]), NEW c \in VaultCopies(p[1])
               PROVE  p[2] \in Closed(c)
    BY Zenon DEF GateOutlivesTransaction
  <2>1. PICK n \in Devices : \E op \in Ops : p = <<n, op>>
    BY DEF JoinInvariant, JoinTypeOK
  <2>2. PICK op \in Ops : p = <<n, op>>
    BY <2>1, Zenon
  <2>3. op \in GatedOps(n) /\ p[1] = n /\ p[2] = op
    BY <2>2, Zenon DEF GatedOps
  <2>4. node[n] # None /\ node[n].forwarder.sync = "Participating"
    BY <2>3, Zenon DEF Live, Up
  <2>5. GateInv(node[n], sessions[n], vault[n], GatedOps(n))
    BY DaemonFacts, Zenon
  <2>6. c \in Seen(sessions[n], vault[n])
    BY <2>3, Zenon DEF VaultCopies, Seen, Held
  <2>7. ~node[n].blocked
    BY <2>4, <2>5, Zenon DEF GateInv
  <2> QED BY <2>3, <2>4, <2>5, <2>6, <2>7, Zenon DEF GateInv
<1> QED BY <1>1, JoinIsConsistent, PTL

\* finalize_joiner and approve_checkpoint_pairing: what a pairing file shows as
\* applied rests on a roster its device cannot lose.
THEOREM AppliedStaysDurable == JoinSpec => []AppliedIsDurable
<1>1. JoinInvariant => AppliedIsDurable
  <2> SUFFICES ASSUME JoinInvariant, NEW n \in Devices, NEW v \in VaultCopies(n),
                      NEW g \in issued, g.op \in v.applied, NEW c \in Copies(n)
               PROVE  c # None /\ AtLeast(Rank(c.snap), Minimum(g))
    BY Zenon DEF AppliedIsDurable
  <2> QED BY DaemonFacts, Zenon DEF ViewInv, Above, Minimum, VaultCopies, Seen, Held
<1> QED BY <1>1, JoinIsConsistent, PTL

\* approve_checkpoint_pairing: no crash makes the inviter forget an admission whose
\* response a joiner can fetch.
THEOREM GrantsStayDurable == JoinSpec => []GrantsAreDurable
<1>1. JoinInvariant => GrantsAreDurable
  BY Zenon DEF JoinInvariant, SentInv, GrantsAreDurable, Above, Minimum
<1> QED BY <1>1, JoinIsConsistent, PTL

\* release_idle_barrier never ends the daemon over a staged enrollment.
THEOREM BarrierIsReleased == JoinSpec => []BarrierCanBeReleased
<1>1. JoinInvariant => BarrierCanBeReleased
  <2> SUFFICES ASSUME JoinInvariant, NEW n \in Devices, Up(n), node[n].blocked,
                      sessions[n].join = None
               PROVE  node[n].floor = None
    BY Zenon DEF BarrierCanBeReleased
  <2> QED BY DaemonFacts, Zenon DEF GateInv, Up
<1> QED BY <1>1, JoinIsConsistent, PTL

\* The steps of the joiner and of the inviter do not weaken what the membership
\* runtime promises: with pairing too, a forwarder that authorizes packets applies the
\* roster that is confirmed on disk (stage_prepared, finalize_joiner).
THEOREM LiveAuthorityWithJoins == JoinSpec => []LiveAuthorityIsDurable
<1>1. JoinInvariant => LiveAuthorityIsDurable
  BY LiveIsDurable, Zenon DEF JoinInvariant
<1> QED BY <1>1, JoinIsConsistent, PTL
=============================================================================
