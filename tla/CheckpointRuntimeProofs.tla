----------------------- MODULE CheckpointRuntimeProofs -----------------------
(***************************************************************************)
(* Proofs about the checkpoint runtime, for any number of devices, forks,  *)
(* revisions and faults.                                                   *)
(***************************************************************************)
EXTENDS CheckpointRuntime, TLAPS

-----------------------------------------------------------------------------
(* Ranks.                                                                  *)

\* The rank of a snapshot is a triple of naturals, since a roster has a count.
LEMMA RankType ==
    ASSUME NEW s \in Snapshots
    PROVE  Rank(s) \in Ranks
<1>1. s.members \in Rosters
  BY Zenon DEF Snapshots
<1>2. Cardinality(DOMAIN s.members) \in Nat
  <2>1. DOMAIN s.members \in SUBSET Devices
    BY <1>1, Zenon DEF Rosters
  <2> QED BY <2>1, CheckpointAssumption, Zenon
<1>3. s.revision \in Nat /\ s.digest \in Nat
  BY CheckpointAssumption DEF Snapshots, Digests
<1> QED BY <1>2, <1>3, Zenon DEF Rank, Ranks

\* SnapshotRank is a total order.
LEMMA RankOrder ==
    ASSUME NEW r \in Ranks, NEW t \in Ranks, NEW u \in Ranks
    PROVE  /\ AtLeast(r, r)
           /\ AtLeast(r, t) /\ AtLeast(t, u) => AtLeast(r, u)
           /\ Less(r, t) => AtLeast(t, r)
           /\ AtLeast(r, t) /\ AtLeast(t, r) => r = t
BY DEF Ranks, AtLeast, Less

\* collect_offer's choice is one of its arguments and ranks below neither.
LEMMA HigherIsUpperBound ==
    ASSUME NEW s \in Snapshots, NEW t \in Snapshots
    PROVE  /\ Higher(s, t) \in {s, t}
           /\ AtLeast(Rank(Higher(s, t)), Rank(s))
           /\ AtLeast(Rank(Higher(s, t)), Rank(t))
<1>1. Rank(s) \in Ranks /\ Rank(t) \in Ranks
  BY RankType, Zenon
<1>2. Less(Rank(t), Rank(s)) => AtLeast(Rank(s), Rank(t))
  BY <1>1, RankOrder, Zenon
<1>3. AtLeast(Rank(s), Rank(s)) /\ AtLeast(Rank(t), Rank(t))
  BY <1>1, RankOrder, Zenon
<1> QED BY <1>2, <1>3, Zenon DEF Higher, AtLeast

-----------------------------------------------------------------------------
(* Changed snapshots.                                                      *)

\* Any function from devices to entries is a roster.
LEMMA RosterIntro ==
    ASSUME NEW M \in SUBSET Devices, NEW f \in [M -> Entries]
    PROVE  f \in Rosters
BY Zenon DEF Rosters

\* The domain and the values of a roster.
LEMMA RosterElim ==
    ASSUME NEW f \in Rosters
    PROVE  DOMAIN f \in SUBSET Devices /\ f \in [DOMAIN f -> Entries]
BY Zenon DEF Rosters

\* A change turns a roster into a roster.
LEMMA ChangedMembersType ==
    ASSUME NEW s \in Snapshots, NEW change \in Changes, NEW isLate \in BOOLEAN
    PROVE  ChangedMembers(s, change, isLate) \in Rosters
<1> DEFINE D == DOMAIN s.members
<1>1. D \in SUBSET Devices /\ s.members \in [D -> Entries]
  <2>1. s.members \in Rosters
    BY Zenon DEF Snapshots
  <2> QED BY <2>1, RosterElim, Zenon
<1>2. CASE change.op = "UpsertMember"
  <2>1. change.subject \in Devices
    BY <1>2 DEF Changes
  <2>2. Boundary(s) \in Incarnations
    BY CheckpointAssumption DEF Boundary, Snapshots, Incarnations, Digests
  <2>3. \A d \in D : s.members[d].incarnation \in Incarnations
    BY <1>1, Zenon DEF Entries
  <2>4. AdmissionIncarnation(s, change.subject) \in Incarnations
    BY <2>2, <2>3, Zenon DEF AdmissionIncarnation
  <2>5. [incarnation |-> AdmissionIncarnation(s, change.subject), expires |-> FALSE]
          \in Entries
    BY <2>4, Zenon DEF Entries
  <2>6. Upserted(s, change.subject) \in [D \cup {change.subject} -> Entries]
    BY <2>5, <1>1, Zenon DEF Upserted
  <2>7. D \cup {change.subject} \in SUBSET Devices
    BY <1>1, <2>1, Zenon
  <2> QED BY <1>2, <2>6, <2>7, RosterIntro, Zenon DEF ChangedMembers
<1>3. CASE change.op # "UpsertMember"
  <2> DEFINE K == Kept(s, change, isLate)
  <2>1. K \in SUBSET D
    BY Zenon DEF Kept
  <2>2. ChangedMembers(s, change, isLate) \in [K -> Entries]
    BY <1>1, <1>3, <2>1, Zenon DEF ChangedMembers
  <2> QED BY <1>1, <2>1, <2>2, RosterIntro, Zenon
<1> QED BY <1>2, <1>3, Zenon

\* changed_snapshot yields snapshots that name their parent and outrank it.
LEMMA ChangedSnapshotsType ==
    ASSUME NEW B \in SUBSET Snapshots, NEW s \in Snapshots, NEW change \in Changes,
           NEW isLate \in BOOLEAN,
           NEW t \in ChangedSnapshots(B, s, change, isLate)
    PROVE  /\ t \in Snapshots
           /\ t.revision = s.revision + 1
           /\ t.parent = s.digest
           /\ Less(Rank(s), Rank(t))
<1> DEFINE members == ChangedMembers(s, change, isLate)
<1>1. members \in Rosters
  BY ChangedMembersType, Zenon
<1> HIDE DEF members
<1>2. s.revision + 1 \in 0..MaxRevision /\ s.digest \in 0..MaxForks
  <2>1. s.revision \in Nat /\ s.digest \in Digests
    BY CheckpointAssumption DEF Snapshots
  <2>2. ~(s.revision + 1 > MaxRevision)
    BY Zenon DEF ChangedSnapshots
  <2> QED BY <2>1, <2>2, CheckpointAssumption DEF Digests
<1>3. t \in Digested(B, s.revision + 1, s.digest, members)
  BY Zenon DEF ChangedSnapshots, members
<1>4. /\ t \in Snapshots
      /\ t.revision = s.revision + 1
      /\ t.parent = s.digest
  BY <1>1, <1>2, <1>3, Zenon DEF Digested, Snapshots
<1>5. s.revision < t.revision
  BY <1>4, CheckpointAssumption DEF Snapshots
<1> QED BY <1>4, <1>5, Zenon DEF Less, Rank

-----------------------------------------------------------------------------
(* Types.                                                                  *)

\* participation() is one of two states, never a gated one.
LEMMA ParticipationType ==
    ASSUME NEW n, NEW s
    PROVE  Participation(s, n, late) \in {"Participating", "Excluded"}
BY Zenon DEF Participation

\* A new round is a round.
LEMMA NewRoundType ==
    ASSUME NEW s \in Snapshots
    PROVE  NewRound(s) \in Rounds
BY Zenon DEF NewRound, Rounds

\* CheckpointRuntime::restore builds a device state.
LEMMA RestoredType ==
    ASSUME NEW content \in Contents, NEW blocked \in BOOLEAN,
           NEW round \in Rounds \cup {None}
    PROVE  Restored(content, blocked, round) \in Nodes
BY Zenon DEF Restored, Nodes, Contents, Projections

\* persist_then_install builds a device state.
LEMMA InstalledType ==
    ASSUME NEW n, NEW nd \in Nodes, NEW s \in Snapshots
    PROVE  Installed(n, nd, s) \in Nodes
<1>1. Participation(s, n, late) \in {"Participating", "Excluded"}
  BY ParticipationType, Zenon
<1>2. Projection(n, s, nd.blocked) \in Projections
  BY <1>1, Zenon DEF Projection, Projections
<1> QED BY <1>1, <1>2, Zenon DEF Installed, Nodes

\* install_gated builds a device state.
LEMMA InstalledGatedType ==
    ASSUME NEW nd \in Nodes, NEW s \in Snapshots
    PROVE  InstalledGated(nd, s) \in Nodes
BY Zenon DEF InstalledGated, Nodes, Projections

\* The file after a save: replaced, untouched, or replaced without a
\* confirmation, and never by something that ranks below it.
LEMMA SaveEffect ==
    ASSUME TypeOK, NEW n \in Devices, NEW s \in Snapshots,
           NEW io \in Outcomes(n, Plain(s)), SaveTo(n, Plain(s), io)
    PROVE  /\ disk' \in [Devices -> Disks]
           /\ faults' \in 0..MaxFaults
           /\ io \in {"ok", "failed", "uncertain"}
           /\ \A m \in Devices \ {n} : disk'[m] = disk[m]
           /\ io = "ok" => disk'[n] = [file |-> Plain(s), shadow |-> {}]
           /\ io = "failed" => disk'[n] = disk[n]
           /\ io = "uncertain" =>
                disk'[n] = [file |-> Plain(s),
                            shadow |-> disk[n].shadow \cup {disk[n].file}]
           /\ io # "failed" /\ disk[n].file # None =>
                AtLeast(Rank(s), Rank(disk[n].file.snap))
<1>1. io \in {"ok", "failed", "uncertain"}
  BY Zenon DEF Outcomes
<1>2. Plain(s) \in Contents
  BY Zenon DEF Plain, Contents
<1>3. disk[n] \in Disks
  BY Zenon DEF TypeOK
<1>4. Saved(disk[n], Plain(s), io) \in Disks
  BY <1>2, <1>3, Zenon DEF Saved, Disks
<1>5. disk' = [disk EXCEPT ![n] = Saved(disk[n], Plain(s), io)]
  BY Zenon DEF SaveTo
<1>6. disk' \in [Devices -> Disks]
  BY <1>4, <1>5, Zenon DEF TypeOK
<1>7. faults' \in 0..MaxFaults
  BY RuntimeAssumption DEF TypeOK, SaveTo, Charge
<1>8. disk'[n] = Saved(disk[n], Plain(s), io) /\ \A m \in Devices \ {n} : disk'[m] = disk[m]
  BY <1>5, Zenon DEF TypeOK
<1>9. io # "failed" /\ disk[n].file # None => AtLeast(Rank(s), Rank(disk[n].file.snap))
  BY Zenon DEF Outcomes, Storable, Plain
<1> QED BY <1>1, <1>6, <1>7, <1>8, <1>9, Zenon DEF Saved

\* Setting one device keeps the type of all.
LEMMA SetType ==
    ASSUME TypeOK, NEW n \in Devices, NEW nd \in Nodes \cup {None}, Set(n, nd)
    PROVE  /\ node' \in [Devices -> Nodes \cup {None}]
           /\ node'[n] = nd
           /\ \A m \in Devices \ {n} : node'[m] = node[m]
BY Zenon DEF TypeOK, Set

\* The recorded snapshots stay snapshots.
LEMMA RecordType ==
    ASSUME TypeOK, NEW s \in Snapshots, NEW io, Record(s, io)
    PROVE  book' \in SUBSET Snapshots
BY Zenon DEF TypeOK, Record

\* Fields of a running device.
LEMMA NodeFields ==
    ASSUME TypeOK, NEW n \in Devices, Up(n)
    PROVE  /\ node[n] \in Nodes
           /\ node[n].current \in Snapshots
           /\ node[n].blocked \in BOOLEAN
           /\ node[n].pending # None =>
                /\ node[n].pending \in Rounds
                /\ node[n].pending.best \in Snapshots
                /\ node[n].pending.base \in Snapshots
                /\ node[n].pending.inbox \in SUBSET Offers
           /\ node[n].forwarder.snap \in Snapshots
<1>1. node[n] \in Nodes
  BY Zenon DEF TypeOK, Up
<1> QED BY <1>1, Zenon DEF Nodes, Rounds, Projections

\* A device after persist_then_install.
LEMMA PersistedType ==
    ASSUME NEW n, NEW nd \in Nodes, NEW s \in Snapshots, NEW io
    PROVE  Persisted(n, nd, s, io) \in Nodes
BY InstalledType, InstalledGatedType, Zenon DEF Persisted

\* A change that is handed off keeps the types.
LEMMA HandedOffType ==
    ASSUME TypeOK, NEW n \in Devices, NEW nd \in Nodes, NEW change \in Changes,
           NEW s \in Snapshots, NEW io \in Outcomes(n, Plain(s)),
           HandedOff(n, nd, change, s, io)
    PROVE  /\ disk' \in [Devices -> Disks] /\ faults' \in 0..MaxFaults
           /\ node' \in [Devices -> Nodes \cup {None}]
           /\ wire' \in SUBSET Commands
<1> DEFINE base == nd.current
           recipients == {p \in Devices \ {n} : ActiveIn(base, p, late)}
           commands == [issuer : {n}, to : recipients, base : {Boundary(base)},
                        change : {change}, snap : {s}]
           next == Persisted(n, nd, s, io)
<1>1. /\ SaveTo(n, Plain(s), io)
      /\ IF io = "ok"
         THEN /\ Set(n, [next EXCEPT !.handoff = IF recipients = {} THEN None ELSE s])
              /\ wire' = wire \cup commands
         ELSE Set(n, next) /\ UNCHANGED wire
  BY Zenon DEF HandedOff
<1>2. disk' \in [Devices -> Disks] /\ faults' \in 0..MaxFaults
  BY <1>1, SaveEffect, Zenon
<1>3. next \in Nodes /\ base \in Snapshots
  BY PersistedType, Zenon DEF Nodes
<1> HIDE DEF next
<1>4. [next EXCEPT !.handoff = IF recipients = {} THEN None ELSE s] \in Nodes
  BY <1>3, Zenon DEF Nodes
<1>5. node' \in [Devices -> Nodes \cup {None}]
  BY <1>1, <1>3, <1>4, SetType, Zenon
<1>6. Boundary(base) \in (0..MaxRevision) \X Digests
  BY <1>3, Zenon DEF Boundary, Snapshots
<1>7. commands \in SUBSET Commands
  BY <1>6, Zenon DEF Commands
<1>8. wire' \in SUBSET Commands
  BY <1>1, <1>7, Zenon DEF TypeOK
<1> QED BY <1>2, <1>5, <1>8, Zenon

\* Every step keeps the types.
LEMMA TypeStep ==
    ASSUME TypeOK, [Next]_vars
    PROVE  TypeOK'
<1>1. ASSUME NEW n \in Devices, BeginResync(n) PROVE TypeOK'
  <2>1. node[n] \in Nodes /\ NewRound(node[n].current) \in Rounds
    BY <1>1, NodeFields, Zenon DEF BeginResync, NewRound, Rounds
  <2>2. [node[n] EXCEPT !.pending = NewRound(node[n].current)] \in Nodes
    BY <2>1, Zenon DEF Nodes
  <2>3. node' \in [Devices -> Nodes \cup {None}]
    BY <1>1, <2>2, SetType, Zenon DEF BeginResync
  <2> QED BY <1>1, <2>3, Zenon DEF BeginResync, TypeOK
<1>2. ASSUME NEW n \in Devices, NEW p \in Devices, AskOffer(n, p) PROVE TypeOK'
  <2> DEFINE o == [publisher |-> p, snap |-> node[p].current]
             round == node[n].pending
             nd == [node[n] EXCEPT !.pending.attempted = @ \cup {p},
                                   !.pending.inbox = @ \cup {o}]
  <2>1. node[n] \in Nodes /\ round \in Rounds /\ o \in Offers
    BY <1>2, NodeFields, Zenon DEF AskOffer, Offers
  <2>2. nd = [node[n] EXCEPT !.pending =
                [round EXCEPT !.attempted = @ \cup {p}, !.inbox = @ \cup {o}]]
    BY <2>1, Zenon DEF Nodes, Rounds
  <2>3. [round EXCEPT !.attempted = @ \cup {p}, !.inbox = @ \cup {o}] \in Rounds
    BY <2>1, Zenon DEF Rounds
  <2>4. nd \in Nodes
    BY <2>1, <2>2, <2>3, Zenon DEF Nodes
  <2>5. Set(n, nd)
    BY <1>2, Zenon DEF AskOffer
  <2>6. node' \in [Devices -> Nodes \cup {None}]
    BY <2>4, <2>5, SetType, Zenon
  <2> QED BY <1>2, <2>6, Zenon DEF AskOffer, TypeOK
<1>3. ASSUME NEW n \in Devices, NEW o \in node[n].pending.inbox, CollectOffer(n, o)
      PROVE  TypeOK'
  <2> DEFINE round == node[n].pending
             taken == AtLeast(Rank(o.snap), Rank(round.base))
             next == [round EXCEPT !.inbox = @ \ {o},
                        !.best = IF taken THEN Higher(o.snap, @) ELSE @,
                        !.observed = @ \/ taken]
  <2>1. node[n] \in Nodes /\ round \in Rounds /\ o \in Offers
    BY <1>3, NodeFields, Zenon DEF CollectOffer
  <2>2. Higher(o.snap, round.best) \in Snapshots
    BY <2>1, HigherIsUpperBound, Zenon DEF Offers, Rounds
  <2>3. taken \in BOOLEAN
    BY Zenon DEF AtLeast, Less
  <2> HIDE DEF taken
  <2>4. next \in Rounds
    BY <2>1, <2>2, <2>3, Zenon DEF Rounds
  <2>5. [node[n] EXCEPT !.pending = next] \in Nodes
    BY <2>1, <2>4, Zenon DEF Nodes
  <2>6. Set(n, [node[n] EXCEPT !.pending = next])
    BY <1>3, Zenon DEF CollectOffer, taken
  <2>7. node' \in [Devices -> Nodes \cup {None}]
    BY <2>5, <2>6, SetType, Zenon
  <2> QED BY <1>3, <2>7, Zenon DEF CollectOffer, TypeOK
<1>4. ASSUME NEW n \in Devices, FinishDue(n) PROVE TypeOK'
  <2> DEFINE nd == node[n]
             round == nd.pending
  <2>1. nd \in Nodes /\ round \in Rounds /\ round.best \in Snapshots
    BY <1>4, NodeFields, Zenon DEF FinishDue
  <2>2. CASE UNCHANGED <<disk, faults>> /\ Set(n, [nd EXCEPT !.pending = None])
    <3>1. [nd EXCEPT !.pending = None] \in Nodes
      BY <2>1, Zenon DEF Nodes
    <3>2. node' \in [Devices -> Nodes \cup {None}]
      BY <2>2, <3>1, SetType, Zenon
    <3> QED BY <1>4, <2>2, <3>2, Zenon DEF FinishDue, TypeOK
  <2>3. ASSUME NEW io \in Outcomes(n, Plain(round.best)),
               SaveTo(n, Plain(round.best), io),
               Set(n, IF io = "ok"
                      THEN [Installed(n, nd, round.best) EXCEPT
                              !.pending = None, !.ready = round.observed]
                      ELSE None)
        PROVE  TypeOK'
    <3>1. disk' \in [Devices -> Disks] /\ faults' \in 0..MaxFaults
      BY <2>1, <2>3, SaveEffect, Zenon
    <3>3. Installed(n, nd, round.best) \in Nodes
      BY <2>1, InstalledType, Zenon
    <3>4. [Installed(n, nd, round.best) EXCEPT
              !.pending = None, !.ready = round.observed] \in Nodes
      BY <2>1, <3>3, Zenon DEF Nodes, Rounds
    <3>5. node' \in [Devices -> Nodes \cup {None}]
      BY <2>3, <3>4, SetType, Zenon
    <3> QED BY <1>4, <3>1, <3>5, Zenon DEF FinishDue, TypeOK
  <2>4. \/ UNCHANGED <<disk, faults>> /\ Set(n, [nd EXCEPT !.pending = None])
        \/ \E io \in Outcomes(n, Plain(round.best)) :
             /\ SaveTo(n, Plain(round.best), io)
             /\ Set(n, IF io = "ok"
                       THEN [Installed(n, nd, round.best) EXCEPT
                               !.pending = None, !.ready = round.observed]
                       ELSE None)
    BY <1>4, Zenon DEF FinishDue
  <2> QED BY <2>2, <2>3, <2>4, Zenon
<1>5. ASSUME NEW n \in Devices, NEW change \in Changes, Up(n),
             ApplyWithHandoff(n, change)
      PROVE  TypeOK'
  <2>1. node[n] \in Nodes /\ node[n].current \in Snapshots
    BY <1>5, NodeFields, Zenon
  <2>2. PICK s \in ChangedSnapshots(book, node[n].current, change, late),
             io \in {"ok", "failed", "uncertain"} :
          io \in Outcomes(n, Plain(s)) /\ HandedOff(n, node[n], change, s, io) /\ Record(s, io)
    BY <1>5, Zenon DEF ApplyWithHandoff, Outcomes
  <2>3. s \in Snapshots
    BY <2>1, <2>2, ChangedSnapshotsType, Zenon DEF TypeOK
  <2>4. /\ disk' \in [Devices -> Disks] /\ faults' \in 0..MaxFaults
        /\ node' \in [Devices -> Nodes \cup {None}] /\ wire' \in SUBSET Commands
    BY <2>1, <2>2, <2>3, HandedOffType, Zenon
  <2>5. book' \in SUBSET Snapshots
    BY <2>2, <2>3, RecordType, Zenon
  <2> QED BY <1>5, <2>4, <2>5, Zenon DEF ApplyWithHandoff, TypeOK
<1>6. ASSUME NEW n \in Devices, FinishHandoff(n) PROVE TypeOK'
  <2>1. [node[n] EXCEPT !.handoff = None] \in Nodes
    BY <1>6, NodeFields, Zenon DEF FinishHandoff, Nodes
  <2>2. node' \in [Devices -> Nodes \cup {None}]
    BY <1>6, <2>1, SetType, Zenon DEF FinishHandoff
  <2> QED BY <1>6, <2>2, Zenon DEF FinishHandoff, TypeOK
<1>7. ASSUME NEW n \in Devices, PruneExpired(n) PROVE TypeOK'
  <2> DEFINE prune == [op |-> "PruneExpired"]
  <2>1. node[n] \in Nodes /\ node[n].current \in Snapshots /\ prune \in Changes
    BY <1>7, NodeFields, Zenon DEF PruneExpired, Changes
  <2>2. PICK s \in ChangedSnapshots(book, node[n].current, prune, late) :
        \E io \in Outcomes(n, Plain(s)) :
          /\ SaveTo(n, Plain(s), io)
          /\ Record(s, io)
          /\ Set(n, IF io = "ok" THEN Installed(n, node[n], s) ELSE None)
    BY <1>7, Zenon DEF PruneExpired
  <2>3. s \in Snapshots
    BY <2>1, <2>2, ChangedSnapshotsType, Zenon DEF TypeOK
  <2>4. Installed(n, node[n], s) \in Nodes
    BY <2>1, <2>3, InstalledType, Zenon
  <2>5. /\ disk' \in [Devices -> Disks] /\ faults' \in 0..MaxFaults
        /\ book' \in SUBSET Snapshots
        /\ node' \in [Devices -> Nodes \cup {None}]
    BY <2>2, <2>3, <2>4, SaveEffect, RecordType, SetType, Zenon
  <2> QED BY <1>7, <2>5, Zenon DEF PruneExpired, TypeOK
<1>8. ASSUME NEW m \in wire, ReceiveMutation(m) PROVE TypeOK'
  <2> DEFINE p == m.to
             nd == node[p]
  <2>1. m \in Commands
    BY Zenon DEF TypeOK
  <2>2. p \in Devices /\ m.change \in Changes
    BY <2>1, Zenon DEF Commands
  <2>3. nd \in Nodes /\ nd.current \in Snapshots
    BY <1>8, <2>2, NodeFields, Zenon DEF ReceiveMutation
  <2>4. nd.pending # None => nd.pending \in Rounds
    BY <2>3, Zenon DEF Nodes
  <2>5. PICK s \in ChangedSnapshots(book, nd.current, m.change, late) :
        \E io \in Outcomes(p, Plain(s)) :
          /\ SaveTo(p, Plain(s), io)
          /\ Record(s, io)
          /\ Set(p, IF io = "ok"
                    THEN [Installed(p, nd, s) EXCEPT !.pending = Rebased(nd.pending, s)]
                    ELSE Persisted(p, nd, s, io))
          /\ acks' = IF io = "ok" THEN acks \cup {<<p, s>>} ELSE acks
    BY <1>8, Zenon DEF ReceiveMutation
  <2> PICK io \in Outcomes(p, Plain(s)) :
          /\ SaveTo(p, Plain(s), io)
          /\ Record(s, io)
          /\ Set(p, IF io = "ok"
                    THEN [Installed(p, nd, s) EXCEPT !.pending = Rebased(nd.pending, s)]
                    ELSE Persisted(p, nd, s, io))
          /\ acks' = IF io = "ok" THEN acks \cup {<<p, s>>} ELSE acks
    BY <2>5, Zenon
  <2>6. s \in Snapshots
    BY <2>2, <2>3, <2>5, ChangedSnapshotsType, Zenon DEF TypeOK
  <2>7. Rebased(nd.pending, s) \in Rounds \cup {None}
    <3>1. CASE nd.pending = None
      BY <3>1, Zenon DEF Rebased
    <3>2. CASE nd.pending # None
      <4>1. Higher(s, nd.pending.best) \in Snapshots
        BY <2>4, <2>6, <3>2, HigherIsUpperBound, Zenon DEF Rounds
      <4> QED BY <2>4, <2>6, <3>2, <4>1, Zenon DEF Rebased, Rounds
    <3> QED BY <3>1, <3>2, Zenon
  <2>8. Installed(p, nd, s) \in Nodes /\ Persisted(p, nd, s, io) \in Nodes
    BY <2>3, <2>6, InstalledType, InstalledGatedType, Zenon DEF Persisted
  <2>9. [Installed(p, nd, s) EXCEPT !.pending = Rebased(nd.pending, s)] \in Nodes
    BY <2>7, <2>8, Zenon DEF Nodes
  <2>10. node' \in [Devices -> Nodes \cup {None}]
    BY <2>2, <2>5, <2>8, <2>9, SetType, Zenon
  <2>11. disk' \in [Devices -> Disks] /\ faults' \in 0..MaxFaults
    BY <2>2, <2>5, <2>6, SaveEffect, Zenon
  <2>12. book' \in SUBSET Snapshots
    BY <2>5, <2>6, RecordType, Zenon
  <2>13. acks' \in SUBSET (Devices \X Snapshots)
    BY <2>2, <2>5, <2>6 DEF TypeOK
  <2> QED BY <1>8, <2>10, <2>11, <2>12, <2>13, Zenon DEF ReceiveMutation, TypeOK
<1>9. ASSUME NEW m \in wire, ConfirmMutation(m) PROVE TypeOK'
  <2>1. m.to \in Devices /\ m.snap \in Snapshots
    BY Zenon DEF TypeOK, Commands
  <2> QED BY <1>9, <2>1 DEF ConfirmMutation, TypeOK
<1>10. ASSUME NEW n \in Devices, Stop(n) PROVE TypeOK'
  BY <1>10, SetType, RuntimeAssumption DEF Stop, TypeOK
<1>11. ASSUME NEW n \in Devices, NEW content \in Copies(n), PowerLoss(n, content)
       PROVE  TypeOK'
  <2>1. content \in Contents \cup {None}
    BY Zenon DEF TypeOK, Copies, Disks
  <2>2. [file |-> content, shadow |-> {}] \in Disks
    BY <2>1, Zenon DEF Disks
  <2>3. disk' \in [Devices -> Disks]
    BY <1>11, <2>2, Zenon DEF PowerLoss, TypeOK
  <2>4. node' \in [Devices -> Nodes \cup {None}]
    BY <1>11, SetType, Zenon DEF PowerLoss
  <2> QED BY <1>11, <2>3, <2>4, RuntimeAssumption DEF PowerLoss, TypeOK
<1>12. ASSUME NEW n \in Devices, Restart(n) PROVE TypeOK'
  <2>1. disk[n].file \in Contents
    BY <1>12, Zenon DEF Restart, TypeOK, Disks
  <2>2. NewRound(disk[n].file.snap) \in Rounds
    BY <2>1, NewRoundType, Zenon DEF Contents
  <2>3. Restored(disk[n].file, FALSE, NewRound(disk[n].file.snap)) \in Nodes
    BY <2>1, <2>2, RestoredType, Zenon
  <2>4. node' \in [Devices -> Nodes \cup {None}]
    BY <1>12, <2>3, SetType, Zenon DEF Restart
  <2> QED BY <1>12, <2>4, Zenon DEF Restart, TypeOK
<1>13. CASE ExpiryPasses
  BY <1>13, Zenon DEF ExpiryPasses, TypeOK
<1>14. CASE UNCHANGED vars
  BY <1>14, Zenon DEF vars, TypeOK
<1>15. ASSUME NEW n \in Devices, NEW d \in Devices, Revoke(n, d) \/ Admit(n, d)
       PROVE  TypeOK'
  <2>1. /\ [op |-> "RemoveMember", subject |-> d] \in Changes
        /\ [op |-> "UpsertMember", subject |-> d] \in Changes
    BY Zenon DEF Changes
  <2> QED BY <1>5, <1>15, <2>1, Zenon DEF Revoke, Admit
<1> QED
  BY <1>1, <1>2, <1>3, <1>4, <1>6, <1>7, <1>8, <1>9, <1>10, <1>11, <1>12, <1>13,
     <1>14, <1>15, Zenon
     DEF Next, Resync, Mutate, Environment

\* The founding files are well typed.
LEMMA TypeInit == Init => TypeOK
<1> SUFFICES ASSUME Init PROVE TypeOK
  BY Zenon
<1>1. FoundingSnapshot \in Snapshots
  <2>1. Genesis \in Incarnations
    BY CheckpointAssumption DEF Genesis, Incarnations
  <2>2. FoundingSnapshot.members \in [Founders -> Entries]
    BY <2>1 DEF FoundingSnapshot, Entries
  <2>3. FoundingSnapshot.members \in Rosters
    BY <2>2, CheckpointAssumption, RosterIntro, Zenon
  <2> QED BY <2>3, CheckpointAssumption
          DEF FoundingSnapshot, Snapshots, Digests, NoParent
<1>2. Plain(FoundingSnapshot) \in Contents
  BY <1>1, Zenon DEF Plain, Contents
<1>3. disk \in [Devices -> Disks]
  BY <1>2, Zenon DEF Init, Disks
<1>4. node \in [Devices -> Nodes \cup {None}]
  BY Zenon DEF Init
<1>5. faults \in 0..MaxFaults
  BY RuntimeAssumption DEF Init
<1>6. book \in SUBSET Snapshots
  BY <1>1, Zenon DEF Init
<1>7. wire \in SUBSET Commands /\ acks \in SUBSET (Devices \X Snapshots) /\ late \in BOOLEAN
  BY Zenon DEF Init
<1> QED BY <1>3, <1>4, <1>5, <1>6, <1>7, Zenon DEF TypeOK

\* Type correctness, for every number of devices, forks, revisions and faults.
THEOREM TypeCorrect == Spec => []TypeOK
<1>1. TypeOK /\ [Next]_vars => TypeOK'
  BY TypeStep, Zenon
<1> QED BY <1>1, TypeInit, PTL DEF Spec

-----------------------------------------------------------------------------
(* Durability.                                                             *)

\* What RoundsCanFinish and ConfirmedOutsideGate say of one device.
DeviceInv(nd, d) ==
    nd # None =>
      /\ d.file # None
      /\ d.file.snap = nd.current
      /\ d.file.floor = nd.floor
      /\ nd.forwarder.snap = nd.current
      /\ nd.pending # None =>
           /\ nd.pending.base = nd.current
           /\ AtLeast(Rank(nd.pending.best), Rank(nd.current))
      /\ nd.sync # "ResyncRequired" => d.shadow = {} /\ nd.floor = None
      /\ nd.forwarder.sync = "Participating" => nd.sync = "Participating"

\* Everything device p could load ranks at least as high as s.
Above(p, s) == \A c \in Copies(p) : c # None /\ AtLeast(Rank(c.snap), Rank(s))

\* What a device could load is what it could load before, or ranks at least
\* as high as its file did.
CopiesRise ==
    \A m \in Devices : \A c \in Copies(m)' :
      \/ c \in Copies(m)
      \/ disk[m].file # None =>
           c # None /\ AtLeast(Rank(c.snap), Rank(disk[m].file.snap))

\* The file of a device that keeps running is the old one or ranks as high.
FilesRise ==
    \A m \in Devices :
      \/ disk'[m].file = disk[m].file
      \/ node'[m] = None
      \/ disk[m].file # None =>
           disk'[m].file # None /\ AtLeast(Rank(disk'[m].file.snap), Rank(disk[m].file.snap))

\* Offers only stay where they were, or come from a publisher above them.
InboxesFrom ==
    \A m \in Devices : Up(m)' /\ node'[m].pending # None =>
      \A o \in node'[m].pending.inbox :
        \/ Up(m) /\ node[m].pending # None /\ o \in node[m].pending.inbox
        \/ Above(o.publisher, o.snap)

\* Answers are old, or their device is above them.
AcksFrom == \A a \in acks' : a \in acks \/ Above(a[1], a[2])'

\* The two invariants are the device invariant of every device.
LEMMA DeviceWise ==
    (RoundsCanFinish /\ ConfirmedOutsideGate)
      <=> \A n \in Devices : DeviceInv(node[n], disk[n])
BY Zenon DEF RoundsCanFinish, ConfirmedOutsideGate, DeviceInv, Up

\* It is enough to look at the device a step changes.
LEMMA DeviceStep ==
    ASSUME TypeOK, RoundsCanFinish, ConfirmedOutsideGate,
           NEW n \in Devices, NEW nd \in Nodes \cup {None}, Set(n, nd),
           \A m \in Devices \ {n} : disk'[m] = disk[m],
           DeviceInv(nd, disk'[n])
    PROVE  RoundsCanFinish' /\ ConfirmedOutsideGate'
<1>1. \A m \in Devices : DeviceInv(node[m], disk[m])
  BY DeviceWise, Zenon
<1>2. node'[n] = nd /\ \A m \in Devices \ {n} : node'[m] = node[m]
  BY SetType, Zenon
<1>3. \A m \in Devices : DeviceInv(node'[m], disk'[m])
  BY <1>1, <1>2, Zenon
<1>4. \A m \in Devices : DeviceInv(node[m], disk[m])'
  BY <1>3, Zenon DEF DeviceInv
<1> QED BY <1>4, Zenon DEF RoundsCanFinish, ConfirmedOutsideGate, DeviceInv, Up

\* A device installed after a confirmed write satisfies its invariant.
LEMMA InstalledInv ==
    ASSUME NEW n, NEW nd \in Nodes, NEW s \in Snapshots,
           NEW round \in Rounds \cup {None},
           round # None => round.base = s /\ AtLeast(Rank(round.best), Rank(s))
    PROVE  LET x == Installed(n, nd, s)
           IN  /\ x \in Nodes
               /\ x.current = s
               /\ [x EXCEPT !.pending = round] \in Nodes
               /\ DeviceInv([x EXCEPT !.pending = round],
                            [file |-> Plain(s), shadow |-> {}])
<1> DEFINE x == Installed(n, nd, s)
           y == [x EXCEPT !.pending = round]
<1>1. x \in Nodes
  BY InstalledType, Zenon
<1>2. /\ x.current = s /\ x.floor = None
      /\ x.sync = Participation(s, n, late)
      /\ x.forwarder = Projection(n, s, nd.blocked)
  BY Zenon DEF Installed, Nodes
<1>3. x.forwarder.snap = s /\ (x.forwarder.sync = "Participating" => x.sync = "Participating")
  BY <1>2 DEF Projection
<1>4. y \in Nodes
  BY <1>1, Zenon DEF Nodes
<1>5. /\ y.current = s /\ y.floor = None /\ y.sync = x.sync
      /\ y.forwarder = x.forwarder /\ y.pending = round
  BY <1>1, <1>2, Zenon DEF Nodes
<1>6. Plain(s) # None /\ Plain(s).snap = s /\ Plain(s).floor = None
  BY RuntimeAssumption DEF Plain
<1>7. DeviceInv(y, [file |-> Plain(s), shadow |-> {}])
  BY <1>3, <1>5, <1>6, Zenon DEF DeviceInv
<1> QED BY <1>1, <1>2, <1>4, <1>7, Zenon

\* So does a device gated after an unconfirmed write of something storable.
LEMMA GatedInv ==
    ASSUME NEW nd \in Nodes, NEW s \in Snapshots, NEW shadow,
           nd.floor # None => AtLeast(Rank(s), nd.floor)
    PROVE  DeviceInv(InstalledGated(nd, s), [file |-> Plain(s), shadow |-> shadow])
<1> DEFINE x == InstalledGated(nd, s)
<1>1. /\ x.current = s /\ x.floor = None /\ x.sync = "ResyncRequired"
      /\ x.pending = None
      /\ x.forwarder = [snap |-> s, sync |-> "ResyncRequired"]
  BY Zenon DEF InstalledGated, Nodes
<1>2. Plain(s) # None /\ Plain(s).snap = s /\ Plain(s).floor = None
  BY RuntimeAssumption DEF Plain
<1> QED BY <1>1, <1>2 DEF DeviceInv

\* The store also compares with an enrollment floor.
LEMMA SaveFloor ==
    ASSUME NEW n \in Devices, NEW s \in Snapshots,
           NEW io \in Outcomes(n, Plain(s)), io # "failed",
           disk[n].file # None, disk[n].file.floor # None
    PROVE  AtLeast(Rank(s), disk[n].file.floor)
BY Zenon DEF Outcomes, Storable, Plain

\* The device after persist_then_install, whatever the write did.
LEMMA PersistedInv ==
    ASSUME TypeOK, NEW n \in Devices, NEW nd \in Nodes, DeviceInv(nd, disk[n]),
           NEW s \in Snapshots,
           NEW io \in Outcomes(n, Plain(s)), SaveTo(n, Plain(s), io), io # "ok"
    PROVE  DeviceInv(Persisted(n, nd, s, io), disk'[n])
<1>1. nd # None
  BY DownAssumption, Zenon
<1>2. CASE io = "failed"
  BY <1>2, SaveEffect, Zenon DEF Persisted
<1>3. CASE io = "uncertain"
  <2>1. nd.floor # None => AtLeast(Rank(s), nd.floor)
    BY <1>1, <1>3, SaveFloor, Zenon DEF DeviceInv
  <2>2. disk'[n] = [file |-> Plain(s), shadow |-> disk[n].shadow \cup {disk[n].file}]
    BY <1>3, SaveEffect, Zenon
  <2>3. Persisted(n, nd, s, io) = InstalledGated(nd, s)
    BY <1>3, Zenon DEF Persisted
  <2> QED BY <2>1, <2>2, <2>3, GatedInv, Zenon
<1> QED BY <1>2, <1>3, SaveEffect, Zenon

\* A save lets the copies of its device rise and leaves the others alone.
LEMMA SaveRises ==
    ASSUME TypeOK, NEW n \in Devices, NEW s \in Snapshots,
           NEW io \in Outcomes(n, Plain(s)), SaveTo(n, Plain(s), io)
    PROVE  CopiesRise
<1> SUFFICES ASSUME NEW m \in Devices, NEW c \in Copies(m)'
             PROVE  \/ c \in Copies(m)
                    \/ disk[m].file # None =>
                         c # None /\ AtLeast(Rank(c.snap), Rank(disk[m].file.snap))
  BY Zenon DEF CopiesRise
<1>1. CASE m # n
  <2>1. disk'[m] = disk[m]
    BY <1>1, SaveEffect, Zenon
  <2> QED BY <2>1, Zenon DEF Copies
<1>2. CASE m = n /\ io = "failed"
  BY <1>2, SaveEffect, Zenon DEF Copies
<1>3. CASE m = n /\ io # "failed"
  <2>1. c = Plain(s) \/ c \in Copies(m)
    <3>1. CASE io = "ok"
      <4>1. disk'[m] = [file |-> Plain(s), shadow |-> {}]
        BY <1>3, <3>1, SaveEffect, Zenon
      <4> QED BY <4>1 DEF Copies
    <3>2. CASE io = "uncertain"
      <4>1. disk'[m] = [file |-> Plain(s), shadow |-> disk[m].shadow \cup {disk[m].file}]
        BY <1>3, <3>2, SaveEffect, Zenon
      <4> QED BY <4>1 DEF Copies
    <3> QED BY <1>3, <3>1, <3>2, SaveEffect, Zenon
  <2>2. disk[m].file # None => AtLeast(Rank(s), Rank(disk[m].file.snap))
    BY <1>3, SaveEffect, Zenon
  <2>3. Plain(s) # None /\ Plain(s).snap = s
    BY RuntimeAssumption DEF Plain
  <2> QED BY <2>1, <2>2, <2>3, Zenon
<1> QED BY <1>1, <1>2, <1>3, Zenon

\* Untouched files rise trivially.
LEMMA UnchangedRises ==
    ASSUME UNCHANGED disk
    PROVE  CopiesRise
BY Zenon DEF CopiesRise, Copies

\* Rising copies stay above what they were above.
LEMMA AboveStable ==
    ASSUME TypeOK, TypeOK', CopiesRise,
           NEW p \in Devices, NEW s \in Snapshots, Above(p, s)
    PROVE  Above(p, s)'
<1> SUFFICES ASSUME NEW c \in Copies(p)'
             PROVE  c # None /\ AtLeast(Rank(c.snap), Rank(s))
  BY Zenon DEF Above
<1>1. CASE c \in Copies(p)
  BY <1>1, Zenon DEF Above
<1>2. CASE c \notin Copies(p)
  <2>1. disk[p].file # None /\ AtLeast(Rank(disk[p].file.snap), Rank(s))
    BY Zenon DEF Above, Copies
  <2>2. c # None /\ AtLeast(Rank(c.snap), Rank(disk[p].file.snap))
    BY <1>2, <2>1, Zenon DEF CopiesRise
  <2>3. c \in Contents
    BY <2>2 DEF TypeOK, Copies, Disks
  <2>4. disk[p].file \in Contents
    BY <2>1, Zenon DEF TypeOK, Disks
  <2>5. Rank(c.snap) \in Ranks /\ Rank(disk[p].file.snap) \in Ranks /\ Rank(s) \in Ranks
    BY <2>3, <2>4, RankType, Zenon DEF Contents
  <2> QED BY <2>1, <2>2, <2>5, RankOrder
<1> QED BY <1>1, <1>2, Zenon

\* A device out of the gate is above its own snapshot.
LEMMA ConfirmedIsAbove ==
    ASSUME TypeOK, RoundsCanFinish, ConfirmedOutsideGate,
           NEW p \in Devices, Up(p), node[p].sync # "ResyncRequired"
    PROVE  Above(p, node[p].current)
<1>1. /\ disk[p].shadow = {} /\ disk[p].file # None
      /\ disk[p].file.snap = node[p].current
  BY Zenon DEF RoundsCanFinish, ConfirmedOutsideGate
<1>2. Rank(node[p].current) \in Ranks
  BY NodeFields, RankType, Zenon
<1> QED BY <1>1, <1>2, RankOrder, Zenon DEF Above, Copies

\* A save only lets the file of its device rise.
LEMMA SaveFiles ==
    ASSUME TypeOK, NEW n \in Devices, NEW s \in Snapshots,
           NEW io \in Outcomes(n, Plain(s)), SaveTo(n, Plain(s), io)
    PROVE  FilesRise
<1>1. Plain(s) # None /\ Plain(s).snap = s
  BY RuntimeAssumption DEF Plain
<1>2. CASE io = "failed"
  <2>1. \A m \in Devices : disk'[m] = disk[m]
    BY <1>2, SaveEffect, Zenon
  <2> QED BY <2>1, Zenon DEF FilesRise
<1>3. CASE io # "failed"
  <2>1. disk'[n].file = Plain(s)
    <3>1. io = "ok" \/ io = "uncertain"
      BY <1>3, SaveEffect, Zenon
    <3>2. CASE io = "ok"
      <4>1. disk'[n] = [file |-> Plain(s), shadow |-> {}]
        BY <3>2, SaveEffect, Zenon
      <4> QED BY <4>1
    <3>3. CASE io = "uncertain"
      <4>1. disk'[n] = [file |-> Plain(s), shadow |-> disk[n].shadow \cup {disk[n].file}]
        BY <3>3, SaveEffect, Zenon
      <4> QED BY <4>1
    <3> QED BY <3>1, <3>2, <3>3, Zenon
  <2>2. disk[n].file # None => AtLeast(Rank(s), Rank(disk[n].file.snap))
    BY <1>3, SaveEffect, Zenon
  <2>3. \A m \in Devices \ {n} : disk'[m] = disk[m]
    BY SaveEffect, Zenon
  <2> QED BY <1>1, <2>1, <2>2, <2>3, Zenon DEF FilesRise
<1> QED BY <1>2, <1>3, Zenon

\* It is enough to look at the inbox of the device a step changes.
LEMMA InboxStep ==
    ASSUME TypeOK, NEW n \in Devices, NEW nd \in Nodes \cup {None}, Set(n, nd),
           nd # None /\ nd.pending # None => 
             \A o \in nd.pending.inbox :
               \/ Up(n) /\ node[n].pending # None /\ o \in node[n].pending.inbox
               \/ Above(o.publisher, o.snap)
    PROVE  InboxesFrom
<1>1. node'[n] = nd /\ \A m \in Devices \ {n} : node'[m] = node[m]
  BY Zenon DEF Set, TypeOK
<1> QED BY <1>1, Zenon DEF InboxesFrom, Up

\* Old offers and answers stay durable, new ones are.
LEMMA DurableStep ==
    ASSUME DurabilityInvariant, TypeOK', CopiesRise, InboxesFrom, AcksFrom
    PROVE  AcknowledgedIsDurable' /\ OffersAreDurable'
<1>1. \A p \in Devices, s \in Snapshots : Above(p, s) => Above(p, s)'
  BY AboveStable, Zenon DEF DurabilityInvariant
<1>2. ASSUME NEW a \in acks' PROVE Above(a[1], a[2])'
  <2>1. a[1] \in Devices /\ a[2] \in Snapshots
    BY <1>2, Zenon DEF TypeOK
  <2>2. a \in acks => Above(a[1], a[2])
    BY Zenon DEF DurabilityInvariant, AcknowledgedIsDurable, Above
  <2> QED BY <1>1, <1>2, <2>1, <2>2, Zenon DEF AcksFrom
<1>3. ASSUME NEW m \in Devices, Up(m)', node'[m].pending # None,
             NEW o \in node'[m].pending.inbox
      PROVE  Above(o.publisher, o.snap)'
  <2>1. node'[m] \in Nodes
    BY <1>3, Zenon DEF TypeOK, Up
  <2>2. o.publisher \in Devices /\ o.snap \in Snapshots
    BY <1>3, <2>1, Zenon DEF Nodes, Rounds, Offers
  <2>3. Above(o.publisher, o.snap)
    BY <1>3, Zenon DEF InboxesFrom, DurabilityInvariant, OffersAreDurable, Above
  <2> QED BY <1>1, <2>2, <2>3, Zenon
<1>4. AcknowledgedIsDurable'
  BY <1>2, Zenon DEF AcknowledgedIsDurable, Above
<1>5. OffersAreDurable'
  BY <1>3, Zenon DEF OffersAreDurable, Above
<1> QED BY <1>4, <1>5, Zenon

\* What every step of the runtime does for the durability invariant.
SafeStep ==
    /\ RoundsCanFinish' /\ ConfirmedOutsideGate'
    /\ CopiesRise /\ FilesRise /\ InboxesFrom /\ AcksFrom

\* A step of one device that leaves the files and the answers alone.
LEMMA QuietStep ==
    ASSUME DurabilityInvariant,
           NEW n \in Devices, NEW nd \in Nodes \cup {None}, Set(n, nd),
           UNCHANGED <<disk, acks>>, DeviceInv(nd, disk[n]),
           nd # None /\ nd.pending # None =>
             \A o \in nd.pending.inbox :
               \/ Up(n) /\ node[n].pending # None /\ o \in node[n].pending.inbox
               \/ Above(o.publisher, o.snap)
    PROVE  SafeStep
<1>1. RoundsCanFinish' /\ ConfirmedOutsideGate'
  BY DeviceStep, Zenon DEF DurabilityInvariant
<1>2. InboxesFrom
  BY InboxStep, Zenon DEF DurabilityInvariant
<1>3. CopiesRise /\ FilesRise /\ AcksFrom
  BY UnchangedRises, Zenon DEF FilesRise, AcksFrom
<1> QED BY <1>1, <1>2, <1>3, Zenon DEF SafeStep

\* A step of one device that saves.
LEMMA SavingStep ==
    ASSUME DurabilityInvariant,
           NEW n \in Devices, NEW s \in Snapshots,
           NEW io \in Outcomes(n, Plain(s)), SaveTo(n, Plain(s), io),
           NEW nd \in Nodes \cup {None}, Set(n, nd), DeviceInv(nd, disk'[n]),
           nd # None /\ nd.pending # None =>
             /\ Up(n) /\ node[n].pending # None
             /\ nd.pending.inbox \subseteq node[n].pending.inbox,
           AcksFrom
    PROVE  SafeStep
<1>0. TypeOK
  BY Zenon DEF DurabilityInvariant
<1>1. \A m \in Devices \ {n} : disk'[m] = disk[m]
  BY <1>0, SaveEffect, Zenon
<1>2. RoundsCanFinish' /\ ConfirmedOutsideGate'
  BY <1>0, <1>1, DeviceStep, Zenon DEF DurabilityInvariant
<1>3. InboxesFrom
  BY <1>0, InboxStep, Zenon
<1>4. CopiesRise /\ FilesRise
  BY <1>0, SaveRises, SaveFiles, Zenon
<1> QED BY <1>2, <1>3, <1>4, Zenon DEF SafeStep

\* The device invariant looks at five fields only.
LEMMA DeviceFields ==
    ASSUME NEW x \in Nodes, NEW y \in Nodes, NEW d,
           x.current = y.current, x.sync = y.sync, x.floor = y.floor,
           x.pending = y.pending, x.forwarder = y.forwarder, DeviceInv(x, d)
    PROVE  DeviceInv(y, d)
BY DownAssumption, Zenon DEF DeviceInv

\* A change that is handed off by a device without a round is a safe step.
LEMMA HandedOffSafe ==
    ASSUME DurabilityInvariant, NEW n \in Devices, NEW nd \in Nodes,
           DeviceInv(nd, disk[n]), nd.pending = None, NEW change \in Changes,
           NEW s \in Snapshots, NEW io \in Outcomes(n, Plain(s)),
           HandedOff(n, nd, change, s, io), UNCHANGED acks
    PROVE  SafeStep
<1> DEFINE recipients == {p \in Devices \ {n} : ActiveIn(nd.current, p, late)}
           h == IF recipients = {} THEN None ELSE s
<1>1. /\ SaveTo(n, Plain(s), io)
      /\ IF io = "ok" THEN Set(n, [Persisted(n, nd, s, io) EXCEPT !.handoff = h])
                      ELSE Set(n, Persisted(n, nd, s, io))
  BY Zenon DEF HandedOff
<1>2. h \in Snapshots \cup {None}
  BY Zenon
<1> HIDE DEF h
<1>3. TypeOK /\ AcksFrom
  BY Zenon DEF DurabilityInvariant, AcksFrom
<1>4. CASE io = "ok"
  <2> DEFINE x == Installed(n, nd, s)
             next == [x EXCEPT !.handoff = h]
  <2>1. x \in Nodes
    BY InstalledType, Zenon
  <2>2. x.pending = None
    BY Zenon DEF Installed, Nodes
  <2>3. DeviceInv([x EXCEPT !.pending = None], [file |-> Plain(s), shadow |-> {}])
    BY InstalledInv, Zenon
  <2>4. [x EXCEPT !.pending = None] = x
    BY <2>1, <2>2, Zenon DEF Nodes
  <2>5. Set(n, next)
    BY <1>1, <1>4, Zenon DEF Persisted
  <2>6. disk'[n] = [file |-> Plain(s), shadow |-> {}]
    BY <1>1, <1>3, <1>4, SaveEffect, Zenon
  <2> HIDE DEF x
  <2>7. /\ next \in Nodes /\ next.pending = x.pending
        /\ next.current = x.current /\ next.sync = x.sync /\ next.floor = x.floor
        /\ next.forwarder = x.forwarder
    BY <1>2, <2>1, Zenon DEF Nodes
  <2>8. DeviceInv(next, disk'[n])
    BY <2>1, <2>3, <2>4, <2>6, <2>7, DeviceFields, Zenon
  <2> HIDE DEF next
  <2> QED BY <1>1, <1>3, <2>2, <2>5, <2>7, <2>8, SavingStep, Zenon
<1>5. CASE io # "ok"
  <2> DEFINE next == Persisted(n, nd, s, io)
  <2>1. next \in Nodes
    BY PersistedType, Zenon
  <2>2. next.pending = None
    BY <1>5, Zenon DEF Persisted, InstalledGated, Nodes
  <2>3. DeviceInv(next, disk'[n])
    BY <1>1, <1>3, <1>5, PersistedInv, Zenon
  <2>4. Set(n, next)
    BY <1>1, <1>5, Zenon
  <2> HIDE DEF next
  <2> QED BY <1>1, <1>3, <2>1, <2>2, <2>3, <2>4, SavingStep, Zenon
<1> QED BY <1>4, <1>5, Zenon

\* The first step of a round.
LEMMA NewRoundInv ==
    ASSUME NEW s \in Snapshots
    PROVE  /\ NewRound(s) \in Rounds
           /\ NewRound(s).base = s
           /\ NewRound(s).inbox = {}
           /\ AtLeast(Rank(NewRound(s).best), Rank(s))
BY RankType, RankOrder, Zenon DEF NewRound, Rounds

\* Every step is safe: one step per action, and for each what it does to the
\* device invariant, to the inboxes and to the answers.
LEMMA StepIsSafe ==
    ASSUME DurabilityInvariant, TypeOK', [Next]_vars
    PROVE  SafeStep
<1> USE DEF DurabilityInvariant
<1>0. \A n \in Devices : DeviceInv(node[n], disk[n])
  BY DeviceWise, Zenon
<1>1. ASSUME NEW n \in Devices, BeginResync(n) PROVE SafeStep
  <2> DEFINE round == NewRound(node[n].current)
             nd == [node[n] EXCEPT !.pending = round]
  <2>1. node[n] \in Nodes /\ node[n].current \in Snapshots
    BY <1>1, NodeFields, Zenon DEF BeginResync
  <2>2. /\ round \in Rounds /\ round.base = node[n].current /\ round.inbox = {}
        /\ AtLeast(Rank(round.best), Rank(node[n].current))
    BY <2>1, NewRoundInv, Zenon
  <2> HIDE DEF round
  <2>3. nd \in Nodes /\ nd.pending = round
    BY <2>1, <2>2, Zenon DEF Nodes
  <2>4. DeviceInv(nd, disk[n])
    BY <1>0, <1>1, <2>1, <2>2, Zenon DEF DeviceInv, Nodes, BeginResync, Up
  <2>5. Set(n, nd) /\ UNCHANGED <<disk, acks>>
    BY <1>1, Zenon DEF BeginResync, round
  <2> QED BY <2>2, <2>3, <2>4, <2>5, QuietStep, Zenon
<1>2. ASSUME NEW n \in Devices, NEW p \in Devices, AskOffer(n, p) PROVE SafeStep
  <2> DEFINE o == [publisher |-> p, snap |-> node[p].current]
             old == node[n].pending
             round == [old EXCEPT !.attempted = @ \cup {p}, !.inbox = @ \cup {o}]
             nd == [node[n] EXCEPT !.pending = round]
  <2>1. node[n] \in Nodes /\ old \in Rounds /\ o \in Offers /\ old # None
    BY <1>2, NodeFields, Zenon DEF AskOffer, Offers
  <2>2. [node[n] EXCEPT !.pending.attempted = @ \cup {p},
                        !.pending.inbox = @ \cup {o}] = nd
    BY <2>1, Zenon DEF Nodes, Rounds
  <2>3. /\ round \in Rounds /\ round.base = old.base /\ round.best = old.best
        /\ round.inbox = old.inbox \cup {o}
    BY <2>1, Zenon DEF Rounds
  <2>4. Above(o.publisher, o.snap)
    BY <1>2, ConfirmedIsAbove, Zenon DEF AskOffer, Participates
  <2>5. Set(n, nd) /\ UNCHANGED <<disk, acks>>
    BY <1>2, <2>2, Zenon DEF AskOffer
  <2> HIDE DEF round, o
  <2>6. nd \in Nodes /\ nd.pending = round
    BY <2>1, <2>3, Zenon DEF Nodes
  <2>7. DeviceInv(nd, disk[n])
    BY <1>0, <1>2, <2>1, <2>3, Zenon DEF DeviceInv, Nodes, AskOffer, Up
  <2>8. Up(n)
    BY <1>2, Zenon DEF AskOffer
  <2> QED BY <2>1, <2>3, <2>4, <2>5, <2>6, <2>7, <2>8, QuietStep, Zenon
<1>3. ASSUME NEW n \in Devices, NEW o \in node[n].pending.inbox, CollectOffer(n, o)
      PROVE  SafeStep
  <2> DEFINE old == node[n].pending
             taken == AtLeast(Rank(o.snap), Rank(old.base))
             best == IF taken THEN Higher(o.snap, old.best) ELSE old.best
             round == [old EXCEPT !.inbox = @ \ {o}, !.best = best,
                                  !.observed = @ \/ taken]
             nd == [node[n] EXCEPT !.pending = round]
  <2>1. /\ node[n] \in Nodes /\ old \in Rounds /\ o \in Offers /\ old # None
        /\ node[n].current \in Snapshots /\ old.best \in Snapshots
    BY <1>3, NodeFields, Zenon DEF CollectOffer
  <2>2. o.snap \in Snapshots
    BY <2>1, Zenon DEF Offers
  <2>3. AtLeast(Rank(old.best), Rank(node[n].current))
    BY <1>0, <1>3, <2>1, Zenon DEF DeviceInv, CollectOffer, Up
  <2>4. best \in Snapshots /\ AtLeast(Rank(best), Rank(old.best))
    BY <2>1, <2>2, HigherIsUpperBound, RankType, RankOrder
  <2>5. AtLeast(Rank(best), Rank(node[n].current))
    BY <2>1, <2>3, <2>4, RankType, RankOrder
  <2>6. taken \in BOOLEAN
    BY Zenon DEF AtLeast, Less
  <2>7. Set(n, nd) /\ UNCHANGED <<disk, acks>>
    BY <1>3, Zenon DEF CollectOffer
  <2> HIDE DEF taken, best
  <2>8. /\ round \in Rounds /\ round.base = old.base /\ round.best = best
        /\ round.inbox \subseteq old.inbox
    BY <2>1, <2>4, <2>6, Zenon DEF Rounds
  <2> HIDE DEF round
  <2>9. nd \in Nodes /\ nd.pending = round
    BY <2>1, <2>8, Zenon DEF Nodes
  <2>10. DeviceInv(nd, disk[n])
    BY <1>0, <1>3, <2>1, <2>5, <2>8, Zenon DEF DeviceInv, Nodes, CollectOffer, Up
  <2>11. Up(n)
    BY <1>3, Zenon DEF CollectOffer
  <2> QED BY <2>1, <2>7, <2>8, <2>9, <2>10, <2>11, QuietStep, Zenon
<1>4. ASSUME NEW n \in Devices, FinishDue(n) PROVE SafeStep
  <2> DEFINE nd == node[n]
             round == nd.pending
             next == [Installed(n, nd, round.best) EXCEPT
                        !.pending = None, !.ready = round.observed]
  <2>1. /\ nd \in Nodes /\ round \in Rounds /\ round.best \in Snapshots
        /\ round.observed \in BOOLEAN
    BY <1>4, NodeFields, Zenon DEF FinishDue, Rounds
  <2>2. UNCHANGED acks /\ AcksFrom
    BY <1>4, Zenon DEF FinishDue, AcksFrom
  <2>3. CASE UNCHANGED <<disk, faults>> /\ Set(n, [nd EXCEPT !.pending = None])
    <3> DEFINE idle == [nd EXCEPT !.pending = None]
    <3>1. idle \in Nodes /\ idle.pending = None
      BY <2>1, Zenon DEF Nodes
    <3>2. DeviceInv(idle, disk[n])
      BY <1>0, <1>4, <2>1, Zenon DEF DeviceInv, Nodes, FinishDue, Up
    <3> QED BY <2>2, <2>3, <3>1, <3>2, QuietStep, Zenon
  <2>4. ASSUME NEW io \in Outcomes(n, Plain(round.best)),
               SaveTo(n, Plain(round.best), io),
               Set(n, IF io = "ok" THEN next ELSE None)
        PROVE  SafeStep
    <3>1. CASE io = "ok"
      <4> DEFINE x == [Installed(n, nd, round.best) EXCEPT !.pending = None]
      <4>1. Installed(n, nd, round.best) \in Nodes /\ x \in Nodes
        BY <2>1, InstalledInv, Zenon
      <4>2. DeviceInv(x, [file |-> Plain(round.best), shadow |-> {}])
        BY <2>1, InstalledInv, Zenon
      <4>3. /\ next \in Nodes /\ next.pending = None
            /\ next.current = x.current /\ next.sync = x.sync /\ next.floor = x.floor
            /\ x.pending = None /\ next.forwarder = x.forwarder
        BY <2>1, <4>1, Zenon DEF Nodes
      <4>4. disk'[n] = [file |-> Plain(round.best), shadow |-> {}]
        BY <2>1, <2>4, <3>1, SaveEffect, Zenon
      <4>5. DeviceInv(next, disk'[n])
        BY <4>1, <4>2, <4>3, <4>4, DeviceFields, Zenon
      <4> HIDE DEF next
      <4> QED BY <2>1, <2>2, <2>4, <3>1, <4>3, <4>5, SavingStep, Zenon
    <3>2. CASE io # "ok"
      <4>1. DeviceInv(None, disk'[n])
        BY Zenon DEF DeviceInv
      <4>2. Set(n, None)
        BY <2>4, <3>2, Zenon
      <4> QED BY <2>1, <2>2, <2>4, <4>1, <4>2, SavingStep, Zenon
    <3> QED BY <3>1, <3>2, Zenon
  <2>5. \/ UNCHANGED <<disk, faults>> /\ Set(n, [nd EXCEPT !.pending = None])
        \/ \E io \in Outcomes(n, Plain(round.best)) :
             /\ SaveTo(n, Plain(round.best), io)
             /\ Set(n, IF io = "ok" THEN next ELSE None)
    BY <1>4, Zenon DEF FinishDue
  <2> HIDE DEF next
  <2> QED BY <2>3, <2>4, <2>5, Zenon
<1>5. ASSUME NEW n \in Devices, NEW change \in Changes, Up(n),
             ApplyWithHandoff(n, change)
      PROVE  SafeStep
  <2>1. node[n] \in Nodes /\ node[n].current \in Snapshots /\ node[n].pending = None
    BY <1>5, NodeFields, Zenon DEF ApplyWithHandoff, MaySign
  <2>2. PICK s \in ChangedSnapshots(book, node[n].current, change, late),
             io \in {"ok", "failed", "uncertain"} :
          io \in Outcomes(n, Plain(s)) /\ HandedOff(n, node[n], change, s, io)
    BY <1>5, Zenon DEF ApplyWithHandoff, Outcomes
  <2>3. s \in Snapshots
    BY <2>1, <2>2, ChangedSnapshotsType, Zenon DEF TypeOK
  <2>4. UNCHANGED acks
    BY <1>5, Zenon DEF ApplyWithHandoff
  <2> QED BY <1>0, <2>1, <2>2, <2>3, <2>4, HandedOffSafe, Zenon
<1>6. ASSUME NEW n \in Devices, FinishHandoff(n) PROVE SafeStep
  <2> DEFINE nd == [node[n] EXCEPT !.handoff = None]
  <2>1. node[n] \in Nodes /\ Up(n)
    BY <1>6, NodeFields, Zenon DEF FinishHandoff
  <2>2. /\ nd \in Nodes /\ nd.pending = node[n].pending
        /\ nd.current = node[n].current /\ nd.sync = node[n].sync
        /\ nd.floor = node[n].floor /\ nd.forwarder = node[n].forwarder
    BY <2>1, Zenon DEF Nodes
  <2>3. Set(n, nd) /\ UNCHANGED <<disk, acks>>
    BY <1>6, Zenon DEF FinishHandoff
  <2> HIDE DEF nd
  <2>4. DeviceInv(nd, disk[n])
    BY <1>0, <2>1, <2>2, DeviceFields, Zenon
  <2> QED BY <2>1, <2>2, <2>3, <2>4, QuietStep, Zenon
<1>7. ASSUME NEW n \in Devices, PruneExpired(n) PROVE SafeStep
  <2> DEFINE prune == [op |-> "PruneExpired"]
  <2>1. /\ node[n] \in Nodes /\ node[n].current \in Snapshots /\ prune \in Changes
        /\ node[n].pending = None
    BY <1>7, NodeFields, Zenon DEF PruneExpired, Changes
  <2>2. PICK s \in ChangedSnapshots(book, node[n].current, prune, late) :
        \E io \in Outcomes(n, Plain(s)) :
          /\ SaveTo(n, Plain(s), io)
          /\ Set(n, IF io = "ok" THEN Installed(n, node[n], s) ELSE None)
    BY <1>7, Zenon DEF PruneExpired
  <2>3. s \in Snapshots
    BY <2>1, <2>2, ChangedSnapshotsType, Zenon DEF TypeOK
  <2>4. PICK io \in Outcomes(n, Plain(s)) :
          /\ SaveTo(n, Plain(s), io)
          /\ Set(n, IF io = "ok" THEN Installed(n, node[n], s) ELSE None)
    BY <2>2, Zenon
  <2>5. AcksFrom
    BY <1>7, Zenon DEF PruneExpired, AcksFrom
  <2>6. CASE io = "ok"
    <3> DEFINE x == Installed(n, node[n], s)
    <3>1. x \in Nodes
      BY <2>1, <2>3, InstalledType, Zenon
    <3>2. x.pending = None
      BY <2>1, Zenon DEF Installed, Nodes
    <3>3. DeviceInv([x EXCEPT !.pending = None], [file |-> Plain(s), shadow |-> {}])
      BY <2>1, <2>3, InstalledInv, Zenon
    <3>4. [x EXCEPT !.pending = None] = x
      BY <3>1, <3>2, Zenon DEF Nodes
    <3>5. disk'[n] = [file |-> Plain(s), shadow |-> {}]
      BY <2>3, <2>4, <2>6, SaveEffect, Zenon
    <3>6. Set(n, x)
      BY <2>4, <2>6, Zenon
    <3> HIDE DEF x
    <3> QED BY <2>3, <2>4, <2>5, <3>1, <3>2, <3>3, <3>4, <3>5, <3>6, SavingStep, Zenon
  <2>7. CASE io # "ok"
    <3>1. Set(n, None) /\ DeviceInv(None, disk'[n])
      BY <2>4, <2>7, Zenon DEF DeviceInv
    <3> QED BY <2>3, <2>4, <2>5, <3>1, SavingStep, Zenon
  <2> QED BY <2>6, <2>7, Zenon
<1>8. ASSUME NEW m \in wire, ReceiveMutation(m) PROVE SafeStep
  <2> DEFINE p == m.to
             nd == node[p]
  <2>1. p \in Devices /\ m.change \in Changes /\ Up(p)
    BY <1>8, Zenon DEF TypeOK, Commands, ReceiveMutation
  <2>2. nd \in Nodes /\ nd.current \in Snapshots /\ nd.pending \in Rounds \cup {None}
    BY <2>1, NodeFields, Zenon DEF Nodes
  <2>3. PICK s \in ChangedSnapshots(book, nd.current, m.change, late) :
        \E io \in Outcomes(p, Plain(s)) :
          /\ SaveTo(p, Plain(s), io)
          /\ Set(p, IF io = "ok"
                    THEN [Installed(p, nd, s) EXCEPT !.pending = Rebased(nd.pending, s)]
                    ELSE Persisted(p, nd, s, io))
          /\ acks' = IF io = "ok" THEN acks \cup {<<p, s>>} ELSE acks
    BY <1>8, Zenon DEF ReceiveMutation
  <2>4. PICK io \in Outcomes(p, Plain(s)) :
          /\ SaveTo(p, Plain(s), io)
          /\ Set(p, IF io = "ok"
                    THEN [Installed(p, nd, s) EXCEPT !.pending = Rebased(nd.pending, s)]
                    ELSE Persisted(p, nd, s, io))
          /\ acks' = IF io = "ok" THEN acks \cup {<<p, s>>} ELSE acks
    BY <2>3, Zenon
  <2>5. s \in Snapshots
    BY <2>1, <2>2, <2>3, ChangedSnapshotsType, Zenon DEF TypeOK
  <2>6. CASE io = "ok"
    <3> DEFINE round == Rebased(nd.pending, s)
               next == [Installed(p, nd, s) EXCEPT !.pending = round]
    <3>1. /\ round \in Rounds \cup {None}
          /\ round # None => /\ nd.pending # None
                             /\ round.base = s /\ AtLeast(Rank(round.best), Rank(s))
                             /\ round.inbox = nd.pending.inbox
      <4>1. CASE nd.pending = None
        BY <4>1, Zenon DEF Rebased
      <4>2. CASE nd.pending # None
        <5>1. /\ Higher(s, nd.pending.best) \in Snapshots
              /\ AtLeast(Rank(Higher(s, nd.pending.best)), Rank(s))
          BY <2>2, <2>5, <4>2, HigherIsUpperBound, Zenon DEF Rounds
        <5> QED BY <2>2, <2>5, <4>2, <5>1, Zenon DEF Rebased, Rounds
      <4> QED BY <4>1, <4>2, Zenon
    <3> HIDE DEF round
    <3>2. next \in Nodes /\ DeviceInv(next, [file |-> Plain(s), shadow |-> {}])
      BY <2>2, <2>5, <3>1, InstalledInv, Zenon
    <3>3. Installed(p, nd, s) \in Nodes
      BY <2>2, <2>5, InstalledType, Zenon
    <3>4. next.pending = round
      BY <3>3, Zenon DEF Nodes
    <3>5. disk'[p] = [file |-> Plain(s), shadow |-> {}]
      BY <2>1, <2>4, <2>5, <2>6, SaveEffect, Zenon
    <3>6. Plain(s) # None /\ Plain(s).snap = s /\ AtLeast(Rank(s), Rank(s))
      BY <2>5, RuntimeAssumption, RankType, RankOrder DEF Plain
    <3>7. Above(p, s)'
      BY <3>5, <3>6 DEF Above, Copies
    <3>8. AcksFrom
      BY <2>4, <2>6, <3>7 DEF AcksFrom
    <3>9. Set(p, next)
      BY <2>4, <2>6, Zenon DEF round
    <3> HIDE DEF next
    <3> QED BY <2>1, <2>4, <2>5, <3>1, <3>2, <3>4, <3>5, <3>8, <3>9, SavingStep, Zenon
  <2>7. CASE io # "ok"
    <3> DEFINE next == Persisted(p, nd, s, io)
    <3>1. next \in Nodes
      BY <2>2, <2>5, InstalledType, InstalledGatedType, Zenon DEF Persisted
    <3>2. next.pending = None \/ next.pending = nd.pending
      BY <2>2, <2>7, Zenon DEF Persisted, InstalledGated, Nodes
    <3>3. DeviceInv(next, disk'[p])
      BY <1>0, <2>1, <2>2, <2>4, <2>5, <2>7, PersistedInv, Zenon
    <3>4. Set(p, next) /\ AcksFrom
      BY <2>4, <2>7, Zenon DEF AcksFrom
    <3> HIDE DEF next
    <3> QED BY <2>1, <2>4, <2>5, <3>1, <3>2, <3>3, <3>4, SavingStep, Zenon
  <2> QED BY <2>6, <2>7, Zenon
<1>9. ASSUME NEW m \in wire, ConfirmMutation(m) PROVE SafeStep
  <2>1. m.to \in Devices
    BY Zenon DEF TypeOK, Commands
  <2>2. Above(m.to, m.snap)
    BY <1>9, <2>1, ConfirmedIsAbove, Zenon DEF ConfirmMutation, Participates
  <2>3. UNCHANGED <<disk, node>> /\ acks' = acks \cup {<<m.to, m.snap>>}
    BY <1>9, Zenon DEF ConfirmMutation
  <2>4. AcksFrom
    BY <2>2, <2>3 DEF AcksFrom, Above, Copies
  <2>5. RoundsCanFinish' /\ ConfirmedOutsideGate'
    BY <2>3, Zenon DEF RoundsCanFinish, ConfirmedOutsideGate, Up
  <2>6. InboxesFrom /\ FilesRise /\ CopiesRise
    BY <2>3, UnchangedRises, Zenon DEF InboxesFrom, FilesRise, Up
  <2> QED BY <2>4, <2>5, <2>6, Zenon DEF SafeStep
<1>10. ASSUME NEW n \in Devices, Stop(n) PROVE SafeStep
  <2>1. Set(n, None) /\ UNCHANGED <<disk, acks>> /\ DeviceInv(None, disk[n])
    BY <1>10, Zenon DEF Stop, DeviceInv
  <2> QED BY <2>1, QuietStep, Zenon
<1>11. ASSUME NEW n \in Devices, NEW content \in Copies(n), PowerLoss(n, content)
       PROVE  SafeStep
  <2>1. /\ Set(n, None) /\ UNCHANGED acks
        /\ disk' = [disk EXCEPT ![n] = [file |-> content, shadow |-> {}]]
    BY <1>11, Zenon DEF PowerLoss
  <2>2. /\ disk'[n] = [file |-> content, shadow |-> {}]
        /\ \A m \in Devices \ {n} : disk'[m] = disk[m]
    BY <2>1, Zenon DEF TypeOK
  <2>3. node'[n] = None
    BY <2>1, Zenon DEF Set, TypeOK
  <2>4. RoundsCanFinish' /\ ConfirmedOutsideGate'
    BY <2>1, <2>2, DeviceStep, Zenon DEF DeviceInv
  <2>5. Copies(n)' = {content} /\ \A m \in Devices \ {n} : Copies(m)' = Copies(m)
    BY <2>2 DEF Copies
  <2>6. CopiesRise
    BY <2>5, Zenon DEF CopiesRise
  <2>7. FilesRise
    BY <2>2, <2>3, Zenon DEF FilesRise
  <2>8. InboxesFrom
    BY <2>1, InboxStep, Zenon
  <2> QED BY <2>1, <2>4, <2>6, <2>7, <2>8, Zenon DEF SafeStep, AcksFrom
<1>12. ASSUME NEW n \in Devices, Restart(n) PROVE SafeStep
  <2> DEFINE round == NewRound(disk[n].file.snap)
             nd == Restored(disk[n].file, FALSE, round)
  <2>1. disk[n].file \in Contents /\ disk[n].file # None
    BY <1>12, Zenon DEF Restart, TypeOK, Disks
  <2>2. disk[n].file.snap \in Snapshots
    BY <2>1, Zenon DEF Contents
  <2>3. /\ round \in Rounds /\ round.base = disk[n].file.snap /\ round.inbox = {}
        /\ AtLeast(Rank(round.best), Rank(disk[n].file.snap))
    BY <2>2, NewRoundInv, Zenon
  <2>4. Set(n, nd) /\ UNCHANGED <<disk, acks>>
    BY <1>12, Zenon DEF Restart
  <2> HIDE DEF round
  <2>5. nd \in Nodes
    BY <2>1, <2>3, RestoredType, Zenon
  <2>6. nd.pending = round /\ DeviceInv(nd, disk[n])
    BY <2>1, <2>3, Zenon DEF Restored, DeviceInv
  <2> HIDE DEF nd
  <2> QED BY <2>3, <2>4, <2>5, <2>6, QuietStep, Zenon
<1>13. CASE UNCHANGED <<disk, node, acks>>
  <2>1. RoundsCanFinish' /\ ConfirmedOutsideGate'
    BY <1>13, Zenon DEF RoundsCanFinish, ConfirmedOutsideGate, Up
  <2>2. InboxesFrom /\ FilesRise /\ CopiesRise /\ AcksFrom
    BY <1>13, UnchangedRises, Zenon DEF InboxesFrom, FilesRise, AcksFrom, Up
  <2> QED BY <2>1, <2>2, Zenon DEF SafeStep
<1>14. ASSUME NEW n \in Devices, NEW d \in Devices, Revoke(n, d) \/ Admit(n, d)
       PROVE  SafeStep
  <2>1. /\ [op |-> "RemoveMember", subject |-> d] \in Changes
        /\ [op |-> "UpsertMember", subject |-> d] \in Changes
    BY Zenon DEF Changes
  <2> QED BY <1>5, <1>14, <2>1, Zenon DEF Revoke, Admit
<1> QED
  BY <1>1, <1>2, <1>3, <1>4, <1>6, <1>7, <1>8, <1>9, <1>10, <1>11, <1>12, <1>13,
     <1>14, Zenon
     DEF Next, Resync, Mutate, Environment, ExpiryPasses, vars

\* The durability invariant is inductive.
LEMMA DurabilityStep ==
    DurabilityInvariant /\ [Next]_vars => DurabilityInvariant'
<1> SUFFICES ASSUME DurabilityInvariant, [Next]_vars PROVE DurabilityInvariant'
  BY Zenon
<1>1. TypeOK'
  BY TypeStep, Zenon DEF DurabilityInvariant
<1>2. SafeStep
  BY <1>1, StepIsSafe, Zenon
<1>3. AcknowledgedIsDurable' /\ OffersAreDurable'
  BY <1>1, <1>2, DurableStep, Zenon DEF SafeStep
<1> QED BY <1>1, <1>2, <1>3, Zenon DEF SafeStep, DurabilityInvariant

\* It holds initially.
LEMMA DurabilityInit == Init => DurabilityInvariant
BY TypeInit, Zenon DEF Init, DurabilityInvariant, RoundsCanFinish, ConfirmedOutsideGate,
                AcknowledgedIsDurable, OffersAreDurable, Up

\* In every reachable state, whatever writes fail and whenever power is lost:
\* a running device's memory, forwarder and file agree, only a confirmed write
\* ends the gate, and what was published or acknowledged cannot be lost.
THEOREM DurabilityInvariantHolds == Spec => []DurabilityInvariant
BY DurabilityInit, DurabilityStep, PTL DEF Spec

\* Outside the gate memory, forwarder and file are the same roster.
LEMMA LiveIsDurable == DurabilityInvariant => LiveAuthorityIsDurable
<1> SUFFICES ASSUME DurabilityInvariant, NEW n \in Devices, Live(n)
             PROVE  disk[n] = [file |-> Plain(node[n].forwarder.snap), shadow |-> {}]
  BY Zenon DEF LiveAuthorityIsDurable
<1>1. /\ Up(n) /\ node[n].sync = "Participating"
      /\ disk[n].shadow = {} /\ node[n].floor = None
  BY Zenon DEF DurabilityInvariant, ConfirmedOutsideGate, Live
<1>2. /\ disk[n].file # None
      /\ disk[n].file.snap = node[n].forwarder.snap /\ disk[n].file.floor = None
  BY <1>1, Zenon DEF DurabilityInvariant, RoundsCanFinish
<1>3. disk[n] \in Disks
  BY Zenon DEF DurabilityInvariant, TypeOK
<1>4. disk[n].file \in Contents
  BY <1>2, <1>3, Zenon DEF Disks
<1>5. disk[n].file = Plain(node[n].forwarder.snap)
  BY <1>2, <1>4, Zenon DEF Contents, Plain
<1> QED BY <1>1, <1>3, <1>5, Zenon DEF Disks

\* persist_then_install and install_gated: a forwarder that authorizes packets
\* applies exactly the roster that is confirmed on disk.
THEOREM LiveAuthority == Spec => []LiveAuthorityIsDurable
BY LiveIsDurable, DurabilityInvariantHolds, PTL

\* incoming_mutation_outcome: no crash makes a device forget a roster it
\* answered as installed.
THEOREM Acknowledged == Spec => []AcknowledgedIsDurable
<1>1. DurabilityInvariant => AcknowledgedIsDurable
  BY Zenon DEF DurabilityInvariant
<1> QED BY <1>1, DurabilityInvariantHolds, PTL

\* make_offer_at: no crash makes a device forget a roster it published.
THEOREM Offered == Spec => []OffersAreDurable
<1>1. DurabilityInvariant => OffersAreDurable
  BY Zenon DEF DurabilityInvariant
<1> QED BY <1>1, DurabilityInvariantHolds, PTL

\* finish_due and rebase_live_resync_on_installed: what a round selects is
\* never refused as a rollback, however commands arrive during it.
THEOREM RoundsFinish == Spec => []RoundsCanFinish
<1>1. DurabilityInvariant => RoundsCanFinish
  BY Zenon DEF DurabilityInvariant
<1> QED BY <1>1, DurabilityInvariantHolds, PTL

\* The guards of the store and of the forwarder: neither what a device could
\* load nor what it has installed ever falls in rank.
THEOREM RollbackNever == Spec => NeverRollsBack
<1>1. DurabilityInvariant /\ DurabilityInvariant' /\ [Next]_vars => [NoStepBack]_vars
  <2> SUFFICES ASSUME DurabilityInvariant, DurabilityInvariant', [Next]_vars
               PROVE  NoStepBack
    BY Zenon
  <2>1. CopiesRise /\ FilesRise
    BY StepIsSafe, Zenon DEF DurabilityInvariant, SafeStep
  <2>2. ASSUME NEW n \in Devices, NEW c \in Copies(n)'
        PROVE  \E b \in Copies(n) :
                 b # None => c # None /\ AtLeast(Rank(c.snap), Rank(b.snap))
    <3>1. CASE c \in Copies(n)
      <4>1. c # None => c \in Contents
        BY <3>1 DEF DurabilityInvariant, TypeOK, Copies, Disks
      <4>2. c # None => AtLeast(Rank(c.snap), Rank(c.snap))
        BY <4>1, RankType, RankOrder, Zenon DEF Contents
      <4> QED BY <3>1, <4>2, Zenon
    <3>2. CASE c \notin Copies(n)
      BY <2>1, <2>2, <3>2, Zenon DEF CopiesRise, Copies
    <3> QED BY <3>1, <3>2, Zenon
  <2>3. ASSUME NEW n \in Devices, Up(n), Up(n)'
        PROVE  AtLeast(Rank(node[n].current)', Rank(node[n].current))
    <3>1. disk[n].file # None /\ disk[n].file.snap = node[n].current
      BY <2>3, Zenon DEF DurabilityInvariant, RoundsCanFinish
    <3>2. disk'[n].file # None /\ disk'[n].file.snap = node'[n].current
      BY <2>3, Zenon DEF DurabilityInvariant, RoundsCanFinish
    <3>3. AtLeast(Rank(node[n].current), Rank(node[n].current))
      BY <2>3, NodeFields, RankType, RankOrder, Zenon DEF DurabilityInvariant
    <3>4. Rank(node[n].current)' = Rank(node'[n].current)
      BY Zenon DEF Rank
    <3> QED BY <2>1, <2>3, <3>1, <3>2, <3>3, <3>4, Zenon DEF FilesRise, Up
  <2> QED BY <2>2, <2>3, Zenon DEF NoStepBack
<1> QED BY <1>1, DurabilityInvariantHolds, PTL DEF Spec, NeverRollsBack
=============================================================================
