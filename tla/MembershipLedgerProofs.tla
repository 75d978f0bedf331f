----------------------- MODULE MembershipLedgerProofs -----------------------
(***************************************************************************)
(* The runtime implements the ledger, and a membership that ended is not   *)
(* continued, for any number of devices, forks, revisions and faults.      *)
(***************************************************************************)
EXTENDS CheckpointRuntimeProofs, LedgerRefinement

\* A round selects among snapshots that exist.
RoundKnown(nd, B) ==
    nd # None /\ nd.pending # None =>
      nd.pending.best \in B /\ \A o \in nd.pending.inbox : o.snap \in B

\* A file that is there cannot be lost, its copies exist, and it ranks highest.
FileKnown(d, B) ==
    /\ d.file = None => d.shadow = {}
    /\ d.file # None =>
         \A c \in {d.file} \cup d.shadow :
           c # None /\ c.snap \in B /\ AtLeast(Rank(d.file.snap), Rank(c.snap))

\* The strengthening behind the refinement.
LedgerInvariant ==
    \A n \in Devices : RoundKnown(node[n], book) /\ FileKnown(disk[n], book)

-----------------------------------------------------------------------------
(* What a step does to the book and to the files.                          *)

\* Device n tries to save s.
Saving(n, s) ==
    \E io \in Outcomes(n, Plain(s)) : SaveTo(n, Plain(s), io)

\* A device saves a snapshot that exists.
Adopting(n) ==
    /\ Up(n) /\ UNCHANGED <<book, late>>
    /\ \E s \in book : Saving(n, s)

\* A device that takes part changes the snapshot it has installed.
Issuing(n) ==
    /\ Up(n) /\ Participates(n) /\ UNCHANGED late
    /\ \E change \in Changes :
       \E s \in ChangedSnapshots(book, node[n].current, change, late) :
       \E io \in Outcomes(n, Plain(s)) : SaveTo(n, Plain(s), io) /\ Record(s, io)

\* A crash leaves one of the copies.
Settling(n) ==
    /\ UNCHANGED <<book, late>>
    /\ \E c \in Copies(n) : disk' = [disk EXCEPT ![n] = [file |-> c, shadow |-> {}]]

Shape ==
    \/ UNCHANGED <<book, disk, late>>
    \/ UNCHANGED <<book, disk>> /\ late' = TRUE
    \/ \E n \in Devices : Adopting(n) \/ Issuing(n) \/ Settling(n)

\* Rounds only select what exists when their device alone changes.
LEMMA RoundStep ==
    ASSUME TypeOK, LedgerInvariant, book \subseteq book',
           NEW n \in Devices, NEW nd, Set(n, nd), RoundKnown(nd, book')
    PROVE  \A m \in Devices : RoundKnown(node'[m], book')
<1>1. \A m \in Devices : node'[m] = IF m = n THEN nd ELSE node[m]
  BY Zenon DEF Set, TypeOK
<1>2. \A m \in Devices : RoundKnown(node[m], book) => RoundKnown(node[m], book')
  BY Zenon DEF RoundKnown
<1> QED BY <1>1, <1>2, Zenon DEF LedgerInvariant

\* The book only grows.
LEMMA RecordGrows ==
    ASSUME NEW s, NEW io, Record(s, io)
    PROVE  book \subseteq book'
BY Zenon DEF Record

\* The snapshot a running device has installed exists.
LEMMA CurrentKnown ==
    ASSUME DurabilityInvariant, LedgerInvariant, NEW n \in Devices, Up(n)
    PROVE  node[n].current \in book
BY Zenon DEF DurabilityInvariant, RoundsCanFinish, LedgerInvariant, FileKnown

\* Installing keeps the round, and an unconfirmed write gives it up.
LEMMA PersistedRound ==
    ASSUME NEW n, NEW nd \in Nodes, NEW s, NEW io
    PROVE  /\ Installed(n, nd, s).pending = nd.pending
           /\ Persisted(n, nd, s, io).pending \in {nd.pending, None}
<1>1. Installed(n, nd, s).pending = nd.pending
  BY Zenon DEF Installed, Nodes
<1>2. InstalledGated(nd, s).pending = None
  BY Zenon DEF InstalledGated, Nodes
<1> QED BY <1>1, <1>2, Zenon DEF Persisted

RoundsKnown == \A m \in Devices : RoundKnown(node'[m], book')

\* apply_change_with_handoff issues.
LEMMA ApplyShape ==
    ASSUME DurabilityInvariant, LedgerInvariant, NEW n \in Devices,
           NEW change \in Changes, Up(n), ApplyWithHandoff(n, change)
    PROVE  Shape /\ RoundsKnown
<1>0. TypeOK /\ node[n] \in Nodes
  BY NodeFields, Zenon DEF DurabilityInvariant
<1>1. PICK s \in ChangedSnapshots(book, node[n].current, change, late) :
      \E io \in Outcomes(n, Plain(s)) :
        HandedOff(n, node[n], change, s, io) /\ Record(s, io)
  BY Zenon DEF ApplyWithHandoff
<1>2. PICK io \in Outcomes(n, Plain(s)) :
        HandedOff(n, node[n], change, s, io) /\ Record(s, io)
  BY <1>1, Zenon
<1>3. SaveTo(n, Plain(s), io)
  BY <1>2, Zenon DEF HandedOff
<1>4. Participates(n) /\ UNCHANGED late /\ node[n].pending = None
  BY Zenon DEF ApplyWithHandoff, MaySign
<1>5. Issuing(n)
  BY <1>2, <1>3, <1>4, Zenon DEF Issuing
<1> DEFINE next == Persisted(n, node[n], s, io)
           handoff == IF {p \in Devices \ {n} : ActiveIn(node[n].current, p, late)} = {}
                      THEN None ELSE s
<1>6. next.pending = None
  BY <1>0, <1>4, PersistedRound
<1>7. Set(n, [next EXCEPT !.handoff = handoff]) \/ Set(n, next)
  BY <1>2, Zenon DEF HandedOff
<1> HIDE DEF next, handoff
<1>8. [next EXCEPT !.handoff = handoff].pending = None
  BY <1>6
<1>9. book \subseteq book'
  BY <1>2, RecordGrows, Zenon
<1>10. CASE Set(n, next)
  <2>1. RoundKnown(next, book')
    BY <1>6, Zenon DEF RoundKnown
  <2> QED BY <1>0, <1>5, <1>9, <1>10, <2>1, RoundStep, Zenon DEF RoundsKnown, Shape
<1>11. CASE Set(n, [next EXCEPT !.handoff = handoff])
  <2> DEFINE x == [next EXCEPT !.handoff = handoff]
  <2>1. RoundKnown(x, book')
    BY <1>8, Zenon DEF RoundKnown
  <2> HIDE DEF x
  <2>2. Set(n, x)
    BY <1>11, Zenon DEF x
  <2> QED BY <1>0, <1>5, <1>9, <2>1, <2>2, RoundStep, Zenon DEF RoundsKnown, Shape
<1> QED BY <1>7, <1>10, <1>11, Zenon

\* A step that changes one device and no file.
LEMMA IdleShape ==
    ASSUME TypeOK, LedgerInvariant, NEW n \in Devices, NEW nd, Set(n, nd),
           RoundKnown(nd, book), UNCHANGED <<book, disk, late>>
    PROVE  Shape /\ RoundsKnown
<1>1. RoundKnown(nd, book') /\ book \subseteq book'
  BY Zenon DEF RoundKnown
<1> QED BY <1>1, RoundStep, Zenon DEF Shape, RoundsKnown

\* Every step adopts, issues, settles, lets time pass or leaves the files alone, and
\* every round goes on selecting among what exists: one step per action.
LEMMA StepShape ==
    ASSUME DurabilityInvariant, LedgerInvariant, [Next]_vars
    PROVE  Shape /\ RoundsKnown
<1>0. TypeOK /\ \A n \in Devices : RoundKnown(node[n], book)
  BY Zenon DEF DurabilityInvariant, LedgerInvariant
<1>1. ASSUME NEW n \in Devices, BeginResync(n) PROVE Shape /\ RoundsKnown
  <2> DEFINE nd == [node[n] EXCEPT !.pending = NewRound(node[n].current)]
  <2>1. node[n].current \in book /\ node[n] \in Nodes
    BY <1>0, <1>1, CurrentKnown, NodeFields, Zenon DEF BeginResync
  <2>2. nd.pending = NewRound(node[n].current)
    BY <2>1, Zenon DEF Nodes
  <2>3. RoundKnown(nd, book)
    BY <2>1, <2>2 DEF RoundKnown, NewRound
  <2>4. Set(n, nd) /\ UNCHANGED <<book, disk, late>>
    BY <1>1, Zenon DEF BeginResync
  <2> QED BY <1>0, <2>3, <2>4, IdleShape, Zenon
<1>2. ASSUME NEW n \in Devices, NEW p \in Devices, AskOffer(n, p)
      PROVE  Shape /\ RoundsKnown
  <2> DEFINE o == [publisher |-> p, snap |-> node[p].current]
             old == node[n].pending
             round == [old EXCEPT !.attempted = @ \cup {p}, !.inbox = @ \cup {o}]
             nd == [node[n] EXCEPT !.pending = round]
  <2>1. node[n] \in Nodes /\ old \in Rounds /\ old # None
    BY <1>0, <1>2, NodeFields, Zenon DEF AskOffer
  <2>2. o.snap \in book
    BY <1>2, CurrentKnown, Zenon DEF AskOffer
  <2>3. [node[n] EXCEPT !.pending.attempted = @ \cup {p},
                        !.pending.inbox = @ \cup {o}] = nd
    BY <2>1, Zenon DEF Nodes, Rounds
  <2>4. nd.pending = round /\ round.best = old.best /\ round.inbox = old.inbox \cup {o}
    BY <2>1, Zenon DEF Nodes, Rounds
  <2>5. old.best \in book /\ \A x \in old.inbox : x.snap \in book
    BY <1>0, <1>2, <2>1, Zenon DEF RoundKnown, AskOffer, Up
  <2>6. Set(n, nd) /\ UNCHANGED <<book, disk, late>>
    BY <1>2, <2>3, Zenon DEF AskOffer
  <2> HIDE DEF nd, round, o
  <2>7. RoundKnown(nd, book)
    BY <2>2, <2>4, <2>5, Zenon DEF RoundKnown
  <2> QED BY <1>0, <2>6, <2>7, IdleShape, Zenon
<1>3. ASSUME NEW n \in Devices, NEW o \in node[n].pending.inbox, CollectOffer(n, o)
      PROVE  Shape /\ RoundsKnown
  <2> DEFINE old == node[n].pending
             taken == AtLeast(Rank(o.snap), Rank(old.base))
             best == IF taken THEN Higher(o.snap, old.best) ELSE old.best
             round == [old EXCEPT !.inbox = @ \ {o}, !.best = best,
                                  !.observed = @ \/ taken]
             nd == [node[n] EXCEPT !.pending = round]
  <2>1. node[n] \in Nodes /\ old \in Rounds /\ old # None
    BY <1>0, <1>3, NodeFields, Zenon DEF CollectOffer
  <2>2. old.best \in book /\ \A x \in old.inbox : x.snap \in book
    BY <1>0, <1>3, <2>1, Zenon DEF RoundKnown, CollectOffer, Up
  <2>3. best \in book
    BY <2>2, Zenon DEF Higher
  <2>4. Set(n, nd) /\ UNCHANGED <<book, disk, late>>
    BY <1>3, Zenon DEF CollectOffer
  <2> HIDE DEF taken, best
  <2>5. nd.pending = round /\ round.best = best /\ round.inbox \subseteq old.inbox
    BY <2>1, Zenon DEF Nodes, Rounds
  <2> HIDE DEF nd, round
  <2>6. RoundKnown(nd, book)
    BY <2>2, <2>3, <2>5, Zenon DEF RoundKnown
  <2> QED BY <1>0, <2>4, <2>6, IdleShape, Zenon
<1>4. ASSUME NEW n \in Devices, FinishDue(n) PROVE Shape /\ RoundsKnown
  <2> DEFINE best == node[n].pending.best
             next == [Installed(n, node[n], best) EXCEPT
                        !.pending = None, !.ready = node[n].pending.observed]
             idle == [node[n] EXCEPT !.pending = None]
  <2>1. node[n] \in Nodes /\ best \in book
    BY <1>0, <1>4, NodeFields, Zenon DEF FinishDue, RoundKnown, Up
  <2>2. Up(n) /\ UNCHANGED <<book, late>> /\ book \subseteq book'
    BY <1>4, Zenon DEF FinishDue
  <2>3. idle.pending = None
    BY <2>1, Zenon DEF Nodes
  <2>4. next.pending = None
    <3>1. Installed(n, node[n], best) = [Installed(n, node[n], best) EXCEPT !.ready = @]
          /\ "pending" \in DOMAIN Installed(n, node[n], best)
      BY <2>1 DEF Installed, Nodes
    <3> QED BY <3>1, Zenon
  <2>5. \/ UNCHANGED disk /\ Set(n, idle)
        \/ \E io \in Outcomes(n, Plain(best)) :
             SaveTo(n, Plain(best), io) /\ Set(n, IF io = "ok" THEN next ELSE None)
    BY <1>4, Zenon DEF FinishDue
  <2> HIDE DEF idle, next, best
  <2>6. CASE UNCHANGED disk /\ Set(n, idle)
    <3>1. RoundKnown(idle, book)
      BY <2>3, Zenon DEF RoundKnown
    <3> QED BY <1>0, <2>2, <2>6, <3>1, IdleShape, Zenon
  <2>7. ASSUME NEW io \in Outcomes(n, Plain(best)), SaveTo(n, Plain(best), io),
               Set(n, IF io = "ok" THEN next ELSE None)
        PROVE  Shape /\ RoundsKnown
    <3>1. RoundKnown(IF io = "ok" THEN next ELSE None, book')
      BY <2>4, Zenon DEF RoundKnown
    <3>2. RoundsKnown
      BY <1>0, <2>2, <2>7, <3>1, RoundStep, Zenon DEF RoundsKnown
    <3>3. Adopting(n)
      BY <2>1, <2>2, <2>7, Zenon DEF Adopting, Saving
    <3> QED BY <3>2, <3>3, Zenon DEF Shape
  <2> QED BY <2>5, <2>6, <2>7, Zenon
<1>5. ASSUME NEW n \in Devices, NEW d \in Devices, Revoke(n, d) \/ Admit(n, d)
      PROVE  Shape /\ RoundsKnown
  <2>1. /\ [op |-> "RemoveMember", subject |-> d] \in Changes
        /\ [op |-> "UpsertMember", subject |-> d] \in Changes
    BY Zenon DEF Changes
  <2> QED BY <1>5, <2>1, ApplyShape, Zenon DEF Revoke, Admit
<1>6. ASSUME NEW n \in Devices, PruneExpired(n) PROVE Shape /\ RoundsKnown
  <2> DEFINE change == [op |-> "PruneExpired"]
  <2>1. node[n] \in Nodes /\ node[n].pending = None /\ change \in Changes
    BY <1>0, <1>6, NodeFields, Zenon DEF PruneExpired, Changes
  <2>2. PICK s \in ChangedSnapshots(book, node[n].current, change, late) :
        \E io \in Outcomes(n, Plain(s)) :
          /\ SaveTo(n, Plain(s), io)
          /\ Record(s, io)
          /\ Set(n, IF io = "ok" THEN Installed(n, node[n], s) ELSE None)
    BY <1>6, Zenon DEF PruneExpired
  <2>3. PICK io \in Outcomes(n, Plain(s)) :
          /\ SaveTo(n, Plain(s), io)
          /\ Record(s, io)
          /\ Set(n, IF io = "ok" THEN Installed(n, node[n], s) ELSE None)
    BY <2>2, Zenon
  <2> DEFINE nd == IF io = "ok" THEN Installed(n, node[n], s) ELSE None
  <2>4. RoundKnown(nd, book')
    BY <2>1, PersistedRound DEF RoundKnown
  <2> HIDE DEF nd, change
  <2>5. Set(n, nd) /\ book \subseteq book'
    BY <2>3, RecordGrows, Zenon DEF nd
  <2>6. RoundsKnown
    BY <1>0, <2>4, <2>5, RoundStep, Zenon DEF RoundsKnown
  <2>7. Up(n) /\ Participates(n) /\ UNCHANGED late
    BY <1>6, Zenon DEF PruneExpired
  <2>8. Issuing(n)
    BY <2>1, <2>3, <2>7, Zenon DEF Issuing
  <2> QED BY <2>6, <2>8, Zenon DEF Shape
<1>7. ASSUME NEW n \in Devices, FinishHandoff(n) PROVE Shape /\ RoundsKnown
  <2> DEFINE nd == [node[n] EXCEPT !.handoff = None]
  <2>1. node[n] \in Nodes
    BY <1>0, <1>7, NodeFields, Zenon DEF FinishHandoff
  <2>2. nd.pending = node[n].pending /\ node[n] # None
    BY <1>7, <2>1, Zenon DEF Nodes, FinishHandoff, Up
  <2>3. RoundKnown(nd, book)
    BY <1>0, <2>2, Zenon DEF RoundKnown
  <2>4. Set(n, nd) /\ UNCHANGED <<book, disk, late>>
    BY <1>7, Zenon DEF FinishHandoff
  <2> QED BY <1>0, <2>3, <2>4, IdleShape, Zenon
<1>8. ASSUME NEW m \in wire, ReceiveMutation(m) PROVE Shape /\ RoundsKnown
  <2> DEFINE p == m.to
             old == node[p].pending
  <2>1. p \in Devices /\ m.change \in Changes
    BY <1>0, Zenon DEF TypeOK, Commands
  <2>2. Up(p) /\ Participates(p) /\ UNCHANGED late
    BY <1>8, Zenon DEF ReceiveMutation
  <2>3. node[p] \in Nodes /\ (old # None => old \in Rounds)
    BY <1>0, <2>1, <2>2, NodeFields, Zenon
  <2>4. PICK s \in ChangedSnapshots(book, node[p].current, m.change, late) :
        \E io \in Outcomes(p, Plain(s)) :
          /\ SaveTo(p, Plain(s), io)
          /\ Record(s, io)
          /\ Set(p, IF io = "ok"
                    THEN [Installed(p, node[p], s) EXCEPT !.pending = Rebased(old, s)]
                    ELSE Persisted(p, node[p], s, io))
    BY <1>8, Zenon DEF ReceiveMutation
  <2>5. PICK io \in Outcomes(p, Plain(s)) :
          /\ SaveTo(p, Plain(s), io)
          /\ Record(s, io)
          /\ Set(p, IF io = "ok"
                    THEN [Installed(p, node[p], s) EXCEPT !.pending = Rebased(old, s)]
                    ELSE Persisted(p, node[p], s, io))
    BY <2>4, Zenon
  <2>6. book \subseteq book' /\ (io # "failed" => s \in book')
    BY <2>5, Zenon DEF Record
  <2>7. old # None => old.best \in book /\ \A o \in old.inbox : o.snap \in book
    BY <1>0, <2>1, <2>2, Zenon DEF RoundKnown, Up
  <2> DEFINE x == [Installed(p, node[p], s) EXCEPT !.pending = Rebased(old, s)]
             nd == IF io = "ok" THEN x ELSE Persisted(p, node[p], s, io)
  <2>8. io = "ok" => RoundKnown(x, book')
    <3>1. x.pending = Rebased(old, s)
      BY <2>3, Zenon DEF Installed, Nodes
    <3>2. CASE old = None
      BY <3>1, <3>2, Zenon DEF RoundKnown, Rebased
    <3>3. CASE old # None
      <4>1. /\ Rebased(old, s).best = Higher(s, old.best)
            /\ Rebased(old, s).inbox = old.inbox
        BY <2>3, <3>3, Zenon DEF Rebased, Rounds
      <4>2. Higher(s, old.best) \in {s, old.best}
        BY Zenon DEF Higher
      <4> HIDE DEF x, old
      <4> QED BY <2>6, <2>7, <3>1, <3>3, <4>1, <4>2, Zenon DEF RoundKnown
    <3> QED BY <3>2, <3>3, Zenon
  <2>9. RoundKnown(Persisted(p, node[p], s, io), book')
    <3>1. Persisted(p, node[p], s, io).pending \in {old, None}
      BY <2>3, PersistedRound, Zenon
    <3> HIDE DEF old
    <3> QED BY <2>6, <2>7, <3>1, Zenon DEF RoundKnown
  <2>10. RoundKnown(nd, book')
    BY <2>8, <2>9, Zenon
  <2>11. Set(p, nd)
    BY <2>5, Zenon
  <2> HIDE DEF nd, p
  <2>12. RoundsKnown
    BY <1>0, <2>1, <2>6, <2>10, <2>11, RoundStep, Zenon DEF RoundsKnown
  <2>13. Issuing(p)
    BY <2>1, <2>2, <2>5, Zenon DEF Issuing
  <2> QED BY <2>1, <2>12, <2>13, Zenon DEF Shape
<1>9. ASSUME NEW n \in Devices, Stop(n) PROVE Shape /\ RoundsKnown
  <2>1. RoundKnown(None, book) /\ Set(n, None) /\ UNCHANGED <<book, disk, late>>
    BY <1>9, Zenon DEF RoundKnown, Stop
  <2> QED BY <1>0, <2>1, IdleShape, Zenon
<1>10. ASSUME NEW n \in Devices, NEW c \in Copies(n), PowerLoss(n, c)
       PROVE  Shape /\ RoundsKnown
  <2>1. RoundKnown(None, book') /\ Set(n, None) /\ UNCHANGED <<book, late>>
    BY <1>10, Zenon DEF RoundKnown, PowerLoss
  <2>2. RoundsKnown
    BY <1>0, <2>1, RoundStep, Zenon DEF RoundsKnown
  <2>3. Settling(n)
    BY <1>10, Zenon DEF PowerLoss, Settling
  <2> QED BY <2>2, <2>3, Zenon DEF Shape
<1>11. ASSUME NEW n \in Devices, Restart(n) PROVE Shape /\ RoundsKnown
  <2> DEFINE nd == Restored(disk[n].file, FALSE, NewRound(disk[n].file.snap))
  <2>1. disk[n].file.snap \in book
    BY <1>11, Zenon DEF Restart, LedgerInvariant, FileKnown
  <2>2. RoundKnown(nd, book)
    BY <2>1, Zenon DEF RoundKnown, Restored, NewRound
  <2>3. Set(n, nd) /\ UNCHANGED <<book, disk, late>>
    BY <1>11, Zenon DEF Restart
  <2> QED BY <1>0, <2>2, <2>3, IdleShape, Zenon
<1>12. ASSUME UNCHANGED <<book, disk, node>>, late' = TRUE \/ UNCHANGED late
       PROVE  Shape /\ RoundsKnown
  BY <1>0, <1>12, Zenon DEF Shape, RoundsKnown
<1>13. ASSUME NEW m \in wire, ConfirmMutation(m) PROVE Shape /\ RoundsKnown
  BY <1>12, <1>13, Zenon DEF ConfirmMutation
<1> QED
  BY <1>1, <1>2, <1>3, <1>4, <1>5, <1>6, <1>7, <1>8, <1>9, <1>10, <1>11, <1>12, <1>13, Zenon
     DEF Next, Resync, Mutate, Environment, ExpiryPasses, vars

-----------------------------------------------------------------------------
(* The refinement.                                                         *)

\* The ledger's operators are those of the checkpoint core.
LEMMA SameOperators ==
    /\ Ledger!FoundingSnapshot = FoundingSnapshot
    /\ Ledger!Changes = Changes
    /\ \A s, t : Ledger!AtLeast(Ledger!Rank(s), Ledger!Rank(t)) <=> AtLeast(Rank(s), Rank(t))
    /\ \A s, d, l : Ledger!ActiveIn(s, d, l) <=> ActiveIn(s, d, l)
    /\ \A B, s, c, l : Ledger!ChangedSnapshots(B, s, c, l) = ChangedSnapshots(B, s, c, l)
<1>1. Ledger!FoundingSnapshot = FoundingSnapshot
  BY Zenon DEF Ledger!FoundingSnapshot, FoundingSnapshot, Ledger!NoParent, NoParent,
         Ledger!Genesis, Genesis
<1>2. Ledger!Changes = Changes
  BY Zenon DEF Ledger!Changes, Changes
<1>3. \A s, t : Ledger!AtLeast(Ledger!Rank(s), Ledger!Rank(t)) <=> AtLeast(Rank(s), Rank(t))
  <2>1. \A s : Ledger!Rank(s) = Rank(s)
    BY Zenon DEF Ledger!Rank, Rank, Ledger!Cardinality, Cardinality
  <2>2. \A r, u : Ledger!AtLeast(r, u) <=> AtLeast(r, u)
    BY Zenon DEF Ledger!AtLeast, AtLeast, Ledger!Less, Less
  <2> QED BY <2>1, <2>2, Zenon
<1>4. \A s, d, l : Ledger!ActiveIn(s, d, l) <=> ActiveIn(s, d, l)
  BY Zenon DEF Ledger!ActiveIn, ActiveIn, Ledger!ActiveEntry, ActiveEntry
<1>5. \A s, c, l : Ledger!ChangedMembers(s, c, l) = ChangedMembers(s, c, l)
  BY Zenon DEF Ledger!ChangedMembers, ChangedMembers, Ledger!Upserted, Upserted,
         Ledger!AdmissionIncarnation, AdmissionIncarnation, Ledger!Boundary, Boundary,
         Ledger!Kept, Kept, Ledger!ActiveIn, ActiveIn, Ledger!ActiveEntry, ActiveEntry
<1>6. \A B, r, p, m : Ledger!Digested(B, r, p, m) = Digested(B, r, p, m)
  BY Zenon DEF Ledger!Digested, Digested, Ledger!Digests, Digests
<1>7. \A B, s, c, l : Ledger!ChangedSnapshots(B, s, c, l) = ChangedSnapshots(B, s, c, l)
  BY <1>5, <1>6, Zenon DEF Ledger!ChangedSnapshots, ChangedSnapshots
<1> QED BY <1>1, <1>2, <1>3, <1>4, <1>7, Zenon

\* What a successful save does to the copies of a device.
LEMMA SaveHolds ==
    ASSUME DurabilityInvariant, LedgerInvariant, NEW n \in Devices, Up(n),
           NEW s \in Snapshots, NEW io \in Outcomes(n, Plain(s)), SaveTo(n, Plain(s), io)
    PROVE  /\ io = "failed" => UNCHANGED disk
           /\ io # "failed" => Ledger!Holds(n, s)
           /\ \A B : s \in B /\ book \subseteq B /\ io # "failed" =>
                \A m \in Devices : FileKnown(disk'[m], B)
<1>0. TypeOK /\ disk[n].file # None /\ disk[n] \in Disks /\ FileKnown(disk[n], book)
  BY Zenon DEF DurabilityInvariant, RoundsCanFinish, LedgerInvariant, TypeOK
<1>1. /\ disk' \in [Devices -> Disks]
      /\ io \in {"ok", "failed", "uncertain"}
      /\ \A m \in Devices \ {n} : disk'[m] = disk[m]
      /\ io = "ok" => disk'[n] = [file |-> Plain(s), shadow |-> {}]
      /\ io = "failed" => disk'[n] = disk[n]
      /\ io = "uncertain" =>
           disk'[n] = [file |-> Plain(s), shadow |-> disk[n].shadow \cup {disk[n].file}]
      /\ io # "failed" => AtLeast(Rank(s), Rank(disk[n].file.snap))
  BY <1>0, SaveEffect, Zenon
<1>2. Plain(s).snap = s /\ Plain(s) \in Contents /\ Plain(s) # None
  BY RuntimeAssumption DEF Plain, Contents
<1>3. \A c \in Copies(n) : c # None /\ c \in Contents /\ c.snap \in Snapshots /\ c.snap \in book
  BY <1>0, Zenon DEF Copies, FileKnown, Disks, Contents
<1>4. io # "failed" => \A c \in Copies(n) : AtLeast(Rank(s), Rank(c.snap))
  <2> SUFFICES ASSUME io # "failed", NEW c \in Copies(n) PROVE AtLeast(Rank(s), Rank(c.snap))
    BY Zenon
  <2>1. AtLeast(Rank(disk[n].file.snap), Rank(c.snap))
    BY <1>0, Zenon DEF FileKnown, Copies
  <2>2. disk[n].file \in Copies(n)
    BY Zenon DEF Copies
  <2> QED BY <1>1, <1>3, <2>1, <2>2, RankType, RankOrder
<1>5. AtLeast(Rank(s), Rank(s))
  BY RankType, RankOrder, Zenon
<1>6. io = "failed" => UNCHANGED disk
  BY <1>0, <1>1 DEF TypeOK
<1>7. ASSUME io # "failed", NEW B, s \in B, book \subseteq B
      PROVE  \A m \in Devices : FileKnown(disk'[m], B)
  <2>1. \A m \in Devices \ {n} : FileKnown(disk'[m], B)
    BY <1>1, <1>7, Zenon DEF LedgerInvariant, FileKnown
  <2>2. disk'[n].file = Plain(s) /\ disk'[n].shadow \subseteq Copies(n)
    BY <1>1, <1>7 DEF Copies
  <2>3. FileKnown(disk'[n], B)
    BY <1>2, <1>3, <1>4, <1>5, <1>7, <2>2, Zenon DEF FileKnown
  <2> QED BY <2>1, <2>3, Zenon
<1>8. ASSUME io # "failed" PROVE Ledger!Holds(n, s)
  <2>1. StoredSnapshots[n] = {c.snap : c \in Copies(n)}
    BY <1>3, Zenon DEF StoredSnapshots
  <2>2. \A t \in StoredSnapshots[n] : Ledger!AtLeast(Ledger!Rank(s), Ledger!Rank(t))
    BY <1>4, <1>8, <2>1, SameOperators, Zenon
  <2>3. \A m \in Devices \ {n} : StoredSnapshots'[m] = StoredSnapshots[m]
    BY <1>1, Zenon DEF StoredSnapshots, Copies
  <2>4. CASE io = "ok"
    <3>1. Copies(n)' = {Plain(s)}
      BY <1>1, <2>4 DEF Copies
    <3>2. StoredSnapshots'[n] = {s}
      BY <1>2, <3>1, Zenon DEF StoredSnapshots
    <3>3. StoredSnapshots' = [StoredSnapshots EXCEPT ![n] = {s}]
      BY <2>3, <3>2, Zenon DEF StoredSnapshots
    <3> QED BY <2>2, <3>3, Zenon DEF Ledger!Holds
  <2>5. CASE io = "uncertain"
    <3>1. Copies(n)' = Copies(n) \cup {Plain(s)}
      BY <1>1, <2>5 DEF Copies
    <3>2. StoredSnapshots'[n] = {c.snap : c \in Copies(n)' \ {None}}
      BY Zenon DEF StoredSnapshots
    <3>3. StoredSnapshots'[n] = StoredSnapshots[n] \cup {s}
      BY <1>2, <1>3, <2>1, <3>1, <3>2, Zenon
    <3>4. StoredSnapshots' = [StoredSnapshots EXCEPT ![n] = @ \cup {s}]
      BY <2>3, <3>3, Zenon DEF StoredSnapshots
    <3> QED BY <2>2, <3>4, Zenon DEF Ledger!Holds
  <2> QED BY <1>1, <1>8, <2>4, <2>5, Zenon
<1> QED BY <1>6, <1>7, <1>8, Zenon

\* A step of the ledger, or none, and the files stay known.
Refines ==
    /\ [Ledger!LedgerNext]_(Ledger!ledgerVars)
    /\ \A m \in Devices : FileKnown(disk'[m], book')

\* Nothing moves in the ledger.
LEMMA StutterRefines ==
    ASSUME LedgerInvariant, UNCHANGED <<book, disk, late>>
    PROVE  Refines
<1>1. UNCHANGED StoredSnapshots
  BY Zenon DEF StoredSnapshots, Copies
<1>2. \A m \in Devices : FileKnown(disk'[m], book')
  BY Zenon DEF LedgerInvariant
<1> QED BY <1>1, <1>2, Zenon DEF Refines, Ledger!ledgerVars

\* finish_due takes over a snapshot that exists.
LEMMA AdoptRefines ==
    ASSUME DurabilityInvariant, LedgerInvariant, NEW n \in Devices, Adopting(n)
    PROVE  Refines
<1>1. PICK s \in book : Saving(n, s)
  BY Zenon DEF Adopting
<1>2. PICK io \in Outcomes(n, Plain(s)) : SaveTo(n, Plain(s), io)
  BY <1>1, Zenon DEF Saving
<1>3. Up(n) /\ UNCHANGED <<book, late>> /\ s \in Snapshots
  BY Zenon DEF Adopting, DurabilityInvariant, TypeOK
<1>4. CASE io = "failed"
  BY <1>2, <1>3, <1>4, SaveHolds, StutterRefines, Zenon
<1>5. CASE io # "failed"
  <2>1. Ledger!Holds(n, s) /\ \A m \in Devices : FileKnown(disk'[m], book')
    BY <1>2, <1>3, <1>5, SaveHolds, Zenon
  <2>2. Ledger!Adopt(n)
    BY <1>3, <2>1, Zenon DEF Ledger!Adopt
  <2> QED BY <2>1, <2>2, Zenon DEF Refines, Ledger!LedgerNext
<1> QED BY <1>4, <1>5, Zenon

\* A change that is signed, received or pruned extends a snapshot the device surely
\* holds and takes part in.
LEMMA IssueRefines ==
    ASSUME DurabilityInvariant, LedgerInvariant, NEW n \in Devices, Issuing(n)
    PROVE  Refines
<1> DEFINE base == node[n].current
<1>0. Up(n) /\ Participates(n) /\ UNCHANGED late /\ TypeOK /\ base \in Snapshots
  BY NodeFields, Zenon DEF Issuing, DurabilityInvariant
<1> DEFINE Tries(s, io) == SaveTo(n, Plain(s), io) /\ Record(s, io)
<1>a. PICK change \in Changes : \E s \in ChangedSnapshots(book, base, change, late) :
        \E io \in Outcomes(n, Plain(s)) : Tries(s, io)
  BY Zenon DEF Issuing
<1>b. PICK s \in ChangedSnapshots(book, base, change, late) :
        \E io \in Outcomes(n, Plain(s)) : Tries(s, io)
  BY <1>a, Zenon
<1>1. PICK io \in Outcomes(n, Plain(s)) : SaveTo(n, Plain(s), io) /\ Record(s, io)
  BY <1>b, Zenon
<1>2. s \in Snapshots
  BY <1>0, <1>1, ChangedSnapshotsType, Zenon DEF TypeOK
<1>3. CASE io = "failed"
  <2>1. UNCHANGED book
    BY <1>1, <1>3, Zenon DEF Record
  <2> QED BY <1>0, <1>1, <1>2, <1>3, <2>1, SaveHolds, StutterRefines, Zenon
<1>4. CASE io # "failed"
  <2>1. book' = book \cup {s}
    BY <1>1, <1>4, Zenon DEF Record
  <2>2. Ledger!Holds(n, s) /\ \A m \in Devices : FileKnown(disk'[m], book')
    BY <1>0, <1>1, <1>2, <1>4, <2>1, SaveHolds, Zenon
  <2>3. Copies(n) = {disk[n].file} /\ disk[n].file # None /\ disk[n].file.snap = base
    BY <1>0, Zenon DEF DurabilityInvariant, ConfirmedOutsideGate, RoundsCanFinish, Participates,
                Copies
  <2>4. StoredSnapshots[n] = {base}
    BY <2>3, Zenon DEF StoredSnapshots
  <2>5. Ledger!ActiveIn(base, n, late)
    BY <1>0, SameOperators, Zenon DEF Participates
  <2>6. change \in Ledger!Changes /\ s \in Ledger!ChangedSnapshots(book, base, change, late)
    BY <1>1, SameOperators, Zenon
  <2>7. base \in StoredSnapshots[n]
    BY <2>4, Zenon
  <2> HIDE DEF base
  <2>8. Ledger!Issue(n)
    BY <1>0, <2>1, <2>2, <2>4, <2>5, <2>6, <2>7, Zenon DEF Ledger!Issue
  <2> QED BY <2>2, <2>8, Zenon DEF Refines, Ledger!LedgerNext
<1> QED BY <1>3, <1>4, Zenon

\* A power loss keeps one of the copies.
LEMMA SettleRefines ==
    ASSUME DurabilityInvariant, LedgerInvariant, NEW n \in Devices, Settling(n)
    PROVE  Refines
<1>1. PICK c \in Copies(n) : disk' = [disk EXCEPT ![n] = [file |-> c, shadow |-> {}]]
  BY Zenon DEF Settling
<1>2. UNCHANGED <<book, late>> /\ disk \in [Devices -> Disks] /\ FileKnown(disk[n], book)
  BY Zenon DEF Settling, DurabilityInvariant, TypeOK, LedgerInvariant
<1>3. /\ disk'[n] = [file |-> c, shadow |-> {}]
      /\ \A m \in Devices \ {n} : disk'[m] = disk[m]
  BY <1>1, <1>2, Zenon
<1>4. c # None => c \in Contents /\ c.snap \in book /\ AtLeast(Rank(c.snap), Rank(c.snap))
  <2>1. c # None => c \in Contents /\ c.snap \in book
    BY <1>2, Zenon DEF FileKnown, Copies, Disks
  <2> QED BY <2>1, RankType, RankOrder, Zenon DEF Contents
<1>5. \A m \in Devices : FileKnown(disk'[m], book')
  BY <1>2, <1>3, <1>4 DEF FileKnown, LedgerInvariant
<1>6. Copies(n)' = {c} /\ \A m \in Devices \ {n} : StoredSnapshots'[m] = StoredSnapshots[m]
  BY <1>3 DEF Copies, StoredSnapshots
<1>7. CASE c = None
  <2>1. Copies(n) = {None}
    BY <1>2, <1>7, Zenon DEF FileKnown, Copies
  <2>2. StoredSnapshots'[n] = StoredSnapshots[n]
    BY <1>6, <1>7, <2>1, Zenon DEF StoredSnapshots
  <2>3. UNCHANGED StoredSnapshots
    BY <1>6, <2>2, Zenon DEF StoredSnapshots
  <2> QED BY <1>2, <1>5, <2>3, Zenon DEF Refines, Ledger!ledgerVars
<1>8. CASE c # None
  <2>1. c.snap \in StoredSnapshots[n] /\ StoredSnapshots'[n] = {c.snap}
    BY <1>6, <1>8, Zenon DEF StoredSnapshots
  <2>2. StoredSnapshots' = [StoredSnapshots EXCEPT ![n] = {c.snap}]
    BY <1>6, <2>1, Zenon DEF StoredSnapshots
  <2>3. Ledger!Settle(n)
    BY <1>2, <2>1, <2>2, Zenon DEF Ledger!Settle
  <2> QED BY <1>5, <2>3, Zenon DEF Refines, Ledger!LedgerNext
<1> QED BY <1>7, <1>8, Zenon

\* Every step of the runtime is one of the ledger or a stutter.
LEMMA StepRefines ==
    ASSUME DurabilityInvariant, LedgerInvariant, [Next]_vars
    PROVE  Refines /\ LedgerInvariant'
<1>1. Shape /\ RoundsKnown
  BY StepShape, Zenon
<1>2. ASSUME UNCHANGED <<book, disk>>, late' = TRUE PROVE Refines
  <2>1. UNCHANGED StoredSnapshots
    BY <1>2, Zenon DEF StoredSnapshots, Copies
  <2>2. Ledger!Expire
    BY <1>2, <2>1, Zenon DEF Ledger!Expire
  <2>3. \A m \in Devices : FileKnown(disk'[m], book')
    BY <1>2, Zenon DEF LedgerInvariant
  <2> QED BY <2>2, <2>3, Zenon DEF Refines, Ledger!LedgerNext
<1>3. Refines
  BY <1>1, <1>2, StutterRefines, AdoptRefines, IssueRefines, SettleRefines, Zenon DEF Shape
<1>4. \A m \in Devices : RoundKnown(node'[m], book') /\ FileKnown(disk'[m], book')
  BY <1>1, <1>3, Zenon DEF RoundsKnown, Refines
<1>5. LedgerInvariant'
  BY <1>4, Zenon DEF LedgerInvariant, RoundKnown, FileKnown, AtLeast, Less, Rank
<1> QED BY <1>3, <1>5, Zenon

\* The founders start with the founding snapshot, everybody else with nothing.
LEMMA LedgerStarts == Init => LedgerInvariant /\ Ledger!LedgerInit
<1> SUFFICES ASSUME Init PROVE LedgerInvariant /\ Ledger!LedgerInit
  BY Zenon
<1> DEFINE content == Plain(FoundingSnapshot)
<1>1. FoundingSnapshot \in book /\ book \subseteq Snapshots
  BY TypeInit, Zenon DEF Init, TypeOK
<1>2. content.snap = FoundingSnapshot /\ content # None
  BY <1>1, RuntimeAssumption DEF Plain
<1>3. AtLeast(Rank(FoundingSnapshot), Rank(FoundingSnapshot))
  BY <1>1, RankType, RankOrder, Zenon
<1>4. \A n \in Devices : disk[n].shadow = {} /\ disk[n].file \in {content, None}
  BY Zenon DEF Init
<1> HIDE DEF content
<1>5. \A n \in Devices : RoundKnown(node[n], book)
  BY Zenon DEF Init, RoundKnown
<1>6. \A n \in Devices : FileKnown(disk[n], book)
  BY <1>1, <1>2, <1>3, <1>4, Zenon DEF FileKnown
<1>7. StoredSnapshots \in [Devices -> {{}, {FoundingSnapshot}}]
  <2> SUFFICES ASSUME NEW n \in Devices
               PROVE  {c.snap : c \in Copies(n) \ {None}} \in {{}, {FoundingSnapshot}}
    BY Zenon DEF StoredSnapshots
  <2>1. Copies(n) \in {{content}, {None}}
    BY <1>4, Zenon DEF Copies
  <2> QED BY <1>2, <2>1, Zenon
<1>8. Ledger!LedgerInit
  BY <1>7, SameOperators, Zenon DEF Init, Ledger!LedgerInit
<1> QED BY <1>5, <1>6, <1>8, Zenon DEF LedgerInvariant

\* The invariant behind the refinement holds in every reachable state.
LEMMA LedgerInvariantHolds == Spec => []LedgerInvariant
<1>1. Init => LedgerInvariant
  BY LedgerStarts, Zenon
<1>2. DurabilityInvariant /\ LedgerInvariant /\ [Next]_vars => LedgerInvariant'
  BY StepRefines, Zenon
<1> QED BY <1>1, <1>2, DurabilityInvariantHolds, PTL DEF Spec

\* CheckpointRuntime implements MembershipLedger: whatever is written, lost, forked or
\* delivered, snapshots are only added by active members that surely hold their base, and
\* what a device may turn out to hold only rises.
THEOREM RuntimeImplementsLedger == Spec => ImplementsLedger
<1>1. Init => Ledger!LedgerInit
  BY LedgerStarts, Zenon
<1>2. DurabilityInvariant /\ LedgerInvariant /\ [Next]_vars
        => [Ledger!LedgerNext]_(Ledger!ledgerVars)
  BY StepRefines, Zenon DEF Refines
<1> QED
  BY <1>1, <1>2, DurabilityInvariantHolds, LedgerInvariantHolds, PTL
     DEF Spec, ImplementsLedger, Ledger!LedgerSpec

-----------------------------------------------------------------------------
(* Incarnations.                                                           *)

\* A digest names one snapshot of its revision, every snapshot but the founding one has
\* its base in the book, incarnations are older than the snapshot they are in, and one
\* that appears is bound to the base.
BookSound(B) ==
    /\ \A s \in B, t \in B : s.revision = t.revision /\ s.digest = t.digest => s = t
    /\ \A s \in B : s.revision > 0 => \E t \in B : Derives(t, s)
    /\ \A s \in B : \A d \in DOMAIN s.members :
         \/ s.members[d].incarnation = Genesis
         \/ s.members[d].incarnation[1] < s.revision
    /\ \A t \in B, s \in B : Derives(t, s) =>
         \A d \in DOMAIN s.members \ DOMAIN t.members :
           s.members[d].incarnation = Boundary(t)

\* The members a change leaves were there before, or are new and bound to the base.
LEMMA ChangeBinds ==
    ASSUME NEW s, NEW change, NEW isLate,
           NEW d \in DOMAIN ChangedMembers(s, change, isLate)
    PROVE  LET inc == ChangedMembers(s, change, isLate)[d].incarnation
           IN  /\ d \in DOMAIN s.members => inc = s.members[d].incarnation
               /\ d \notin DOMAIN s.members => inc = Boundary(s)
<1>1. CASE change.op = "UpsertMember"
  <2>1. ChangedMembers(s, change, isLate) = Upserted(s, change.subject)
    BY <1>1, Zenon DEF ChangedMembers
  <2>2. d \in DOMAIN s.members \cup {change.subject}
    BY <2>1, Zenon DEF Upserted
  <2>3. CASE d = change.subject
    BY <2>1, <2>2, <2>3 DEF Upserted, AdmissionIncarnation
  <2>4. CASE d # change.subject
    BY <2>1, <2>2, <2>4, Zenon DEF Upserted
  <2> QED BY <2>3, <2>4, Zenon
<1>2. CASE change.op # "UpsertMember"
  <2>1. ChangedMembers(s, change, isLate) = [x \in Kept(s, change, isLate) |-> s.members[x]]
    BY <1>2, Zenon DEF ChangedMembers
  <2>2. Kept(s, change, isLate) \subseteq DOMAIN s.members
    BY Zenon DEF Kept
  <2> QED BY <2>1, <2>2, Zenon
<1> QED BY <1>1, <1>2, Zenon

\* Recording a change of a snapshot in the book keeps it sound.
LEMMA BookStep ==
    ASSUME NEW B \in SUBSET Snapshots, BookSound(B), NEW base \in B,
           NEW change \in Changes, NEW isLate \in BOOLEAN,
           NEW s \in ChangedSnapshots(B, base, change, isLate)
    PROVE  BookSound(B \cup {s})
<1> DEFINE members == ChangedMembers(base, change, isLate)
<1>1. s \in Snapshots /\ Derives(base, s)
  BY ChangedSnapshotsType DEF Derives
<1>2. s \in Digested(B, base.revision + 1, base.digest, members)
  BY Zenon DEF ChangedSnapshots
<1>3. CASE s \in B
  <2>1. B \cup {s} = B
    BY <1>3, Zenon
  <2> QED BY <2>1, Zenon
<1>4. CASE s \notin B
  <2>0. \A t \in B \cup {s} : t.revision \in Nat /\ t.digest \in Nat
    BY <1>1, CheckpointAssumption DEF Snapshots, Digests
  <2>1. /\ s.members = members
        /\ \A t \in B : t.revision = s.revision => t.digest # s.digest
    <3> HIDE DEF members
    <3> QED BY <1>2, <1>4, Zenon DEF Digested
  <2>2. \A d \in DOMAIN s.members :
          /\ d \in DOMAIN base.members =>
               s.members[d].incarnation = base.members[d].incarnation
          /\ d \notin DOMAIN base.members => s.members[d].incarnation = Boundary(base)
    BY <2>1, ChangeBinds
  <2>3. \A t \in B : Derives(t, s) => t = base
    <3> SUFFICES ASSUME NEW t \in B, Derives(t, s) PROVE t = base
      BY Zenon
    <3>1. t.revision = base.revision /\ t.digest = base.digest
      BY <1>1, <2>0 DEF Derives
    <3> QED BY <3>1, Zenon DEF BookSound
  <2>4. ~Derives(s, s)
    BY <2>0 DEF Derives
  <2>5. \A t \in B : ~Derives(s, t)
    <3> SUFFICES ASSUME NEW t \in B, Derives(s, t) PROVE FALSE
      BY Zenon
    <3>1. t.revision > 0
      BY <2>0 DEF Derives
    <3>2. PICK u \in B : Derives(u, t)
      BY <3>1, Zenon DEF BookSound
    <3>3. u.revision = s.revision /\ u.digest = s.digest
      BY <2>0, <3>2 DEF Derives
    <3> QED BY <2>1, <3>3, Zenon
  <2>6. \A d \in DOMAIN s.members :
          s.members[d].incarnation = Genesis \/ s.members[d].incarnation[1] < s.revision
    <3> SUFFICES ASSUME NEW d \in DOMAIN s.members
                 PROVE  \/ s.members[d].incarnation = Genesis
                        \/ s.members[d].incarnation[1] < s.revision
      BY Zenon
    <3>1. s.revision = base.revision + 1
      BY <1>1, Zenon DEF Derives
    <3>2. CASE d \in DOMAIN base.members
      <4>1. \/ base.members[d].incarnation = Genesis
            \/ base.members[d].incarnation[1] < base.revision
        BY <3>2, Zenon DEF BookSound
      <4>2. base.members[d].incarnation[1] \in Nat
        BY <3>2, CheckpointAssumption DEF Snapshots, Rosters, Entries, Incarnations
      <4> QED BY <2>0, <2>2, <3>1, <3>2, <4>1, <4>2
    <3>3. CASE d \notin DOMAIN base.members
      BY <2>0, <2>2, <3>1, <3>3 DEF Boundary
    <3> QED BY <3>2, <3>3, Zenon
  <2> HIDE DEF members
  <2>7. \A x \in B \cup {s}, y \in B \cup {s} :
          x.revision = y.revision /\ x.digest = y.digest => x = y
    BY <2>1, Zenon DEF BookSound
  <2>8. \A x \in B \cup {s} : x.revision > 0 => \E t \in B \cup {s} : Derives(t, x)
    BY <1>1, Zenon DEF BookSound
  <2>9. \A x \in B \cup {s} : \A d \in DOMAIN x.members :
          x.members[d].incarnation = Genesis \/ x.members[d].incarnation[1] < x.revision
    BY <2>6, Zenon DEF BookSound
  <2>10. \A t \in B \cup {s}, x \in B \cup {s} : Derives(t, x) =>
           \A d \in DOMAIN x.members \ DOMAIN t.members :
             x.members[d].incarnation = Boundary(t)
    BY <2>2, <2>3, <2>4, <2>5, Zenon DEF BookSound
  <2> QED BY <2>7, <2>8, <2>9, <2>10, Zenon DEF BookSound
<1> QED BY <1>3, <1>4, Zenon

\* The book stays sound: only an issuing step adds to it.
LEMMA BookSoundHolds == Spec => []BookSound(book)
<1>1. Init => BookSound(book)
  <2> SUFFICES ASSUME Init PROVE BookSound(book)
    BY Zenon
  <2>1. book = {FoundingSnapshot} /\ FoundingSnapshot.revision = 0
    BY Zenon DEF Init, FoundingSnapshot
  <2>2. \A d \in DOMAIN FoundingSnapshot.members :
          FoundingSnapshot.members[d].incarnation = Genesis
    BY Zenon DEF FoundingSnapshot
  <2>3. \A s \in book, t \in book : ~Derives(t, s)
    BY <2>1 DEF Derives
  <2> QED BY <2>1, <2>2, <2>3 DEF BookSound
<1>2. DurabilityInvariant /\ LedgerInvariant /\ BookSound(book) /\ [Next]_vars
        => BookSound(book)'
  <2> SUFFICES ASSUME DurabilityInvariant, LedgerInvariant, BookSound(book), [Next]_vars
               PROVE  BookSound(book')
    BY Zenon DEF BookSound, Derives, Boundary
  <2>1. book' # book => \E n \in Devices : Issuing(n)
    BY StepShape, Zenon DEF Shape, Adopting, Settling
  <2>2. ASSUME NEW n \in Devices, Issuing(n) PROVE BookSound(book')
    <3> DEFINE base == node[n].current
               Tries(s, io) == SaveTo(n, Plain(s), io) /\ Record(s, io)
    <3>1. PICK change \in Changes : \E s \in ChangedSnapshots(book, base, change, late) :
            \E io \in Outcomes(n, Plain(s)) : Tries(s, io)
      BY <2>2, Zenon DEF Issuing
    <3>2. PICK s \in ChangedSnapshots(book, base, change, late) :
            \E io \in Outcomes(n, Plain(s)) : Tries(s, io)
      BY <3>1, Zenon
    <3>3. book' \in {book, book \cup {s}}
      BY <3>2, Zenon DEF Record
    <3>4. base \in book /\ book \in SUBSET Snapshots /\ late \in BOOLEAN
      BY <2>2, CurrentKnown, Zenon DEF Issuing, DurabilityInvariant, TypeOK
    <3>5. BookSound(book \cup {s})
      BY <3>2, <3>4, BookStep, Zenon
    <3> QED BY <3>3, <3>5, Zenon
  <2> QED BY <2>1, <2>2, Zenon
<1> QED BY <1>1, <1>2, DurabilityInvariantHolds, LedgerInvariantHolds, PTL DEF Spec

\* admission_incarnation: a device that one snapshot drops and the next admits again
\* does not have its former incarnation, on any branch and after any faults.
THEOREM IncarnationsUnbroken == Spec => []IncarnationsAreUnbroken
<1>1. DurabilityInvariant /\ BookSound(book) => IncarnationsAreUnbroken
  <2> SUFFICES ASSUME DurabilityInvariant, BookSound(book),
                      NEW a \in book, NEW b \in book, NEW c \in book,
                      Derives(a, b), Derives(b, c),
                      NEW d \in DOMAIN a.members \cap DOMAIN c.members,
                      a.members[d].incarnation = c.members[d].incarnation,
                      d \notin DOMAIN b.members
               PROVE  FALSE
    BY Zenon DEF IncarnationsAreUnbroken
  <2>1. c.members[d].incarnation = Boundary(b)
    BY Zenon DEF BookSound
  <2>2. a.members[d].incarnation = Genesis \/ a.members[d].incarnation[1] < a.revision
    BY Zenon DEF BookSound
  <2>3. a.revision \in Nat /\ b.revision = a.revision + 1
    BY CheckpointAssumption DEF DurabilityInvariant, TypeOK, Snapshots, Derives
  <2> QED BY <2>1, <2>2, <2>3 DEF Boundary, Genesis
<1> QED BY <1>1, DurabilityInvariantHolds, BookSoundHolds, PTL
=============================================================================
