------------------------ MODULE HostnameClaimsProofs ------------------------
(***************************************************************************)
(* Proofs about hostname claims, for any number of devices, labels, forks  *)
(* and sequence numbers.                                                   *)
(***************************************************************************)
EXTENDS HostnameClaims, TLAPS

-----------------------------------------------------------------------------
(* The merge.                                                              *)

\* What two claims are compared by.
Comparable(claim) == claim.sequence \in Nat /\ claim.label \in Nat

\* The names beside a snapshot: each verifies against it and can be compared.
Sound(names, snap) ==
    FitRoster(names, snap) /\ \A d \in Devices : names[d] # None => Comparable(names[d])

\* Claims are ordered by their sequence and then by their label.
LEMMA SupersedesOrder ==
    ASSUME NEW a, NEW b, NEW c, Comparable(a), Comparable(b), Comparable(c)
    PROVE  /\ ~Supersedes(a, a)
           /\ Supersedes(a, b) => ~Supersedes(b, a)
           /\ Supersedes(a, b) /\ Supersedes(b, c) => Supersedes(a, c)
           /\ Supersedes(a, b) \/ Supersedes(b, a)
                \/ (a.sequence = b.sequence /\ a.label = b.label)
BY DEF Comparable, Supersedes

\* compatible_hostnames keeps what verifies and nothing else.
LEMMA CompatibleSound ==
    ASSUME NEW snap, NEW names, \A d \in Devices : names[d] # None => Comparable(names[d])
    PROVE  /\ Sound(CompatibleNames(snap, names), snap)
           /\ \A d \in Devices : names[d] # None /\ Fits(names[d], snap, d) =>
                CompatibleNames(snap, names)[d] = names[d]
BY DEF Sound, CompatibleNames, FitRoster

\* The merge takes every claim from one of its arguments.
LEMMA MergeSound ==
    ASSUME NEW snap, NEW a, NEW b, Sound(a, snap), Sound(b, snap)
    PROVE  Sound(MergeNames(a, b), snap)
<1>1. \A d \in Devices : MergeNames(a, b)[d] \in {a[d], b[d]}
  BY DEF MergeNames, NewerClaim
<1> QED BY <1>1 DEF Sound, FitRoster

\* The merge is no step back for its first argument.
LEMMA MergeAdvances ==
    ASSUME NEW snap, NEW a, NEW b, Sound(a, snap), Sound(b, snap), NEW s
    PROVE  HostnameProgress(a, s, MergeNames(a, b))
<1> SUFFICES ASSUME NEW d \in Devices, a[d] # None
             PROVE  MergeNames(a, b)[d] # None /\ ~Supersedes(a[d], MergeNames(a, b)[d])
  BY DEF HostnameProgress
<1>1. MergeNames(a, b)[d] = NewerClaim(a[d], b[d])
  BY DEF MergeNames
<1>2. Comparable(a[d]) /\ (b[d] # None => Comparable(b[d]))
  BY DEF Sound
<1>3. CASE b[d] # None /\ Supersedes(b[d], a[d])
  BY <1>1, <1>2, <1>3, SupersedesOrder DEF NewerClaim
<1>4. CASE b[d] = None \/ ~Supersedes(b[d], a[d])
  <2>1. NewerClaim(a[d], b[d]) = a[d]
    BY <1>4 DEF NewerClaim
  <2> QED BY <1>1, <1>2, <2>1, SupersedesOrder
<1> QED BY <1>3, <1>4

\* The claims of one incarnation of a device, and none.
OfMember(incarnation) == {c \in Claims : c.incarnation = incarnation} \cup {None}

\* Two claims that verify and neither of which supersedes the other are the same.
LEMMA NewerClaimOrder ==
    ASSUME NEW i, NEW a \in OfMember(i), NEW b \in OfMember(i), NEW c \in OfMember(i)
    PROVE  /\ NewerClaim(a, b) = NewerClaim(b, a)
           /\ NewerClaim(a, NewerClaim(b, c)) = NewerClaim(NewerClaim(a, b), c)
           /\ NewerClaim(a, a) = a
<1>1. \A x \in OfMember(i) : x # None => Comparable(x)
  <2> SUFFICES ASSUME NEW x \in OfMember(i), x # None
               PROVE  Comparable(x)
    OBVIOUS
  <2>1. x \in Claims
    BY DEF OfMember
  <2>2. x.sequence \in 1..MaxSequence /\ x.label \in Labels
    BY <2>1 DEF Claims
  <2>3. Labels \subseteq Nat /\ MaxSequence \in Nat
    BY HostnameAssumption
  <2>4. x.sequence \in Nat
    BY <2>2, <2>3
  <2>5. x.label \in Nat
    BY <2>2, <2>3
  <2> QED BY <2>4, <2>5 DEF Comparable
<1>2. \A x, y \in OfMember(i) :
        x # None /\ y # None /\ x.sequence = y.sequence /\ x.label = y.label => x = y
  BY DEF OfMember, Claims
<1>3. \A x, y \in OfMember(i) : x # None /\ y # None =>
        /\ ~Supersedes(x, x)
        /\ Supersedes(x, y) => ~Supersedes(y, x)
        /\ Supersedes(x, y) \/ Supersedes(y, x) \/ x = y
  BY <1>1, <1>2, SupersedesOrder
<1>4. \A x, y, z \in OfMember(i) : x # None /\ y # None /\ z # None =>
        (Supersedes(x, y) /\ Supersedes(y, z) => Supersedes(x, z))
  BY <1>1, SupersedesOrder
<1> QED BY <1>3, <1>4 DEF NewerClaim

\* merge_hostnames does not depend on the order in which the offers of a round come
\* in: among names that verify against one snapshot it is commutative, associative
\* and idempotent.
THEOREM MergeIgnoresOrder ==
    ASSUME NEW snap, NEW a \in Names, NEW b \in Names, NEW c \in Names,
           FitRoster(a, snap), FitRoster(b, snap), FitRoster(c, snap)
    PROVE  /\ MergeNames(a, b) = MergeNames(b, a)
           /\ MergeNames(a, MergeNames(b, c)) = MergeNames(MergeNames(a, b), c)
           /\ MergeNames(a, a) = a
<1>1. ASSUME NEW d \in Devices
      PROVE  /\ NewerClaim(a[d], b[d]) = NewerClaim(b[d], a[d])
             /\ NewerClaim(a[d], NewerClaim(b[d], c[d]))
                  = NewerClaim(NewerClaim(a[d], b[d]), c[d])
             /\ NewerClaim(a[d], a[d]) = a[d]
  <2> DEFINE i == snap.members[d].incarnation
  <2>1. a[d] \in OfMember(i) /\ b[d] \in OfMember(i) /\ c[d] \in OfMember(i)
    BY DEF Names, FitRoster, Fits, OfMember
  <2> HIDE DEF i
  <2> QED BY <2>1, NewerClaimOrder
<1>2. MergeNames(a, b) = MergeNames(b, a)
  BY <1>1 DEF MergeNames
<1>3. MergeNames(a, MergeNames(b, c)) = MergeNames(MergeNames(a, b), c)
  <2>1. \A d \in Devices : /\ MergeNames(b, c)[d] = NewerClaim(b[d], c[d])
                           /\ MergeNames(a, b)[d] = NewerClaim(a[d], b[d])
    BY DEF MergeNames
  <2> QED BY <1>1, <2>1 DEF MergeNames
<1>4. MergeNames(a, a) = a
  BY <1>1 DEF MergeNames, Names
<1> QED BY <1>2, <1>3, <1>4

-----------------------------------------------------------------------------
(* The inductive invariant.                                                *)

Shaped(s) == DOMAIN s = {"snap", "names", "open", "round"}

RoundSound(round) ==
    round # None =>
      /\ DOMAIN round = {"best", "names", "attempted", "inbox"}
      /\ Sound(round.names, round.best)
      /\ \A o \in round.inbox : \A d \in Devices :
           o.names[d] # None => Comparable(o.names[d])

StateSound(s) == Shaped(s) /\ Sound(s.names, s.snap) /\ RoundSound(s.round)

\* NamesFitRoster, and that every claim that is retained, selected or in an offer
\* on its way can be compared: the merge needs both.
HostInvariant ==
    DOMAIN device = Devices /\ \A n \in Devices : StateSound(device[n])

\* A step of one device that leaves its names sound and no step back.
Advances(n, s) ==
    StateSound(s) /\ HostnameProgress(device[n].names, s.snap, s.names)

Progress ==
    \A n \in Devices : HostnameProgress(device[n].names, device'[n].snap, device'[n].names)

\* Names that stay are no step back.
LEMMA SameProgress ==
    ASSUME NEW snap, NEW names, Sound(names, snap), NEW s
    PROVE  HostnameProgress(names, s, names)
<1>1. \A d \in Devices : names[d] # None => ~Supersedes(names[d], names[d])
  BY SupersedesOrder DEF Sound
<1> QED BY <1>1 DEF HostnameProgress

\* Names that only leave with their membership are no step back.
LEMMA CompatibleProgress ==
    ASSUME NEW snap, NEW names, Sound(names, snap), NEW s
    PROVE  HostnameProgress(names, s, CompatibleNames(s, names))
<1>1. \A d \in Devices : names[d] # None => Comparable(names[d])
  BY DEF Sound
<1>2. \A d \in Devices : names[d] # None => ~Supersedes(names[d], names[d])
  BY <1>1, SupersedesOrder
<1> QED BY <1>1, <1>2, CompatibleSound DEF HostnameProgress

\* The other devices keep their names.
LEMMA BecomeKeeps ==
    ASSUME HostInvariant, NEW n \in Devices, NEW s, Become(n, s), Advances(n, s)
    PROVE  HostInvariant' /\ Progress
<1>1. DOMAIN device' = Devices
  BY DEF Become, HostInvariant
<1>2. device'[n] = s /\ \A m \in Devices : m # n => device'[m] = device[m]
  BY DEF Become, HostInvariant
<1>3. \A m \in Devices : HostnameProgress(device[m].names, device[m].snap, device[m].names)
  BY SameProgress DEF HostInvariant, StateSound
<1>4. HostInvariant'
  BY <1>1, <1>2 DEF HostInvariant, Advances
<1>5. Progress
  BY <1>2, <1>3 DEF Progress, Advances
<1> QED BY <1>4, <1>5

-----------------------------------------------------------------------------
(* The steps.                                                              *)

\* reconcile_local_hostname: the new claim verifies and supersedes the former one.
LEMMA RenameStep ==
    ASSUME HostInvariant, NEW n \in Devices, NEW label \in Labels, Rename(n, label)
    PROVE  HostInvariant' /\ Progress
<1> DEFINE own == device[n].names[n]
           claim == [incarnation |-> device[n].snap.members[n].incarnation,
                     sequence |-> IF own = None THEN 1 ELSE own.sequence + 1,
                     label |-> label]
           added == [NoNames EXCEPT ![n] = claim]
           s == [device[n] EXCEPT !.names = MergeNames(@, added)]
<1>1. StateSound(device[n])
  BY DEF HostInvariant
<1>2. n \in DOMAIN device[n].snap.members
  BY DEF Rename, Participates, ActiveIn
<1>3. claim.incarnation = device[n].snap.members[n].incarnation /\ claim.label = label
  OBVIOUS
<1>4. claim.sequence \in Nat
  BY <1>1 DEF StateSound, Sound, Comparable
<1>5. label \in Nat
  BY HostnameAssumption
<1>6. Become(n, s)
  BY DEF Rename
<1> HIDE DEF claim
<1>7. added[n] = claim /\ \A d \in Devices : d # n => added[d] = None
  BY DEF NoNames
<1>8. Sound(added, device[n].snap)
  BY <1>2, <1>3, <1>4, <1>5, <1>7 DEF Sound, FitRoster, Fits, Comparable
<1> HIDE DEF added
<1>9. /\ Shaped(s) /\ s.snap = device[n].snap /\ s.round = device[n].round
      /\ s.names = MergeNames(device[n].names, added)
  BY <1>1 DEF StateSound, Shaped
<1> HIDE DEF s
<1>10. Sound(s.names, s.snap)
  BY <1>1, <1>8, <1>9, MergeSound DEF StateSound
<1>11. HostnameProgress(device[n].names, s.snap, s.names)
  BY <1>1, <1>8, <1>9, MergeAdvances DEF StateSound
<1>12. Advances(n, s)
  BY <1>1, <1>9, <1>10, <1>11 DEF Advances, StateSound
<1> QED BY <1>6, <1>12, BecomeKeeps

\* apply_change: a claim goes with the membership it was made for.
LEMMA ChangeStep ==
    ASSUME HostInvariant, NEW n \in Devices, NEW change, Change(n, change)
    PROVE  HostInvariant' /\ Progress
<1>1. PICK snap : Become(n, [device[n] EXCEPT !.snap = snap,
                                              !.names = CompatibleNames(snap, @)])
  BY Zenon DEF Change
<1> DEFINE s == [device[n] EXCEPT !.snap = snap, !.names = CompatibleNames(snap, @)]
<1>2. StateSound(device[n])
  BY DEF HostInvariant
<1>3. /\ Shaped(s) /\ s.snap = snap /\ s.round = device[n].round
      /\ s.names = CompatibleNames(snap, device[n].names)
  BY <1>2 DEF StateSound, Shaped
<1>4. Become(n, s)
  BY <1>1
<1> HIDE DEF s
<1>5. \A d \in Devices : device[n].names[d] # None => Comparable(device[n].names[d])
  BY <1>2 DEF StateSound, Sound
<1>6. Sound(s.names, s.snap)
  BY <1>3, <1>5, CompatibleSound
<1>7. HostnameProgress(device[n].names, s.snap, s.names)
  BY <1>2, <1>3, CompatibleProgress DEF StateSound
<1>8. Advances(n, s)
  BY <1>2, <1>3, <1>6, <1>7 DEF Advances, StateSound
<1> QED BY <1>4, <1>8, BecomeKeeps

\* rebase_live_resync_on_installed: the round selects among both states.
LEMMA RebasedSound ==
    ASSUME NEW round, RoundSound(round), NEW snap, NEW names, Sound(names, snap)
    PROVE  RoundSound(RebasedRound(round, snap, names))
<1> SUFFICES ASSUME round # None
             PROVE  RoundSound(RebasedRound(round, snap, names))
  BY DEF RebasedRound, RoundSound
<1> DEFINE best == Higher(snap, round.best)
           own == CompatibleNames(best, round.names)
           other == CompatibleNames(best, names)
           r == [round EXCEPT !.best = best, !.names = MergeNames(own, other)]
<1>1. RebasedRound(round, snap, names) = r
  BY DEF RebasedRound
<1> HIDE DEF best
<1>2. \A d \in Devices : round.names[d] # None => Comparable(round.names[d])
  BY DEF RoundSound, Sound
<1>3. \A d \in Devices : names[d] # None => Comparable(names[d])
  BY DEF Sound
<1>4. Sound(own, best) /\ Sound(other, best)
  BY <1>2, <1>3, CompatibleSound
<1> HIDE DEF own, other
<1>5. Sound(MergeNames(own, other), best)
  BY <1>4, MergeSound
<1>6. /\ DOMAIN r = DOMAIN round /\ r.best = best /\ r.inbox = round.inbox
      /\ r.names = MergeNames(own, other)
  BY DEF RoundSound
<1> HIDE DEF r
<1>7. RoundSound(r)
  BY <1>5, <1>6 DEF RoundSound
<1> QED BY <1>1, <1>7

\* incoming_mutation_outcome: the change applies to the state and to the open round.
LEMMA ReceiveStep ==
    ASSUME HostInvariant, NEW n \in Devices, NEW m, Receive(n, m)
    PROVE  HostInvariant' /\ Progress
<1>1. PICK snap : LET names == CompatibleNames(snap, device[n].names)
                  IN  Become(n, [device[n] EXCEPT !.snap = snap, !.names = names,
                                   !.round = RebasedRound(@, snap, names)])
  BY Zenon DEF Receive
<1> DEFINE names == CompatibleNames(snap, device[n].names)
           s == [device[n] EXCEPT !.snap = snap, !.names = names,
                                  !.round = RebasedRound(@, snap, names)]
<1>2. StateSound(device[n])
  BY DEF HostInvariant
<1>3. Become(n, s)
  BY <1>1
<1>4. \A d \in Devices : device[n].names[d] # None => Comparable(device[n].names[d])
  BY <1>2 DEF StateSound, Sound
<1>5. Sound(names, snap)
  BY <1>4, CompatibleSound
<1>6. HostnameProgress(device[n].names, snap, names)
  BY <1>2, CompatibleProgress DEF StateSound
<1> HIDE DEF names
<1>7. /\ Shaped(s) /\ s.snap = snap /\ s.names = names
      /\ s.round = RebasedRound(device[n].round, snap, names)
  BY <1>2 DEF StateSound, Shaped
<1> HIDE DEF s
<1>8. RoundSound(s.round)
  BY <1>2, <1>5, <1>7, RebasedSound DEF StateSound
<1>9. Advances(n, s)
  BY <1>5, <1>6, <1>7, <1>8 DEF Advances, StateSound
<1> QED BY <1>3, <1>9, BecomeKeeps

\* A step of the round leaves the device's own state alone.
LEMMA RoundStep ==
    ASSUME HostInvariant, NEW n \in Devices, NEW s, Become(n, s), NEW round,
           s = [device[n] EXCEPT !.round = round], RoundSound(round)
    PROVE  HostInvariant' /\ Progress
<1>1. StateSound(device[n])
  BY DEF HostInvariant
<1>2. /\ Shaped(s) /\ s.snap = device[n].snap /\ s.names = device[n].names
      /\ s.round = round
  BY <1>1 DEF StateSound, Shaped
<1>3. HostnameProgress(device[n].names, s.snap, s.names)
  BY <1>1, <1>2, SameProgress DEF StateSound
<1>4. Advances(n, s)
  BY <1>1, <1>2, <1>3 DEF Advances, StateSound
<1> QED BY <1>4, BecomeKeeps

\* begin_resync starts from the retained state.
LEMMA BeginStep ==
    ASSUME HostInvariant, NEW n \in Devices, Begin(n)
    PROVE  HostInvariant' /\ Progress
<1> DEFINE round == [best |-> device[n].snap, names |-> device[n].names,
                     attempted |-> {}, inbox |-> {}]
           s == [device[n] EXCEPT !.round = round]
<1>1. RoundSound(round)
  BY DEF HostInvariant, StateSound, RoundSound
<1>2. Become(n, s)
  BY DEF Begin
<1> HIDE DEF round
<1> QED BY <1>1, <1>2, RoundStep

\* make_offer_at: an offer carries what its publisher retains.
LEMMA AskStep ==
    ASSUME HostInvariant, NEW n \in Devices, NEW p \in Devices, Ask(n, p)
    PROVE  HostInvariant' /\ Progress
<1> DEFINE old == device[n].round
           offer == [publisher |-> p, snap |-> device[p].snap, names |-> device[p].names]
           round == [old EXCEPT !.attempted = @ \cup {p}, !.inbox = @ \cup {offer}]
           s == [device[n] EXCEPT !.round = round]
<1>1. StateSound(device[n]) /\ StateSound(device[p])
  BY DEF HostInvariant
<1>2. old # None
  BY DEF Ask
<1>3. /\ DOMAIN round = DOMAIN old /\ round.best = old.best /\ round.names = old.names
      /\ round.inbox = old.inbox \cup {offer}
  BY <1>1, <1>2 DEF StateSound, RoundSound
<1>4. \A d \in Devices : offer.names[d] # None => Comparable(offer.names[d])
  BY <1>1 DEF StateSound, Sound
<1>5. Become(n, s)
  <2>1. DOMAIN device[n] = {"snap", "names", "open", "round"}
    BY <1>1 DEF StateSound, Shaped
  <2> DEFINE u == [device[n] EXCEPT !.round.attempted = @ \cup {p},
                                    !.round.inbox = @ \cup {offer}]
  <2> HIDE DEF offer
  <2>2. /\ DOMAIN u = DOMAIN device[n] /\ u.snap = device[n].snap
        /\ u.names = device[n].names /\ u.open = device[n].open
    BY <2>1
  <2>3. u.round = round
    BY <2>1
  <2>4. u = s
    BY <2>1, <2>2, <2>3
  <2>5. Become(n, u)
    BY DEF Ask, offer
  <2> QED BY <2>4, <2>5
<1> HIDE DEF offer, round
<1>6. RoundSound(round)
  BY <1>1, <1>2, <1>3, <1>4 DEF StateSound, RoundSound
<1> QED BY <1>5, <1>6, RoundStep

\* collect_offer: the round keeps what verifies against the snapshot it selects.
LEMMA CollectStep ==
    ASSUME HostInvariant, NEW n \in Devices, NEW o \in Inbox(n), Collect(n, o)
    PROVE  HostInvariant' /\ Progress
<1> DEFINE old == device[n].round
           best == Higher(o.snap, old.best)
           own == CompatibleNames(best, old.names)
           other == CompatibleNames(best, o.names)
           names == MergeNames(own, other)
           stale == Less(Rank(o.snap), Rank(device[n].snap))
           round == [old EXCEPT !.inbox = @ \ {o},
                                !.best = IF stale THEN @ ELSE best,
                                !.names = IF stale THEN @ ELSE names]
           s == [device[n] EXCEPT !.round = round]
<1>1. RoundSound(old) /\ old # None /\ o \in old.inbox
  BY DEF HostInvariant, StateSound, Inbox
<1>2. Become(n, s)
  BY DEF Collect
<1> HIDE DEF best, stale
<1>3. \A d \in Devices : old.names[d] # None => Comparable(old.names[d])
  BY <1>1 DEF RoundSound, Sound
<1>4. \A d \in Devices : o.names[d] # None => Comparable(o.names[d])
  BY <1>1 DEF RoundSound
<1>5. Sound(own, best) /\ Sound(other, best)
  BY <1>3, <1>4, CompatibleSound
<1> HIDE DEF own, other
<1>6. Sound(names, best)
  BY <1>5, MergeSound
<1> HIDE DEF names
<1>7. /\ DOMAIN round = DOMAIN old /\ round.inbox = old.inbox \ {o}
      /\ round.best = IF stale THEN old.best ELSE best
      /\ round.names = IF stale THEN old.names ELSE names
  BY <1>1 DEF RoundSound
<1> HIDE DEF round
<1>8. RoundSound(round)
  BY <1>1, <1>6, <1>7 DEF RoundSound
<1> QED BY <1>2, <1>8, RoundStep

\* finish_due: the store's guard is what keeps a round from taking a name back.
LEMMA FinishStep ==
    ASSUME HostInvariant, NEW n \in Devices, Finish(n)
    PROVE  HostInvariant' /\ Progress
<1> DEFINE round == device[n].round
           t == [snap |-> round.best, names |-> round.names, open |-> TRUE, round |-> None]
           u == [device[n] EXCEPT !.open = FALSE, !.round = None]
<1>1. StateSound(device[n]) /\ RoundSound(round) /\ round # None
  BY DEF HostInvariant, StateSound, Finish
<1>2. CASE HostnameProgress(device[n].names, round.best, round.names)
  <2>1. Become(n, t)
    BY <1>2 DEF Finish
  <2>2. Shaped(t) /\ t.snap = round.best /\ t.names = round.names /\ t.round = None
    BY DEF Shaped
  <2> HIDE DEF t
  <2>3. Advances(n, t)
    BY <1>1, <1>2, <2>2 DEF Advances, StateSound, RoundSound
  <2> QED BY <2>1, <2>3, BecomeKeeps
<1>3. CASE ~HostnameProgress(device[n].names, round.best, round.names)
  <2>1. Become(n, u)
    BY <1>3 DEF Finish
  <2>2. /\ Shaped(u) /\ u.snap = device[n].snap /\ u.names = device[n].names
        /\ u.round = None
    BY <1>1 DEF StateSound, Shaped
  <2> HIDE DEF u
  <2>3. HostnameProgress(device[n].names, u.snap, u.names)
    BY <1>1, <2>2, SameProgress DEF StateSound
  <2>4. Advances(n, u)
    BY <1>1, <2>2, <2>3 DEF Advances, StateSound, RoundSound
  <2> QED BY <2>1, <2>4, BecomeKeeps
<1> QED BY <1>2, <1>3

-----------------------------------------------------------------------------
(* The theorems.                                                           *)

LEMMA HostInitially == HostInit => HostInvariant
<1> SUFFICES ASSUME HostInit PROVE HostInvariant
  OBVIOUS
<1>1. DOMAIN device = Devices
  BY DEF HostInit
<1>2. ASSUME NEW n \in Devices PROVE StateSound(device[n])
  <2>1. device[n] = [snap |-> FoundingSnapshot, names |-> NoNames,
                     open |-> n \in Founders, round |-> None]
    BY DEF HostInit
  <2>2. /\ DOMAIN device[n] = {"snap", "names", "open", "round"}
        /\ device[n].names = NoNames /\ device[n].round = None
    BY <2>1
  <2>3. \A d \in Devices : NoNames[d] = None
    BY DEF NoNames
  <2> QED BY <2>2, <2>3 DEF StateSound, Shaped, Sound, FitRoster, RoundSound
<1> QED BY <1>1, <1>2 DEF HostInvariant

LEMMA HostStep == HostInvariant /\ [HostNext]_hostVars => HostInvariant' /\ Progress
<1> SUFFICES ASSUME HostInvariant, [HostNext]_hostVars PROVE HostInvariant' /\ Progress
  OBVIOUS
<1>1. Named \subseteq Devices /\ Founders \subseteq Devices /\ Resyncing \subseteq Devices
  BY CheckpointAssumption, HostnameAssumption
<1>2. ASSUME NEW n \in Named, NEW label \in Labels, Rename(n, label)
      PROVE  HostInvariant' /\ Progress
  BY <1>1, <1>2, RenameStep
<1>3. ASSUME NEW n \in Founders, NEW change \in Changes, Change(n, change)
      PROVE  HostInvariant' /\ Progress
  BY <1>1, <1>3, ChangeStep
<1>4. ASSUME NEW n \in Founders, NEW m \in wire, Receive(n, m)
      PROVE  HostInvariant' /\ Progress
  BY <1>1, <1>4, ReceiveStep
<1>5. ASSUME NEW n \in Resyncing, Begin(n)
      PROVE  HostInvariant' /\ Progress
  BY <1>1, <1>5, BeginStep
<1>6. ASSUME NEW n \in Resyncing, NEW p \in Founders, Ask(n, p)
      PROVE  HostInvariant' /\ Progress
  BY <1>1, <1>6, AskStep
<1>7. ASSUME NEW n \in Resyncing, NEW o \in Inbox(n), Collect(n, o)
      PROVE  HostInvariant' /\ Progress
  BY <1>1, <1>7, CollectStep
<1>8. ASSUME NEW n \in Resyncing, Finish(n)
      PROVE  HostInvariant' /\ Progress
  BY <1>1, <1>8, FinishStep
<1>9. CASE UNCHANGED hostVars
  <2>1. device' = device
    BY <1>9 DEF hostVars
  <2>2. \A m \in Devices : HostnameProgress(device[m].names, device[m].snap, device[m].names)
    BY SameProgress DEF HostInvariant, StateSound
  <2> QED BY <2>1, <2>2 DEF HostInvariant, Progress
<1> QED BY <1>2, <1>3, <1>4, <1>5, <1>6, <1>7, <1>8, <1>9 DEF HostNext

\* The strengthening holds in every state.
THEOREM HostInvariantHolds == HostSpec => []HostInvariant
BY HostInitially, HostStep, PTL DEF HostSpec

\* validate_names: every claim that is retained or selected verifies against the
\* snapshot beside it.
THEOREM NamesFit == HostSpec => []NamesFitRoster
<1>1. HostInvariant => NamesFitRoster
  BY CheckpointAssumption
  DEF HostInvariant, NamesFitRoster, StateSound, RoundSound, Sound
<1> QED BY <1>1, HostInvariantHolds, PTL

\* validate_hostname_progress: no step replaces a retained claim by an older one or
\* forgets it while its membership lasts.
THEOREM NamesAdvance == HostSpec => NamesNeverRegress
<1>1. HostInvariant /\ [HostNext]_hostVars =>
        [\A n \in Founders :
           HostnameProgress(device[n].names, device'[n].snap, device'[n].names)]_hostVars
  BY HostStep, CheckpointAssumption DEF Progress
<1> QED BY <1>1, HostInvariantHolds, PTL DEF HostSpec, NamesNeverRegress
=============================================================================
