----------------------------- MODULE Checkpoint -----------------------------
(***************************************************************************)
(* The cooperative checkpoint core (src/membership/checkpoint.rs): rank-   *)
(* ordered membership snapshots and the signed changes that extend them.   *)
(*                                                                         *)
(* A snapshot is a value.  SHA-256 is modelled as a random oracle: the set *)
(* of snapshots that exist is passed in as `book`, content that is already *)
(* in the book keeps its digest, and new content gets any digest that its  *)
(* revision does not use yet.  Digests need to be distinct per revision    *)
(* only, because the code never compares two digests without comparing     *)
(* the revisions beside them (boundary, parent check, rank).               *)
(***************************************************************************)
EXTENDS Naturals, FiniteSets

CONSTANTS Devices,      \* peer identities
          Founders,     \* members of the revision-0 checkpoint
          Temporary,    \* founders whose membership carries an expiry
          MaxRevision,  \* stands for MAX_MEMBERSHIP_RECORD_INTEGER
          MaxForks      \* bound: distinct snapshots per revision

ASSUME CheckpointAssumption ==
    /\ \A roster \in SUBSET Devices : Cardinality(roster) \in Nat
    /\ Founders \in SUBSET Devices
    /\ Founders # {}
    /\ Temporary \in SUBSET Founders
    /\ MaxRevision \in Nat
    /\ MaxForks \in Nat \ {0}

Digests == 1..MaxForks

\* CheckpointBoundary, the identity of a snapshot.
Boundary(s) == <<s.revision, s.digest>>

\* The parent digest of a revision-0 snapshot, and the incarnation its
\* members get from a nonce rather than from a boundary.
NoParent == 0
Genesis == <<0, 0>>

Incarnations == (0..MaxRevision) \X (0..MaxForks)
Entries == [incarnation : Incarnations, expires : BOOLEAN]
Rosters == UNION {[M -> Entries] : M \in SUBSET Devices}
Snapshots == [revision : 0..MaxRevision, digest : Digests,
              parent : 0..MaxForks, members : Rosters]

-----------------------------------------------------------------------------
(* Rank: revision, then member count, then digest.                         *)

Ranks == Nat \X Nat \X Nat

Rank(s) == <<s.revision, Cardinality(DOMAIN s.members), s.digest>>

Less(r, t) ==
    \/ r[1] < t[1]
    \/ r[1] = t[1] /\ r[2] < t[2]
    \/ r[1] = t[1] /\ r[2] = t[2] /\ r[3] < t[3]

AtLeast(r, t) == ~Less(r, t)

\* Mutant of Higher: only revisions are compared, so forks stay.
HigherRevision(s, t) == IF t.revision < s.revision THEN s ELSE t

Higher(s, t) == IF Less(Rank(t), Rank(s)) THEN s ELSE t

-----------------------------------------------------------------------------
(* Members and the signed changes.  `late` is the wall clock: TRUE once    *)
(* the expiry of the temporary entries has passed.                         *)

ActiveEntry(entry, late) == ~(entry.expires /\ late)

ActiveIn(s, d, late) ==
    d \in DOMAIN s.members /\ ActiveEntry(s.members[d], late)

Participation(s, d, late) ==
    IF ActiveIn(s, d, late) THEN "Participating" ELSE "Excluded"

Changes == [op : {"UpsertMember", "RemoveMember"}, subject : Devices]
           \cup {[op |-> "PruneExpired"]}

\* Mutant of AdmissionIncarnation: not bound to the base.
AdmissionIncarnationUnbound(s, d) ==
    IF d \in DOMAIN s.members THEN s.members[d].incarnation ELSE Genesis

\* admission_incarnation: a subject that is not a member gets an incarnation
\* derived from the base; a member that is there keeps its own.
AdmissionIncarnation(s, d) ==
    IF d \in DOMAIN s.members THEN s.members[d].incarnation ELSE Boundary(s)

Upserted(s, subject) ==
    [d \in DOMAIN s.members \cup {subject} |->
       IF d = subject
       THEN [incarnation |-> AdmissionIncarnation(s, d), expires |-> FALSE]
       ELSE s.members[d]]

Kept(s, change, late) ==
    IF change.op = "RemoveMember" THEN DOMAIN s.members \ {change.subject}
    ELSE {d \in DOMAIN s.members : ActiveIn(s, d, late)}

ChangedMembers(s, change, late) ==
    IF change.op = "UpsertMember" THEN Upserted(s, change.subject)
    ELSE [d \in Kept(s, change, late) |-> s.members[d]]

\* digest(): what the oracle may answer for this content.
Digested(book, revision, parent, members) ==
    LET used == {s \in book : s.revision = revision}
        known == {s \in used : s.parent = parent /\ s.members = members}
    IN  IF known # {} THEN known
        ELSE [revision : {revision}, parent : {parent}, members : {members},
              digest : Digests \ {s.digest : s \in used}]

\* changed_snapshot: empty for NoAuthorityChange and RevisionExhausted.
ChangedSnapshots(book, s, change, late) ==
    LET members == ChangedMembers(s, change, late)
    IN  IF members = s.members \/ s.revision + 1 > MaxRevision THEN {}
        ELSE Digested(book, s.revision + 1, s.digest, members)

\* validate_mutation, for a change signed by the issuer against base.
ValidMutation(current, issuer, base, late) ==
    /\ base = Boundary(current)
    /\ ActiveIn(current, issuer, late)

\* The revision-0 checkpoint the founders share.
FoundingSnapshot ==
    [revision |-> 0, digest |-> 1, parent |-> NoParent,
     members |-> [d \in Founders |->
                    [incarnation |-> Genesis, expires |-> d \in Temporary]]]
=============================================================================
