-------------------------- MODULE MembershipLedger --------------------------
(***************************************************************************)
(* What the checkpoint runtime promises about membership authority, with   *)
(* no processes, messages or files: a tree of snapshots grown only by      *)
(* active members, and for each device the snapshots its storage may hold. *)
(***************************************************************************)
EXTENDS Checkpoint

VARIABLES
    book,    \* the snapshots that exist
    copies,  \* per device, the snapshots its storage may turn out to hold
    late     \* the expiry of temporary members has passed

ledgerVars == <<book, copies, late>>

LedgerInit ==
    /\ book = {FoundingSnapshot}
    /\ copies \in [Devices -> {{}, {FoundingSnapshot}}]
    /\ late = FALSE

\* A device comes to hold s, possibly without knowing that its older copies
\* are gone; s never ranks below any of them.
Holds(n, s) ==
    /\ \A t \in copies[n] : AtLeast(Rank(s), Rank(t))
    /\ \/ copies' = [copies EXCEPT ![n] = {s}]
       \/ copies' = [copies EXCEPT ![n] = @ \cup {s}]

\* An active member of a snapshot it surely holds extends it by one change.
Issue(n) ==
    \E base \in copies[n], change \in Changes :
      /\ copies[n] = {base}
      /\ ActiveIn(base, n, late)
      /\ \E s \in ChangedSnapshots(book, base, change, late) :
           book' = book \cup {s} /\ Holds(n, s)
      /\ UNCHANGED late

\* A device takes over a snapshot that exists.
Adopt(n) ==
    /\ \E s \in book : Holds(n, s)
    /\ UNCHANGED <<book, late>>

\* A crash settles which copy survived.
Settle(n) ==
    /\ \E s \in copies[n] : copies' = [copies EXCEPT ![n] = {s}]
    /\ UNCHANGED <<book, late>>

Expire ==
    /\ late' = TRUE
    /\ UNCHANGED <<book, copies>>

LedgerNext == Expire \/ \E n \in Devices : Issue(n) \/ Adopt(n) \/ Settle(n)

LedgerSpec == LedgerInit /\ [][LedgerNext]_ledgerVars
=============================================================================
