----------------------- MODULE MutationHandoffProofs ------------------------
(***************************************************************************)
(* The delivery ledger of a handoff stays in step with its requests, with  *)
(* what the recipients installed and with the report, for every number of  *)
(* recipients, every window and every order of answers and timeouts.       *)
(***************************************************************************)
EXTENDS MutationHandoff, FiniteSetTheorems, TLAPS

\* The request of the attempt that is under way for p.
RequestFor(h, p) ==
    [handoff |-> h.number, peer |-> p, attempt |-> h.recipients[p].attempts]

RequestsOf(h) == {RequestFor(h, p) : p \in InFlight(h)}

AcknowledgedIn(h) == {p \in DOMAIN h.recipients : h.recipients[p].state = "Acknowledged"}

Reports == [recipients : Nat, acknowledged : Nat, failed : Nat, pending : Nat]

HandoffTypeOK ==
    /\ now \in Nat /\ issued \in Nat
    /\ handoff \in Handoffs \cup {NoHandoff}
    /\ report \in Reports

\* RequestsMatchDeliveries with the attempt a request was sent for.
HandoffInvariant ==
    /\ HandoffTypeOK
    /\ requests = IF handoff = NoHandoff THEN {} ELSE RequestsOf(handoff)
    /\ AcknowledgedMeansInstalled
    /\ ReportAccounts

-----------------------------------------------------------------------------
(* The operations of the ledger.                                           *)

\* What the handoffs of the type are.
LEMMA HandoffParts ==
    ASSUME NEW h \in Handoffs
    PROVE  /\ h.number \in Nat /\ h.deadline \in Nat
           /\ h = [number |-> h.number, deadline |-> h.deadline, recipients |-> h.recipients]
           /\ DOMAIN h.recipients \in SUBSET Recipients
           /\ h.recipients \in [DOMAIN h.recipients -> Deliveries]
BY DEF Handoffs

\* A ledger with other deliveries is a handoff again.
LEMMA HandoffAgain ==
    ASSUME NEW h \in Handoffs, NEW rs \in [DOMAIN h.recipients -> Deliveries]
    PROVE  /\ [h EXCEPT !.recipients = rs] \in Handoffs
           /\ [h EXCEPT !.recipients = rs].number = h.number
           /\ [h EXCEPT !.recipients = rs].deadline = h.deadline
           /\ [h EXCEPT !.recipients = rs].recipients = rs
BY HandoffParts DEF Handoffs

LEMMA ResolveDeliveryType ==
    ASSUME now \in Nat, NEW del \in Deliveries, NEW outcome
    PROVE  /\ ResolveDelivery(del, outcome) \in Deliveries
           /\ ResolveDelivery(del, outcome).state # "InFlight"
           /\ ResolveDelivery(del, outcome).state = "Acknowledged" => outcome = "Acknowledged"
           /\ ResolveDelivery(del, outcome).attempts = del.attempts
<1> DEFINE out == ResolveDelivery(del, outcome)
           Becomes(state, at) == out = [attempts |-> del.attempts, state |-> state, at |-> at]
<1>1. CASE outcome = "Acknowledged"
  <2>1. Becomes("Acknowledged", 0)
    BY <1>1, Zenon DEF ResolveDelivery, Deliveries
  <2> QED BY <1>1, <2>1 DEF Deliveries, States
<1>2. CASE outcome # "Acknowledged" /\ outcome = "RetryableFailure" /\ del.attempts < MaxAttempts
  <2>1. Becomes("Ready", now + 1)
    BY <1>2, Zenon DEF ResolveDelivery, Deliveries, RetryDelay
  <2> QED BY <2>1 DEF Deliveries, States
<1>3. CASE outcome # "Acknowledged" /\ ~(outcome = "RetryableFailure" /\ del.attempts < MaxAttempts)
  <2>1. Becomes("Failed", 0)
    BY <1>3, Zenon DEF ResolveDelivery, Deliveries
  <2> QED BY <2>1 DEF Deliveries, States
<1> QED BY <1>1, <1>2, <1>3

\* advance_clock ends deliveries and starts or acknowledges none.
LEMMA AdvanceClockShape ==
    ASSUME now \in Nat, NEW h \in Handoffs
    PROVE  LET after == AdvanceClock(h)
           IN  /\ after \in Handoffs
               /\ after.number = h.number
               /\ DOMAIN after.recipients = DOMAIN h.recipients
               /\ InFlight(after) \subseteq InFlight(h)
               /\ \A p \in InFlight(after) : after.recipients[p] = h.recipients[p]
               /\ AcknowledgedIn(after) = AcknowledgedIn(h)
<1> DEFINE D == DOMAIN h.recipients
           New(p) == IF now >= h.deadline /\ Pending(h.recipients[p])
                     THEN [h.recipients[p] EXCEPT !.state = "Failed", !.at = 0]
                     ELSE IF /\ now < h.deadline
                             /\ h.recipients[p].state = "InFlight" /\ now >= h.recipients[p].at
                     THEN ResolveDelivery(h.recipients[p], "RetryableFailure")
                     ELSE h.recipients[p]
           rs == [p \in D |-> New(p)]
<1>0. h.recipients \in [D -> Deliveries]
  BY HandoffParts
<1>1. AdvanceClock(h) = [h EXCEPT !.recipients = rs]
  BY HandoffParts DEF AdvanceClock
<1>2. ASSUME NEW p \in D
      PROVE  /\ New(p) \in Deliveries
             /\ New(p).state = "InFlight" => New(p) = h.recipients[p]
             /\ New(p).state = "Acknowledged" <=> h.recipients[p].state = "Acknowledged"
  <2> DEFINE del == h.recipients[p]
             out == ResolveDelivery(del, "RetryableFailure")
  <2>1. del \in Deliveries
    BY <1>0
  <2>2. out \in Deliveries /\ out.state \notin {"InFlight", "Acknowledged"}
    BY <2>1, ResolveDeliveryType
  <2> HIDE DEF out
  <2>3. CASE now >= h.deadline /\ Pending(del)
    <3>1. New(p) = [attempts |-> del.attempts, state |-> "Failed", at |-> 0]
      BY <2>1, <2>3, Zenon DEF Deliveries
    <3> QED BY <2>1, <2>3, <3>1 DEF Pending, Deliveries, States
  <2>4. CASE ~(now >= h.deadline /\ Pending(del)) /\ now < h.deadline
             /\ del.state = "InFlight" /\ now >= del.at
    <3>1. New(p) = out
      BY <2>4 DEF out
    <3> QED BY <2>2, <2>4, <3>1
  <2>5. CASE ~(now >= h.deadline /\ Pending(del))
             /\ ~(now < h.deadline /\ del.state = "InFlight" /\ now >= del.at)
    BY <2>1, <2>5
  <2> QED BY <2>3, <2>4, <2>5
<1> HIDE DEF New
<1>3. rs \in [DOMAIN h.recipients -> Deliveries]
  BY <1>2
<1>4. /\ AdvanceClock(h) \in Handoffs
      /\ AdvanceClock(h).number = h.number
      /\ AdvanceClock(h).recipients = rs
  <2> HIDE DEF rs, D
  <2> QED BY <1>1, <1>3, HandoffAgain
<1>5. /\ DOMAIN rs = D
      /\ \A p \in D : rs[p] = New(p)
  OBVIOUS
<1> HIDE DEF rs
<1> QED BY <1>2, <1>4, <1>5 DEF InFlight, AcknowledgedIn

\* resolve ends the delivery of p, if it is in flight, and acknowledges no other.
LEMMA ResolveShape ==
    ASSUME now \in Nat, NEW h \in Handoffs, NEW p, NEW outcome
    PROVE  LET after == Resolve(h, p, outcome)
           IN  /\ after \in Handoffs
               /\ after.number = h.number
               /\ DOMAIN after.recipients = DOMAIN h.recipients
               /\ InFlight(after) \subseteq InFlight(h) \ {p}
               /\ \A q \in InFlight(after) : after.recipients[q] = h.recipients[q]
               /\ InFlight(AdvanceClock(h)) \ {p} \subseteq InFlight(after)
               /\ AcknowledgedIn(after) \subseteq
                    AcknowledgedIn(h) \cup (IF outcome = "Acknowledged" THEN {p} ELSE {})
<1> DEFINE mid == AdvanceClock(h)
           del == ResolveDelivery(mid.recipients[p], outcome)
           rs == [mid.recipients EXCEPT ![p] = del]
<1>1. /\ mid \in Handoffs /\ mid.number = h.number
      /\ DOMAIN mid.recipients = DOMAIN h.recipients
      /\ InFlight(mid) \subseteq InFlight(h)
      /\ \A q \in InFlight(mid) : mid.recipients[q] = h.recipients[q]
      /\ AcknowledgedIn(mid) = AcknowledgedIn(h)
  BY AdvanceClockShape
<1>2. Resolve(h, p, outcome) = IF p \in InFlight(mid) THEN [mid EXCEPT !.recipients[p] = del]
                               ELSE mid
  BY DEF Resolve
<1> HIDE DEF mid
<1>3. CASE p \in InFlight(mid)
  <2>1. p \in DOMAIN mid.recipients /\ mid.recipients[p] \in Deliveries
    BY <1>1, <1>3, HandoffParts DEF InFlight
  <2>2. /\ del \in Deliveries /\ del.state # "InFlight"
        /\ del.state = "Acknowledged" => outcome = "Acknowledged"
    BY <2>1, ResolveDeliveryType
  <2>3. /\ rs \in [DOMAIN mid.recipients -> Deliveries]
        /\ DOMAIN rs = DOMAIN mid.recipients
        /\ rs[p] = del
        /\ \A q \in DOMAIN rs \ {p} : rs[q] = mid.recipients[q]
    BY <1>1, <2>1, <2>2, HandoffParts
  <2>4. Resolve(h, p, outcome) = [mid EXCEPT !.recipients = rs]
    BY <1>2, <1>3
  <2> HIDE DEF rs, del
  <2>5. /\ Resolve(h, p, outcome) \in Handoffs
        /\ Resolve(h, p, outcome).number = h.number
        /\ Resolve(h, p, outcome).recipients = rs
    BY <1>1, <2>3, <2>4, HandoffAgain
  <2> HIDE DEF Resolve
  <2> QED BY <1>1, <2>2, <2>3, <2>5 DEF InFlight, AcknowledgedIn, mid
<1>4. CASE p \notin InFlight(mid)
  BY <1>1, <1>2, <1>4 DEF mid
<1> QED BY <1>3, <1>4

\* The loop of drive_mutations leaves what is in flight alone and acknowledges nothing.
LEMMA AttemptReadyShape ==
    ASSUME now \in Nat, NEW h \in Handoffs, NEW connected
    PROVE  LET after == AttemptReady(h, connected)
           IN  /\ after \in Handoffs
               /\ after.number = h.number
               /\ DOMAIN after.recipients = DOMAIN h.recipients
               /\ InFlight(h) \subseteq InFlight(after)
               /\ \A q \in InFlight(h) : after.recipients[q] = h.recipients[q]
               /\ AcknowledgedIn(after) = AcknowledgedIn(h)
<1> DEFINE New(p) == IF p \in Reached(h, connected)
                     THEN Attempted(h, h.recipients[p], p \in connected) ELSE h.recipients[p]
           rs == [p \in DOMAIN h.recipients |-> New(p)]
<1>1. AttemptReady(h, connected) = [h EXCEPT !.recipients = rs]
  BY HandoffParts DEF AttemptReady
<1>2. ASSUME NEW p \in DOMAIN h.recipients
      PROVE  /\ New(p) \in Deliveries
             /\ h.recipients[p].state = "InFlight" => New(p) = h.recipients[p]
             /\ New(p).state = "Acknowledged" <=> h.recipients[p].state = "Acknowledged"
  <2> DEFINE del == h.recipients[p]
             tried == [del EXCEPT !.attempts = @ + 1]
  <2>1. del \in Deliveries /\ h.deadline \in Nat
    BY HandoffParts
  <2>2. tried \in Deliveries
    BY <2>1 DEF Deliveries
  <2>3. CASE p \notin Reached(h, connected)
    BY <2>1, <2>3
  <2>4. CASE p \in Reached(h, connected) /\ p \in connected
    <3> DEFINE at == IF now + AttemptWindow < h.deadline THEN now + AttemptWindow
                     ELSE h.deadline
    <3>1. New(p) = [attempts |-> del.attempts + 1, state |-> "InFlight", at |-> at]
      BY <2>1, <2>4, Zenon DEF Attempted, Deliveries
    <3>2. at \in Nat
      BY <2>1, HandoffAssumption
    <3>3. del.state = "Ready"
      BY <2>4 DEF Reached, ReadyNow
    <3> QED BY <2>1, <3>1, <3>2, <3>3 DEF Deliveries, States
  <2>5. CASE p \in Reached(h, connected) /\ p \notin connected
    <3>1. New(p) = ResolveDelivery(tried, "RetryableFailure")
      BY <2>5 DEF Attempted
    <3>2. /\ New(p) \in Deliveries /\ New(p).state # "Acknowledged"
      BY <2>2, <3>1, ResolveDeliveryType
    <3>3. del.state = "Ready"
      BY <2>5 DEF Reached, ReadyNow
    <3> QED BY <3>2, <3>3
  <2> QED BY <2>3, <2>4, <2>5
<1> HIDE DEF New
<1>3. /\ rs \in [DOMAIN h.recipients -> Deliveries]
      /\ DOMAIN rs = DOMAIN h.recipients
      /\ \A p \in DOMAIN h.recipients : rs[p] = New(p)
  BY <1>2
<1> HIDE DEF rs
<1>4. /\ AttemptReady(h, connected) \in Handoffs
      /\ AttemptReady(h, connected).number = h.number
      /\ AttemptReady(h, connected).recipients = rs
  BY <1>1, <1>3, HandoffAgain
<1> QED BY <1>2, <1>3, <1>4 DEF InFlight, AcknowledgedIn

\* Every recipient is counted once in a report.
LEMMA ReportSums ==
    ASSUME NEW h \in Handoffs
    PROVE  /\ Report(h) \in Reports
           /\ Report(h).recipients =
                Report(h).acknowledged + Report(h).failed + Report(h).pending
<1> DEFINE D == DOMAIN h.recipients
           Of(states) == {p \in D : h.recipients[p].state \in states}
           A == Of({"Acknowledged"})
           F == Of({"Failed"})
           P == Of({"Ready", "InFlight"})
<1>1. IsFiniteSet(D)
  BY HandoffParts, HandoffAssumption, FS_Subset
<1>2. D = (A \cup F) \cup P
  BY HandoffParts DEF Deliveries, States
<1>3. A \cap F = {} /\ (A \cup F) \cap P = {}
  OBVIOUS
<1>4. IsFiniteSet(A) /\ IsFiniteSet(F) /\ IsFiniteSet(P) /\ IsFiniteSet(A \cup F)
  <2>1. A \subseteq D /\ F \subseteq D /\ P \subseteq D /\ A \cup F \subseteq D
    OBVIOUS
  <2> HIDE DEF A, F, P, D
  <2> QED BY <1>1, <2>1, FS_Subset
<1>5. Report(h) = [recipients |-> Cardinality(D), acknowledged |-> Cardinality(A),
                   failed |-> Cardinality(F), pending |-> Cardinality(P)]
  BY DEF Report, Count
<1> HIDE DEF A, F, P, D
<1>6. /\ Cardinality(A \cup F) = Cardinality(A) + Cardinality(F)
      /\ Cardinality(D) = Cardinality(A \cup F) + Cardinality(P)
      /\ Cardinality(A) \in Nat /\ Cardinality(F) \in Nat /\ Cardinality(P) \in Nat
  <2>1. /\ Cardinality(A) \in Nat /\ Cardinality(F) \in Nat /\ Cardinality(P) \in Nat
        /\ Cardinality(A \cup F) \in Nat
    BY <1>4, FS_CardinalityType
  <2>2. Cardinality({}) = 0
    BY FS_EmptySet
  <2>3. Cardinality(A \cup F) = Cardinality(A) + Cardinality(F) - Cardinality(A \cap F)
    BY <1>4, FS_Union
  <2>4. Cardinality((A \cup F) \cup P)
          = Cardinality(A \cup F) + Cardinality(P) - Cardinality((A \cup F) \cap P)
    BY <1>4, FS_Union
  <2>5. Cardinality(A \cap F) = 0 /\ Cardinality((A \cup F) \cap P) = 0
    BY <1>3, <2>2
  <2>6. Cardinality(D) = Cardinality((A \cup F) \cup P)
    BY <1>2
  <2> QED BY <2>1, <2>3, <2>4, <2>5, <2>6
<1> QED BY <1>5, <1>6 DEF Reports

\* finish_handoff_if_due keeps exactly the requests of what is still in flight.
LEMMA SettleKeeps ==
    ASSUME now \in Nat, report \in Reports, ReportAccounts,
           NEW h \in Handoffs, NEW reqs, Settle(h, reqs),
           \A p \in InFlight(h) : RequestFor(h, p) \in reqs,
           \A r \in reqs : r.peer \in InFlight(h) => r = RequestFor(h, r.peer)
    PROVE  /\ handoff' \in Handoffs \cup {NoHandoff}
           /\ requests' = IF handoff' = NoHandoff THEN {} ELSE RequestsOf(handoff')
           /\ report' \in Reports /\ ReportAccounts'
           /\ handoff' # NoHandoff => /\ handoff'.number = h.number
                                 /\ AcknowledgedIn(handoff') = AcknowledgedIn(h)
<1> DEFINE after == AdvanceClock(h)
<1>1. /\ after \in Handoffs /\ after.number = h.number
      /\ InFlight(after) \subseteq InFlight(h)
      /\ \A p \in InFlight(after) : after.recipients[p] = h.recipients[p]
      /\ AcknowledgedIn(after) = AcknowledgedIn(h)
  BY AdvanceClockShape
<1>2. /\ Report(after) \in Reports
      /\ Report(after).recipients =
           Report(after).acknowledged + Report(after).failed + Report(after).pending
  BY <1>1, ReportSums
<1>3. /\ handoff' = IF Report(after).pending = 0 THEN NoHandoff ELSE after
      /\ requests' = IF Report(after).pending = 0 THEN {}
                     ELSE {r \in reqs : r.peer \in InFlight(after)}
      /\ report' = IF Report(after).pending = 0 THEN Report(after) ELSE report
  BY DEF Settle
<1> HIDE DEF after
<1>4. CASE Report(after).pending = 0
  <2>1. handoff' = NoHandoff /\ requests' = {} /\ report' = Report(after)
    BY <1>3, <1>4
  <2> QED BY <1>2, <1>4, <2>1 DEF ReportAccounts, Reports
<1>5. CASE Report(after).pending # 0
  <2>1. handoff' = after /\ report' = report
        /\ requests' = {r \in reqs : r.peer \in InFlight(after)}
    BY <1>3, <1>5
  <2>2. \A p \in InFlight(after) : RequestFor(after, p) = RequestFor(h, p)
    BY <1>1 DEF RequestFor
  <2>3. requests' \subseteq RequestsOf(after)
    <3> SUFFICES ASSUME NEW r \in requests' PROVE r \in RequestsOf(after)
      OBVIOUS
    <3>1. r.peer \in InFlight(after) /\ r = RequestFor(h, r.peer)
      BY <1>1, <2>1
    <3> QED BY <2>2, <3>1 DEF RequestsOf
  <2>4. RequestsOf(after) \subseteq requests'
    <3> SUFFICES ASSUME NEW p \in InFlight(after) PROVE RequestFor(after, p) \in requests'
      BY DEF RequestsOf
    <3>1. RequestFor(h, p) \in reqs /\ RequestFor(h, p).peer = p
      BY <1>1 DEF RequestFor
    <3> QED BY <2>1, <2>2, <3>1
  <2>5. after # NoHandoff
    BY <1>1, NoHandoffAssumption
  <2> QED BY <1>1, <2>1, <2>3, <2>4, <2>5 DEF ReportAccounts
<1> QED BY <1>4, <1>5

\* The requests of the invariant are the ones SettleKeeps asks for.
LEMMA RequestsOwned ==
    ASSUME NEW h \in Handoffs
    PROVE  /\ \A p \in InFlight(h) : RequestFor(h, p) \in RequestsOf(h)
           /\ \A r \in RequestsOf(h) : /\ r.peer \in InFlight(h)
                                       /\ r = RequestFor(h, r.peer)
                                       /\ r.handoff = h.number
BY DEF RequestsOf, RequestFor

-----------------------------------------------------------------------------
(* The steps.                                                              *)

\* A settled ledger satisfies the invariant when what it acknowledges is installed.
LEMMA SettledHolds ==
    ASSUME HandoffInvariant, NEW h \in Handoffs, NEW reqs, Settle(h, reqs),
           \A p \in InFlight(h) : RequestFor(h, p) \in reqs,
           \A r \in reqs : r.peer \in InFlight(h) => r = RequestFor(h, r.peer),
           \A p \in AcknowledgedIn(h) : <<h.number, p>> \in installed',
           now' \in Nat, issued' \in Nat
    PROVE  HandoffInvariant'
<1>1. /\ handoff' \in Handoffs \cup {NoHandoff}
      /\ requests' = IF handoff' = NoHandoff THEN {} ELSE RequestsOf(handoff')
      /\ report' \in Reports /\ ReportAccounts'
      /\ handoff' # NoHandoff => /\ handoff'.number = h.number
                            /\ AcknowledgedIn(handoff') = AcknowledgedIn(h)
  BY SettleKeeps DEF HandoffInvariant, HandoffTypeOK
<1>2. AcknowledgedMeansInstalled'
  BY <1>1 DEF AcknowledgedMeansInstalled, AcknowledgedIn
<1> QED BY <1>1, <1>2 DEF HandoffInvariant, HandoffTypeOK, RequestsOf, RequestFor, InFlight

LEMMA ApplyHolds ==
    ASSUME HandoffInvariant, NEW rs \in SUBSET Recipients, ApplyWithHandoff(rs)
    PROVE  HandoffInvariant'
<1> DEFINE h == NewHandoff(issued + 1, rs)
<1>1. now \in Nat /\ issued \in Nat /\ requests = {}
  BY DEF HandoffInvariant, HandoffTypeOK, ApplyWithHandoff
<1>2. h = [number |-> issued + 1, deadline |-> now + HandoffWindow,
           recipients |-> [p \in rs |-> [attempts |-> 0, state |-> "Ready", at |-> now]]]
  BY DEF NewHandoff
<1>3. h \in Handoffs
  BY <1>1, <1>2, HandoffAssumption DEF Handoffs, Deliveries, States
<1>4. InFlight(h) = {} /\ AcknowledgedIn(h) = {}
  BY <1>2 DEF InFlight, AcknowledgedIn
<1>5. Settle(h, requests) /\ now' = now /\ issued' = issued + 1
  BY DEF ApplyWithHandoff
<1> HIDE DEF h
<1> QED BY <1>1, <1>3, <1>4, <1>5, SettledHolds

LEMMA DriveHolds ==
    ASSUME HandoffInvariant, NEW connected \in SUBSET Recipients, DriveMutations(connected)
    PROVE  HandoffInvariant'
<1> DEFINE before == AdvanceClock(handoff)
           after == AttemptReady(before, connected)
           kept == {r \in requests : r.peer \in InFlight(before)}
           fresh == {RequestFor(after, p) : p \in InFlight(after) \ InFlight(before)}
<1>1. /\ now \in Nat /\ issued \in Nat /\ handoff \in Handoffs /\ report \in Reports
      /\ requests = RequestsOf(handoff)
      /\ now' = now /\ issued' = issued /\ installed' = installed
  BY DEF HandoffInvariant, HandoffTypeOK, DriveMutations
<1>2. \A p \in AcknowledgedIn(handoff) : <<handoff.number, p>> \in installed
  BY <1>1, NoHandoffAssumption DEF HandoffInvariant, AcknowledgedMeansInstalled, AcknowledgedIn
<1>3. CASE Report(before).pending = 0
  <2>1. Settle(handoff, requests)
    BY <1>3 DEF DriveMutations
  <2> QED BY <1>1, <1>2, <2>1, RequestsOwned, SettledHolds
<1>4. CASE Report(before).pending # 0
  <2>1. handoff' = after /\ requests' = kept \cup fresh /\ report' = report
    BY <1>4 DEF DriveMutations, RequestFor
  <2>2. /\ before \in Handoffs /\ before.number = handoff.number
        /\ InFlight(before) \subseteq InFlight(handoff)
        /\ \A p \in InFlight(before) : before.recipients[p] = handoff.recipients[p]
        /\ AcknowledgedIn(before) = AcknowledgedIn(handoff)
    BY <1>1, AdvanceClockShape
  <2> HIDE DEF before
  <2>3. /\ after \in Handoffs /\ after.number = before.number
        /\ InFlight(before) \subseteq InFlight(after)
        /\ \A p \in InFlight(before) : after.recipients[p] = before.recipients[p]
        /\ AcknowledgedIn(after) = AcknowledgedIn(before)
    BY <1>1, <2>2, AttemptReadyShape
  <2> HIDE DEF after
  <2>4. \A p \in InFlight(before) : RequestFor(after, p) = RequestFor(handoff, p)
    BY <2>2, <2>3 DEF RequestFor
  <2>5. kept = {RequestFor(after, p) : p \in InFlight(before)}
    <3>1. ASSUME NEW r \in kept PROVE r \in {RequestFor(after, p) : p \in InFlight(before)}
      <4>1. r.peer \in InFlight(before) /\ r = RequestFor(handoff, r.peer)
        BY <1>1, RequestsOwned
      <4> QED BY <2>4, <4>1
    <3>2. ASSUME NEW p \in InFlight(before) PROVE RequestFor(after, p) \in kept
      <4>1. RequestFor(handoff, p) \in requests /\ RequestFor(handoff, p).peer = p
        BY <1>1, <2>2, RequestsOwned DEF RequestFor
      <4> QED BY <2>4, <4>1
    <3> QED BY <3>1, <3>2
  <2>6. requests' = RequestsOf(after)
    BY <2>1, <2>3, <2>5 DEF RequestsOf
  <2>7. AcknowledgedMeansInstalled'
    BY <1>1, <1>2, <2>1, <2>2, <2>3 DEF AcknowledgedMeansInstalled, AcknowledgedIn
  <2>8. after # NoHandoff
    BY <2>3, NoHandoffAssumption
  <2>9. requests' = IF handoff' = NoHandoff THEN {} ELSE RequestsOf(handoff')
    BY <2>1, <2>6, <2>8
  <2> QED BY <1>1, <2>1, <2>3, <2>7, <2>9
          DEF HandoffInvariant, HandoffTypeOK, ReportAccounts, RequestsOf, RequestFor, InFlight
<1> QED BY <1>3, <1>4

\* An answer or a failure: the request that is resolved owns its delivery, so only
\* an answer with the boundary acknowledges, and then for this command.
LEMMA ResolvedHolds ==
    ASSUME HandoffInvariant, handoff # NoHandoff, NEW request, NEW outcome,
           Resolved(request, outcome),
           installed \subseteq installed',
           outcome = "Acknowledged" => <<request.handoff, request.peer>> \in installed',
           now' \in Nat, issued' \in Nat
    PROVE  HandoffInvariant'
<1> DEFINE mid == AdvanceClock(handoff)
           h == IF request \in requests THEN Resolve(mid, request.peer, outcome) ELSE mid
           reqs == requests \ {request}
<1>1. now \in Nat /\ handoff \in Handoffs /\ requests = RequestsOf(handoff)
  BY DEF HandoffInvariant, HandoffTypeOK
<1>2. \A p \in AcknowledgedIn(handoff) : <<handoff.number, p>> \in installed'
  BY DEF HandoffInvariant, AcknowledgedMeansInstalled, AcknowledgedIn
<1>3. Settle(h, reqs)
  BY DEF Resolved
<1>4. /\ mid \in Handoffs /\ mid.number = handoff.number
      /\ InFlight(mid) \subseteq InFlight(handoff)
      /\ \A p \in InFlight(mid) : mid.recipients[p] = handoff.recipients[p]
      /\ AcknowledgedIn(mid) = AcknowledgedIn(handoff)
  BY <1>1, AdvanceClockShape
<1> HIDE DEF mid
<1>5. /\ h \in Handoffs /\ h.number = handoff.number
      /\ InFlight(h) \subseteq InFlight(mid)
      /\ request \in requests => request.peer \notin InFlight(h)
      /\ \A p \in InFlight(h) : h.recipients[p] = mid.recipients[p]
      /\ AcknowledgedIn(h) \subseteq AcknowledgedIn(mid) \cup
           (IF request \in requests /\ outcome = "Acknowledged" THEN {request.peer} ELSE {})
  <2>1. CASE request \in requests
    <3>1. h = Resolve(mid, request.peer, outcome)
      BY <2>1
    <3> HIDE DEF h
    <3> QED BY <1>1, <1>4, <2>1, <3>1, ResolveShape
  <2>2. CASE request \notin requests
    BY <1>4, <2>2
  <2> QED BY <2>1, <2>2
<1> HIDE DEF h
<1>6. \A p \in InFlight(h) : RequestFor(h, p) = RequestFor(handoff, p)
  BY <1>4, <1>5 DEF RequestFor
<1>7. ASSUME NEW p \in InFlight(h) PROVE RequestFor(h, p) \in reqs
  <2>1. RequestFor(handoff, p) \in requests /\ RequestFor(handoff, p).peer = p
    BY <1>1, <1>4, <1>5, RequestsOwned DEF RequestFor
  <2> QED BY <1>5, <1>6, <1>7, <2>1
<1>8. ASSUME NEW r \in reqs, r.peer \in InFlight(h) PROVE r = RequestFor(h, r.peer)
  BY <1>1, <1>6, <1>8, RequestsOwned
<1>9. ASSUME NEW p \in AcknowledgedIn(h) PROVE <<h.number, p>> \in installed'
  <2>1. CASE p \in AcknowledgedIn(mid)
    BY <1>2, <1>4, <1>5, <2>1
  <2>2. CASE p \notin AcknowledgedIn(mid)
    <3>1. request \in requests /\ outcome = "Acknowledged" /\ p = request.peer
      BY <1>5, <2>2
    <3>2. request.handoff = handoff.number
      BY <1>1, <3>1, RequestsOwned
    <3> QED BY <1>5, <3>1, <3>2
  <2> QED BY <2>1, <2>2
<1> HIDE DEF reqs
<1> QED BY <1>3, <1>5, <1>7, <1>8, <1>9, SettledHolds

LEMMA CancelHolds ==
    ASSUME HandoffInvariant, CancelHandoff PROVE HandoffInvariant'
<1> DEFINE r == Report(handoff)
<1>1. handoff \in Handoffs /\ now' = now /\ issued' = issued
      /\ handoff' = NoHandoff /\ requests' = {}
  BY DEF HandoffInvariant, HandoffTypeOK, CancelHandoff
<1>2. r \in Reports /\ r.recipients = r.acknowledged + r.failed + r.pending
  BY <1>1, ReportSums
<1>3. report' = [r EXCEPT !.failed = @ + r.pending, !.pending = 0]
  BY DEF CancelHandoff
<1> HIDE DEF r
<1>4. report' = [recipients |-> r.recipients, acknowledged |-> r.acknowledged,
                 failed |-> r.failed + r.pending, pending |-> 0]
  BY <1>2, <1>3, Zenon DEF Reports
<1>5. report' \in Reports /\ ReportAccounts'
  BY <1>2, <1>4 DEF Reports, ReportAccounts
<1> QED BY <1>1, <1>5 DEF HandoffInvariant, HandoffTypeOK, AcknowledgedMeansInstalled

-----------------------------------------------------------------------------
(* The theorems.                                                           *)

\* The ledger of the mutation handoff is in step with the requests the runner owns,
\* with the recipients that installed the command and with the last report, whatever
\* the order of answers, timeouts, cancellations and new commands.
THEOREM HandoffIsConsistent == HandoffSpec => []HandoffInvariant
<1>1. HandoffInit => HandoffInvariant
  <2> SUFFICES ASSUME HandoffInit PROVE HandoffInvariant
    OBVIOUS
  <2>1. report \in Reports /\ ReportAccounts
    BY DEF HandoffInit, Reports, ReportAccounts
  <2> QED BY <2>1 DEF HandoffInit, HandoffInvariant, HandoffTypeOK, AcknowledgedMeansInstalled
<1>2. HandoffInvariant /\ [HandoffNext]_handoffVars => HandoffInvariant'
  <2> SUFFICES ASSUME HandoffInvariant, [HandoffNext]_handoffVars PROVE HandoffInvariant'
    OBVIOUS
  <2>0. now \in Nat /\ issued \in Nat
    BY DEF HandoffInvariant, HandoffTypeOK
  <2>1. ASSUME NEW rs \in SUBSET Recipients, ApplyWithHandoff(rs) PROVE HandoffInvariant'
    BY <2>1, ApplyHolds
  <2>2. ASSUME NEW connected \in SUBSET Recipients, DriveMutations(connected)
        PROVE  HandoffInvariant'
    BY <2>2, DriveHolds
  <2>3. ASSUME NEW request \in sent, NEW outcome \in Outcomes, HandleResponse(request, outcome)
        PROVE  HandoffInvariant'
    <3>1. now' = now /\ issued' = issued /\ installed \subseteq installed'
      BY <2>3 DEF HandleResponse
    <3>2. CASE handoff = NoHandoff
      BY <2>3, <3>1, <3>2 DEF HandleResponse, HandoffInvariant, HandoffTypeOK, ReportAccounts,
                           AcknowledgedMeansInstalled
    <3>3. CASE handoff # NoHandoff
      <4>1. Resolved(request, Delivered(outcome))
        BY <2>3, <3>3 DEF HandleResponse
      <4>2. Delivered(outcome) = "Acknowledged" => outcome = "Boundary"
        BY <2>3 DEF Delivered, Outcomes
      <4>3. outcome = "Boundary" => <<request.handoff, request.peer>> \in installed'
        BY <2>3 DEF HandleResponse
      <4> QED BY <2>0, <3>1, <3>3, <4>1, <4>2, <4>3, ResolvedHolds
    <3> QED BY <3>2, <3>3
  <2>4. ASSUME NEW request \in requests, FailRequest(request) PROVE HandoffInvariant'
    <3>1. PICK failure \in {"RetryableFailure", "DefiniteFailure"} : Resolved(request, failure)
      BY <2>4 DEF FailRequest
    <3>2. handoff # NoHandoff
      BY <2>4 DEF HandoffInvariant
    <3>3. failure # "Acknowledged"
      OBVIOUS
    <3>4. now' = now /\ issued' = issued /\ installed' = installed
      BY <2>4 DEF FailRequest
    <3> QED BY <2>0, <3>1, <3>2, <3>3, <3>4, ResolvedHolds, Zenon
  <2>5. CASE CancelHandoff
    BY <2>5, CancelHolds
  <2>6. CASE Tick
    BY <2>0, <2>6 DEF Tick, HandoffInvariant, HandoffTypeOK, AcknowledgedMeansInstalled,
                      ReportAccounts, RequestsOf, RequestFor, InFlight
  <2>7. CASE UNCHANGED handoffVars
    BY <2>7 DEF handoffVars, HandoffInvariant, HandoffTypeOK, AcknowledgedMeansInstalled,
                ReportAccounts, RequestsOf, RequestFor, InFlight
  <2> QED BY <2>1, <2>2, <2>3, <2>4, <2>5, <2>6, <2>7 DEF HandoffNext
<1> QED BY <1>1, <1>2, PTL DEF HandoffSpec

\* One request per recipient: the requests are as many as the deliveries in flight.
LEMMA RequestsCounted ==
    ASSUME NEW h \in Handoffs
    PROVE  Cardinality(RequestsOf(h)) = Cardinality(InFlight(h))
<1> DEFINE f == [p \in InFlight(h) |-> RequestFor(h, p)]
<1>1. IsFiniteSet(InFlight(h))
  <2>1. InFlight(h) \subseteq Recipients
    BY HandoffParts DEF InFlight
  <2> QED BY <2>1, HandoffAssumption, FS_Subset
<1>2. f \in Bijection(InFlight(h), RequestsOf(h))
  BY DEF Bijection, Injection, Surjection, RequestsOf, RequestFor, IsInjective
<1>3. ExistsBijection(InFlight(h), RequestsOf(h))
  BY <1>2 DEF ExistsBijection
<1> QED BY <1>1, <1>3, FS_Bijection

\* A late answer to a timed-out attempt, or to an earlier command, finds no owner:
\* between handlers mutation_requests holds exactly one request of the open handoff for
\* every delivery in flight.
THEOREM OneRequestPerDelivery == HandoffSpec => []RequestsMatchDeliveries
<1>1. HandoffInvariant => RequestsMatchDeliveries
  <2> SUFFICES ASSUME HandoffInvariant PROVE RequestsMatchDeliveries
    OBVIOUS
  <2>1. handoff # NoHandoff => handoff \in Handoffs /\ requests = RequestsOf(handoff)
    BY DEF HandoffInvariant, HandoffTypeOK
  <2>2. handoff # NoHandoff => {r.peer : r \in requests} = InFlight(handoff)
    <3> SUFFICES ASSUME handoff # NoHandoff PROVE {r.peer : r \in requests} = InFlight(handoff)
      OBVIOUS
    <3>1. \A p \in InFlight(handoff) : RequestFor(handoff, p).peer = p
      BY DEF RequestFor
    <3> QED BY <2>1, <3>1, RequestsOwned
  <2> QED BY <2>1, <2>2, RequestsCounted, RequestsOwned
          DEF RequestsMatchDeliveries, HandoffInvariant
<1> QED BY <1>1, HandoffIsConsistent, PTL

\* No order of answers, retries and restarted commands acknowledges a delivery for a
\* peer that did not install this very command.
THEOREM AcknowledgementsAreEarned == HandoffSpec => []AcknowledgedMeansInstalled
<1>1. HandoffInvariant => AcknowledgedMeansInstalled
  BY DEF HandoffInvariant
<1> QED BY <1>1, HandoffIsConsistent, PTL

\* The report that finish_handoff_if_due or cancel_handoff leaves accounts for every
\* recipient and leaves none pending.
THEOREM ReportsAreComplete == HandoffSpec => []ReportAccounts
<1>1. HandoffInvariant => ReportAccounts
  BY DEF HandoffInvariant
<1> QED BY <1>1, HandoffIsConsistent, PTL
=============================================================================
