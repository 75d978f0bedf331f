-------------------------- MODULE MutationHandoff ---------------------------
(***************************************************************************)
(* Delivery of one signed command to its recipients (checkpoint_handoff.rs *)
(* and the sender's half of checkpoint_runtime.rs): attempts, retries and  *)
(* the window that ends a handoff, against answers that arrive late, never *)
(* or for an earlier attempt.  Time counts in units of RETRY_DELAY.        *)
(***************************************************************************)
EXTENDS Naturals, FiniteSets

CONSTANTS Recipients,       \* peers, ordered as PeerId is
          HandoffWindow, AttemptWindow, MaxInFlight, MaxAttempts,
          NoHandoff,
          MaxHandoffs,      \* bound: commands the device issues
          MaxNow            \* bound: the clock

ASSUME HandoffAssumption ==
    /\ Recipients \in SUBSET Nat /\ IsFiniteSet(Recipients)
    /\ {HandoffWindow, AttemptWindow, MaxInFlight, MaxAttempts} \subseteq Nat \ {0}
    /\ {MaxHandoffs, MaxNow} \subseteq Nat

RetryDelay == 1

VARIABLES
    now,
    handoff,     \* the open handoff or NoHandoff
    requests,    \* mutation_requests, each named by handoff, peer and attempt
    issued,      \* handoffs so far
    sent,        \* requests no peer has answered yet
    installed,   \* what the peers really installed
    report       \* last_handoff

handoffVars == <<now, handoff, requests, issued, sent, installed, report>>

States == {"Ready", "InFlight", "Acknowledged", "Failed"}
Outcomes == {"Boundary", "Retryable", "Definite"}

Deliveries == [attempts : Nat, state : States, at : Nat]
Handoffs == [number : Nat, deadline : Nat,
             recipients : UNION {[peers -> Deliveries] : peers \in SUBSET Recipients}]

ASSUME NoHandoffAssumption == NoHandoff \notin Handoffs

-----------------------------------------------------------------------------
(* The delivery ledger.                                                    *)

Pending(del) == del.state \in {"Ready", "InFlight"}

InFlight(h) == {p \in DOMAIN h.recipients : h.recipients[p].state = "InFlight"}

NewHandoff(number, recipients) ==
    [number |-> number, deadline |-> now + HandoffWindow,
     recipients |-> [p \in recipients |->
                       [attempts |-> 0, state |-> "Ready", at |-> now]]]

ResolveDelivery(del, outcome) ==
    IF outcome = "Acknowledged"
    THEN [del EXCEPT !.state = "Acknowledged", !.at = 0]
    ELSE IF outcome = "RetryableFailure" /\ del.attempts < MaxAttempts
    THEN [del EXCEPT !.state = "Ready", !.at = now + RetryDelay]
    ELSE [del EXCEPT !.state = "Failed", !.at = 0]

\* Mutant of AdvanceClock: the window of the handoff is not enforced.
AdvanceClockAttemptsOnly(h) ==
    [h EXCEPT !.recipients = [p \in DOMAIN @ |->
       IF @[p].state = "InFlight" /\ now >= @[p].at
       THEN ResolveDelivery(@[p], "RetryableFailure") ELSE @[p]]]

AdvanceClock(h) ==
    [h EXCEPT !.recipients = [p \in DOMAIN @ |->
       IF now >= h.deadline /\ Pending(@[p])
       THEN [@[p] EXCEPT !.state = "Failed", !.at = 0]
       ELSE IF now < h.deadline /\ @[p].state = "InFlight" /\ now >= @[p].at
       THEN ResolveDelivery(@[p], "RetryableFailure")
       ELSE @[p]]]

Resolve(h, p, outcome) ==
    LET after == AdvanceClock(h)
    IN  IF p \in InFlight(after)
        THEN [after EXCEPT !.recipients[p] = ResolveDelivery(@, outcome)]
        ELSE after

Count(h, states) ==
    Cardinality({p \in DOMAIN h.recipients : h.recipients[p].state \in states})

Report(h) ==
    [recipients |-> Cardinality(DOMAIN h.recipients),
     acknowledged |-> Count(h, {"Acknowledged"}),
     failed |-> Count(h, {"Failed"}),
     pending |-> Count(h, {"Ready", "InFlight"})]

\* Mutant of Settle: a timed-out attempt keeps its request.
SettleKeepingRequests(h, reqs) ==
    LET after == AdvanceClock(h)
        over == Report(after).pending = 0
    IN  /\ handoff' = IF over THEN NoHandoff ELSE after
        /\ requests' = IF over THEN {} ELSE reqs
        /\ report' = IF over THEN Report(after) ELSE report

\* finish_handoff_if_due, at the end of every handler.
Settle(h, reqs) ==
    LET after == AdvanceClock(h)
        over == Report(after).pending = 0
    IN  /\ handoff' = IF over THEN NoHandoff ELSE after
        /\ requests' = IF over THEN {}
                       ELSE {r \in reqs : r.peer \in InFlight(after)}
        /\ report' = IF over THEN Report(after) ELSE report

-----------------------------------------------------------------------------
(* The device.                                                             *)

\* apply_change_with_handoff, once the change is installed.
ApplyWithHandoff(recipients) ==
    /\ issued < MaxHandoffs
    /\ now + HandoffWindow <= MaxNow
    /\ handoff = NoHandoff
    /\ issued' = issued + 1
    /\ Settle(NewHandoff(issued + 1, recipients), requests)
    /\ UNCHANGED <<now, sent, installed>>

ReadyNow(h) ==
    {p \in DOMAIN h.recipients : /\ h.recipients[p].state = "Ready"
                                 /\ now >= h.recipients[p].at}

\* The order in which next_ready picks them.
Earlier(h, p, q) ==
    \/ h.recipients[p].at < h.recipients[q].at
    \/ h.recipients[p].at = h.recipients[q].at /\ p < q

\* The recipients next_ready returns in the loop of drive_mutations: a connected one
\* takes a slot, so each is reached while those before it left one.
Reached(h, connected) ==
    {p \in ReadyNow(h) :
       /\ now < h.deadline
       /\ Cardinality(InFlight(h) \cup
            {q \in ReadyNow(h) \cap connected : Earlier(h, q, p)}) < MaxInFlight}

\* The delivery of a recipient that was reached.
Attempted(h, del, isConnected) ==
    LET tried == [del EXCEPT !.attempts = @ + 1]
    IN  IF isConnected
        THEN [tried EXCEPT !.state = "InFlight",
                           !.at = IF now + AttemptWindow < h.deadline
                                  THEN now + AttemptWindow ELSE h.deadline]
        ELSE ResolveDelivery(tried, "RetryableFailure")

AttemptReady(h, connected) ==
    [h EXCEPT !.recipients = [p \in DOMAIN @ |->
       IF p \in Reached(h, connected) THEN Attempted(h, @[p], p \in connected)
       ELSE @[p]]]

\* drive_mutations: settle first, then attempt whatever is ready.  A handoff that
\* its last disconnected recipient ends is settled by the next handler.
DriveMutations(connected) ==
    /\ handoff # NoHandoff
    /\ LET before == AdvanceClock(handoff)
           kept == {r \in requests : r.peer \in InFlight(before)}
           after == AttemptReady(before, connected)
           fresh == {[handoff |-> after.number, peer |-> p,
                      attempt |-> after.recipients[p].attempts] :
                        p \in InFlight(after) \ InFlight(before)}
       IN  IF Report(before).pending = 0
           THEN Settle(handoff, requests) /\ UNCHANGED sent
           ELSE /\ handoff' = after
                /\ requests' = kept \cup fresh
                /\ sent' = sent \cup fresh
                /\ UNCHANGED report
    /\ UNCHANGED <<now, issued, installed>>

\* Mutant of Delivered: any well-formed answer acknowledges.
DeliveredAlways(outcome) == "Acknowledged"

\* handle_mutation_event: what an answer means for its delivery.  "Boundary" is
\* Applied, or StaleBase from a peer that holds the expected snapshot already.
Delivered(outcome) ==
    CASE outcome = "Boundary" -> "Acknowledged"
      [] outcome = "Retryable" -> "RetryableFailure"
      [] OTHER -> "DefiniteFailure"

\* A response or an outbound failure of a request: without an owner it changes
\* nothing but what the clock ends.
Resolved(request, outcome) ==
    LET h == AdvanceClock(handoff)
    IN  Settle(IF request \in requests THEN Resolve(h, request.peer, outcome) ELSE h,
               requests \ {request})

\* The answer to a request arrives, however late; a peer that answers with the
\* boundary installed the command before.
HandleResponse(request, outcome) ==
    /\ sent' = sent \ {request}
    /\ installed' = installed \cup
         (IF outcome = "Boundary" THEN {<<request.handoff, request.peer>>} ELSE {})
    /\ IF handoff = NoHandoff THEN UNCHANGED <<handoff, requests, report>>
       ELSE Resolved(request, Delivered(outcome))
    /\ UNCHANGED <<now, issued>>

\* OutboundFailure, or a response the runner discards.
FailRequest(request) ==
    /\ \E failure \in {"RetryableFailure", "DefiniteFailure"} :
         Resolved(request, failure)
    /\ UNCHANGED <<now, issued, sent, installed>>

\* Mutant of CancelHandoff: what was pending is not counted as failed.
CancelHandoffUncounted ==
    /\ handoff # NoHandoff
    /\ report' = [Report(handoff) EXCEPT !.pending = 0]
    /\ handoff' = NoHandoff
    /\ requests' = {}
    /\ UNCHANGED <<now, issued, sent, installed>>

\* cancel_handoff, when the device is excluded or gated.
CancelHandoff ==
    /\ handoff # NoHandoff
    /\ report' = [Report(handoff) EXCEPT !.failed = @ + Report(handoff).pending,
                                         !.pending = 0]
    /\ handoff' = NoHandoff
    /\ requests' = {}
    /\ UNCHANGED <<now, issued, sent, installed>>

-----------------------------------------------------------------------------
(* The clock, and the specification.                                       *)

Tick ==
    /\ now < MaxNow
    /\ now' = now + 1
    /\ UNCHANGED <<handoff, requests, issued, sent, installed, report>>

HandoffInit ==
    /\ now = 0
    /\ handoff = NoHandoff
    /\ requests = {}
    /\ issued = 0
    /\ sent = {}
    /\ installed = {}
    /\ report = [recipients |-> 0, acknowledged |-> 0, failed |-> 0, pending |-> 0]

HandoffNext ==
    \/ \E recipients \in SUBSET Recipients : ApplyWithHandoff(recipients)
    \/ \E connected \in SUBSET Recipients : DriveMutations(connected)
    \/ \E request \in sent, outcome \in Outcomes : HandleResponse(request, outcome)
    \/ \E request \in requests : FailRequest(request)
    \/ CancelHandoff
    \/ Tick

HandoffSpec == HandoffInit /\ [][HandoffNext]_handoffVars

\* Time passes, and the runner drives the mutations on every checkpoint tick; only
\* a tick after the window is needed, and there every set of connected peers gives
\* the same step.
FairHandoffSpec ==
    /\ HandoffSpec
    /\ WF_handoffVars(Tick)
    /\ WF_handoffVars(handoff # NoHandoff /\ now >= handoff.deadline /\ DriveMutations({}))

-----------------------------------------------------------------------------
(* Properties.                                                             *)

\* Between handlers every delivery in flight has exactly one request, and a request
\* belongs to the open handoff: a late answer to a timed-out attempt, or to an
\* earlier handoff, finds no owner in mutation_requests.
RequestsMatchDeliveries ==
    /\ handoff = NoHandoff => requests = {}
    /\ handoff # NoHandoff =>
         /\ {r.peer : r \in requests} = InFlight(handoff)
         /\ Cardinality(requests) = Cardinality(InFlight(handoff))
         /\ \A r \in requests : r.handoff = handoff.number

\* A delivery is acknowledged only for a peer that installed this very command.
AcknowledgedMeansInstalled ==
    handoff # NoHandoff =>
      \A p \in DOMAIN handoff.recipients :
        handoff.recipients[p].state = "Acknowledged"
          => <<handoff.number, p>> \in installed

\* The report of a finished or cancelled handoff accounts for every recipient.
ReportAccounts ==
    report.pending = 0 /\ report.acknowledged + report.failed = report.recipients

\* A handoff ends, so that the device may issue its next command
\* (apply_change_with_handoff refuses while one is open).
HandoffEnds == handoff # NoHandoff ~> handoff = NoHandoff
=============================================================================
