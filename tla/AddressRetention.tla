-------------------------- MODULE AddressRetention --------------------------
(***************************************************************************)
(* The addresses a device keeps of its peers (runtime/address_retention.rs *)
(* and its callers in runtime/runner.rs).  One index admits every address  *)
(* within a budget per peer and one per class; the recovery cache and the  *)
(* routing tables of the two DHTs hold copies, which have to go when the   *)
(* index drops the address.  Equal instants leave the victim open.         *)
(***************************************************************************)
EXTENDS Naturals, FiniteSets

CONSTANTS Remotes, Addresses,
          Heard,               \* the addresses of peers that discovery may report
          Category,            \* of an address: LAN, public or relayed
          Relayed,             \* the relayed category
          Static,              \* configured_peer_addresses
          Infrastructure,      \* configured_infrastructure_peers
          MaxPerPeer,          \* MAX_DISCOVERED_ADDRESSES_PER_PEER
          MaxOverlay,          \* MAX_DISCOVERED_ADDRESSES
          MaxInfrastructure,   \* MAX_INFRASTRUCTURE_ADDRESSES
          AddressTtl,          \* DISCOVERED_ADDRESS_TTL
          MaxChanges           \* bound: ticks of time, changes of the roster, and addresses
                               \* taken back by mDNS or for want of a reservation

ASSUME RetentionAssumption ==
    /\ Static \cup Heard \subseteq Remotes \X Addresses /\ Infrastructure \subseteq Remotes
    /\ {MaxPerPeer, MaxOverlay, MaxInfrastructure} \subseteq Nat \ {0}
    /\ {AddressTtl, MaxChanges} \subseteq Nat

VARIABLES
    entries,      \* AddressRetention.entries
    protected,    \* AddressRetention.protected
    cache,        \* DiscoveredPeerAddresses.addresses
    kad,          \* addresses given to the overlay's DHT
    pairingKad,   \* addresses given to the DHT of public pairing
    members,      \* the configured transport peers of the forwarder
    eligible,     \* CheckpointDiscoveryRetention.eligible
    clock,
    changes

bookVars == <<entries, protected, cache, kad, pairingKad, members, eligible, clock,
              changes>>

Key(e) == <<e.peer, e.address>>
Keys(S) == {Key(e) : e \in S}

(* ------------------------------ admission ------------------------------ *)

\* Mutant of Victims: the oldest entry, whoever owns it.
VictimsOldest(S, preferred) == {e \in S : \A x \in S : e.seen <= x.seen}

\* min_by_key: the oldest of the preferred entries, if there are any, else of all.
Victims(S, preferred) ==
    LET pool == IF S \cap preferred = {} THEN S ELSE S \cap preferred
    IN  {e \in pool : \A x \in pool : e.seen <= x.seen}

\* Mutant of Evicted: the second victim replaces the first.
EvictedLast(first, second) == IF second = {} THEN Keys(first) ELSE Keys(second)

Evicted(first, second) == Keys(first \cup second)

\* The sets of victims that bring a set of entries below a limit.
Making(S, limit, preferred) ==
    IF Cardinality(S) >= limit THEN {{e} : e \in Victims(S, preferred)} ELSE {{}}

\* admit: the entries it may leave and the addresses it may evict.
Admissions(p, a, overlay) ==
    LET new == [peer |-> p, address |-> a, overlay |-> overlay, seen |-> clock]
        same == {e \in entries : Key(e) = <<p, a>>}
        others == entries \ same
        own == {e \in others : e.peer = p}
        ofClass(first) == {e \in others \ first : e.overlay = overlay}
        alike == {e \in own : Category[e.address] = Category[a]}
    IN  IF \E e \in same : e.overlay = overlay
        THEN {[entries |-> others \cup {new}, evicted |-> {}]}
        ELSE UNION {{[entries |-> (others \ (first \cup second)) \cup {new},
                      evicted |-> Evicted(first, second)] :
                     second \in Making(ofClass(first),
                                       IF overlay THEN MaxOverlay ELSE MaxInfrastructure, own)} :
                    first \in Making(own, MaxPerPeer, alike)}

\* remove_retained_discovery_address, for a set of addresses: what is left of the
\* cache and of a routing table.
CacheWithout(gone) == {e \in cache : Key(e) \notin gone}
TableWithout(table, gone) == table \ (gone \ protected)

\* learn_peer_address_with_policy, for an address it does not refuse.
Learn(p, a) ==
    \E admission \in Admissions(p, a, p \in members) :
        /\ entries' = admission.entries
        /\ kad' = TableWithout(kad, admission.evicted) \cup {<<p, a>>}
        /\ pairingKad' = TableWithout(pairingKad, admission.evicted)
        /\ cache' = IF p \in members
                    THEN {e \in CacheWithout(admission.evicted) : Key(e) # <<p, a>>}
                           \cup {[peer |-> p, address |-> a, seen |-> clock]}
                    ELSE CacheWithout(admission.evicted)
        /\ UNCHANGED <<protected, members, eligible, clock, changes>>

\* learn_public_pairing_address: a peer that is known only to the pairing DHT.
LearnPairing(p, a) ==
    /\ p \notin members
    /\ \E admission \in Admissions(p, a, FALSE) :
        /\ entries' = admission.entries
        /\ kad' = TableWithout(kad, admission.evicted)
        /\ pairingKad' = TableWithout(pairingKad, admission.evicted) \cup {<<p, a>>}
        /\ cache' = CacheWithout(admission.evicted)
        /\ UNCHANGED <<protected, members, eligible, clock, changes>>

(* ------------------------------- removal ------------------------------- *)

Change == changes < MaxChanges /\ changes' = changes + 1

Fresh(e) == clock - e.seen <= AddressTtl

\* expire_discovered_peer_addresses
ExpireAddresses ==
    LET gone == Keys({e \in entries : ~Fresh(e)})
    IN  /\ \E e \in entries \cup cache : ~Fresh(e)
        /\ entries' = {e \in entries : Fresh(e)}
        /\ cache' = {e \in CacheWithout(gone) : Fresh(e)}
        /\ kad' = TableWithout(kad, gone)
        /\ pairingKad' = TableWithout(pairingKad, gone)
        /\ UNCHANGED <<protected, members, eligible, clock, changes>>

\* mDNS announces that an address expired; a direct one of a member is kept.
MdnsExpired(p, a) ==
    /\ Change
    /\ p \notin members \/ Category[a] = Relayed
    /\ <<p, a>> \in Keys(cache) \cup kad
    /\ cache' = CacheWithout({<<p, a>>})
    /\ kad' = kad \ {<<p, a>>}
    /\ UNCHANGED <<entries, protected, pairingKad, members, eligible, clock>>

\* record_discovered_outgoing_connection_failure: the relay has no reservation.
NoReservation(p, a) ==
    /\ Change
    /\ Category[a] = Relayed /\ <<p, a>> \in Keys(cache)
    /\ cache' = CacheWithout({<<p, a>>})
    /\ UNCHANGED <<entries, protected, kad, pairingKad, members, eligible, clock>>

\* The peers replace_eligible compares with the eligible ones.
Previous ==
    eligible \cup {e.peer : e \in cache} \cup {k[1] : k \in protected}
      \cup {e.peer : e \in {x \in entries : x.overlay}}

\* replace_eligible and retain_peers: the peers that departed leave nothing behind.
Reconcile(chosen) ==
    LET departed == Previous \ chosen
    IN  /\ members \cup Infrastructure \subseteq chosen
        /\ chosen # eligible \/ departed # {}
        /\ eligible' = chosen
        /\ entries' = {e \in entries : e.peer \notin departed}
        /\ protected' = {k \in protected : k[1] \notin departed}
        /\ cache' = {e \in cache : e.peer \notin departed}
        /\ kad' = {k \in kad : k[1] \notin departed}
        /\ pairingKad' = {k \in pairingKad : k[1] \notin departed}
        /\ UNCHANGED <<members, clock, changes>>

\* The forwarder installs another roster, or its gate opens or closes.
RosterChanges(roster) ==
    /\ Change
    /\ roster # members
    /\ members' = roster
    /\ UNCHANGED <<entries, protected, cache, kad, pairingKad, eligible, clock>>

TimePasses ==
    /\ Change
    /\ clock' = clock + 1
    /\ UNCHANGED <<entries, protected, cache, kad, pairingKad, members, eligible>>

BookInit ==
    /\ entries = {} /\ cache = {} /\ kad = {} /\ pairingKad = {}
    /\ protected = Static
    /\ members \in SUBSET Remotes /\ eligible = {} /\ clock = 0 /\ changes = 0

BookNext ==
    \/ \E k \in Heard : Learn(k[1], k[2])
    \/ \E k \in Heard : LearnPairing(k[1], k[2])
    \/ ExpireAddresses
    \/ \E k \in Heard : MdnsExpired(k[1], k[2])
    \/ \E k \in Heard : NoReservation(k[1], k[2])
    \/ \E chosen \in SUBSET Remotes : Reconcile(chosen)
    \/ \E roster \in SUBSET Remotes : RosterChanges(roster)
    \/ TimePasses

BookSpec == BookInit /\ [][BookNext]_bookVars

(* ------------------------------ properties ----------------------------- *)

\* Whatever is evicted, expires or departs is gone everywhere: the recovery cache
\* holds only admitted addresses and the routing tables only these and configured
\* ones, however often a peer changes its class (retain_discovered_address,
\* expire_discovered_peer_addresses, replace_eligible).
CopiesAreRetained ==
    /\ Keys(cache) \subseteq Keys(entries)
    /\ kad \cup pairingKad \subseteq Keys(entries) \cup protected

\* "Prefer this peer's oldest entry over taking another peer's budget": an address
\* makes room for one of another peer only in the same class, and only for the first
\* address that peer has there (admit).
OthersKeepTheirShare ==
    [][\A n \in entries' \ entries, e \in entries :
         Key(e) \notin Keys(entries') =>
           \/ n.peer = e.peer
           \/ /\ n.overlay = e.overlay
              /\ {x \in entries' : x.peer = n.peer /\ x.overlay = n.overlay} = {n}]_bookVars
=============================================================================
